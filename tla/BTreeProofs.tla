---------------------------- MODULE BTreeProofs -----------------------------
(***************************************************************************)
(* Proofs about BTree, for every set of keys, payloads and page sizes.     *)
(***************************************************************************)
EXTENDS BTree, KeyOrderProofs

(***************************************************************************)
(* Slot arrays: what memmove makes of them.                                *)
(***************************************************************************)
LEMMA InsertAtProperties ==
    ASSUME NEW X, NEW s \in Seq(X), NEW i \in 1 .. Len(s) + 1, NEW e \in X
    PROVE  /\ InsertAt(s, i, e) \in Seq(X)
           /\ Len(InsertAt(s, i, e)) = Len(s) + 1
           /\ \A j \in 1 .. (i - 1) : InsertAt(s, i, e)[j] = s[j]
           /\ InsertAt(s, i, e)[i] = e
           /\ \A j \in (i + 1) .. (Len(s) + 1) : InsertAt(s, i, e)[j] = s[j - 1]
<1>0. Len(s) \in Nat
  BY LenProperties
<1> DEFINE l == SubSeq(s, 1, i - 1)
           r == SubSeq(s, i, Len(s))
           m == l \o <<e>>
<1>1. /\ l \in Seq(X) /\ Len(l) = i - 1
      /\ \A j \in 1 .. (i - 1) : l[j] = s[j]
  BY <1>0, SubSeqProperties
<1>2. /\ r \in Seq(X) /\ Len(r) = Len(s) - i + 1
      /\ \A j \in 1 .. (Len(s) - i + 1) : r[j] = s[i + j - 1]
  BY <1>0, SubSeqProperties
<1>3. <<e>> \in Seq(X) /\ Len(<<e>>) = 1 /\ <<e>>[1] = e
  OBVIOUS
<1>4. /\ m \in Seq(X) /\ Len(m) = i
      /\ \A j \in 1 .. (i - 1) : m[j] = s[j]
      /\ m[i] = e
  <2> HIDE DEF l
  <2> QED BY <1>0, <1>1, <1>3, ConcatProperties
<1>5. InsertAt(s, i, e) = m \o r
  BY DEF InsertAt
<1> HIDE DEF m, r
<1>6. /\ m \o r \in Seq(X) /\ Len(m \o r) = Len(s) + 1
      /\ \A j \in 1 .. i : (m \o r)[j] = m[j]
      /\ \A j \in (i + 1) .. (Len(s) + 1) : (m \o r)[j] = r[j - i]
  <2>1. m \in Seq(X) /\ r \in Seq(X)
    BY <1>2, <1>4
  <2>2. /\ m \o r \in Seq(X)
        /\ Len(m \o r) = Len(m) + Len(r)
        /\ \A j \in 1 .. Len(m) + Len(r) :
              (m \o r)[j] = IF j <= Len(m) THEN m[j] ELSE r[j - Len(m)]
    BY <2>1, ConcatProperties
  <2>3. Len(m) = i /\ Len(r) = Len(s) - i + 1
    BY <1>2, <1>4
  <2> QED BY <1>0, <2>2, <2>3
<1>7. \A j \in (i + 1) .. (Len(s) + 1) : r[j - i] = s[j - 1]
  <2> TAKE j \in (i + 1) .. (Len(s) + 1)
  <2>1. j - i \in 1 .. (Len(s) - i + 1) /\ i + (j - i) - 1 = j - 1
    BY <1>0
  <2> QED BY <1>2, <2>1
<1> QED BY <1>0, <1>4, <1>5, <1>6, <1>7

LEMMA RemoveAtProperties ==
    ASSUME NEW X, NEW s \in Seq(X), NEW i \in 1 .. Len(s)
    PROVE  /\ RemoveAt(s, i) \in Seq(X)
           /\ Len(RemoveAt(s, i)) = Len(s) - 1
           /\ \A j \in 1 .. (i - 1) : RemoveAt(s, i)[j] = s[j]
           /\ \A j \in i .. (Len(s) - 1) : RemoveAt(s, i)[j] = s[j + 1]
<1>0. Len(s) \in Nat
  BY LenProperties
<1> DEFINE l == SubSeq(s, 1, i - 1)
           r == SubSeq(s, i + 1, Len(s))
<1>1. /\ l \in Seq(X) /\ Len(l) = i - 1
      /\ \A j \in 1 .. (i - 1) : l[j] = s[j]
  BY <1>0, SubSeqProperties
<1>2. /\ r \in Seq(X) /\ Len(r) = Len(s) - i
      /\ \A j \in 1 .. (Len(s) - i) : r[j] = s[i + j]
  BY <1>0, SubSeqProperties
<1>3. RemoveAt(s, i) = l \o r
  BY DEF RemoveAt
<1> HIDE DEF l, r
<1>4. /\ l \o r \in Seq(X)
      /\ Len(l \o r) = Len(l) + Len(r)
      /\ \A j \in 1 .. Len(l) + Len(r) :
            (l \o r)[j] = IF j <= Len(l) THEN l[j] ELSE r[j - Len(l)]
  <2>1. l \in Seq(X) /\ r \in Seq(X)
    BY <1>1, <1>2
  <2> QED BY <2>1, ConcatProperties
<1>5. Len(l) = i - 1 /\ Len(r) = Len(s) - i
  BY <1>1, <1>2
<1>6. \A j \in 1 .. (i - 1) : (l \o r)[j] = s[j]
  <2> TAKE j \in 1 .. (i - 1)
  <2>1. j \in 1 .. Len(l) + Len(r) /\ j <= Len(l)
    BY <1>0, <1>5
  <2> QED BY <1>1, <1>4, <2>1
<1>7. \A j \in i .. (Len(s) - 1) : (l \o r)[j] = s[j + 1]
  <2> TAKE j \in i .. (Len(s) - 1)
  <2>1. /\ j \in 1 .. Len(l) + Len(r) /\ ~ (j <= Len(l))
        /\ j - Len(l) \in 1 .. (Len(s) - i) /\ i + (j - Len(l)) = j + 1
    BY <1>0, <1>5
  <2>2. (l \o r)[j] = r[j - Len(l)]
    BY <1>4, <2>1
  <2> QED BY <1>2, <2>1, <2>2
<1> QED BY <1>0, <1>3, <1>4, <1>5, <1>6, <1>7

(***************************************************************************)
(* Pages.                                                                  *)
(***************************************************************************)
Page == LeafPage \cup InnerPage

LEMMA PageFacts ==
    ASSUME NEW n \in Page
    PROVE  /\ n.lower \in Bytes /\ n.upper \in Bytes
           /\ n.tag \in {"leaf", "inner"}
           /\ IsLeaf(n) => n \in LeafPage
           /\ ~IsLeaf(n) => n \in InnerPage
           /\ Count(n) \in Nat
           /\ n.slot \in Seq(IF IsLeaf(n) THEN LeafSlot ELSE InnerSlot)
           /\ \A i \in 1 .. Count(n) :
                 /\ n.slot[i] \in (IF IsLeaf(n) THEN LeafSlot ELSE InnerSlot)
                 /\ n.slot[i].key \in Bytes
<1>1. Key \subseteq Bytes
  BY BTreeAssumption
<1>2. CASE n \in LeafPage
  <2>1. n.tag = "leaf" /\ n.lower \in Bytes /\ n.upper \in Bytes /\ n.slot \in Seq(LeafSlot)
    BY <1>2 DEF LeafPage
  <2>2. Len(n.slot) \in Nat /\ \A i \in 1 .. Len(n.slot) : n.slot[i] \in LeafSlot
    BY <2>1, LenProperties, ElementOfSeq
  <2>3. \A i \in 1 .. Len(n.slot) : n.slot[i].key \in Bytes
    BY <1>1, <2>2 DEF LeafSlot
  <2> QED BY <1>2, <2>1, <2>2, <2>3 DEF IsLeaf, Count
<1>3. CASE n \in InnerPage
  <2>1. n.tag = "inner" /\ n.lower \in Bytes /\ n.upper \in Bytes /\ n.slot \in Seq(InnerSlot)
    BY <1>3 DEF InnerPage
  <2>2. Len(n.slot) \in Nat /\ \A i \in 1 .. Len(n.slot) : n.slot[i] \in InnerSlot
    BY <2>1, LenProperties, ElementOfSeq
  <2>3. \A i \in 1 .. Len(n.slot) : n.slot[i].key \in Bytes
    BY <2>2 DEF InnerSlot
  <2> QED BY <1>3, <2>1, <2>2, <2>3 DEF IsLeaf, Count
<1> QED BY <1>2, <1>3 DEF Page

(* Every key but the empty one is above the empty key.                     *)
LEMMA EmptyLess ==
    ASSUME NEW a \in Bytes, NEW b \in Bytes, Less(a, b)
    PROVE  b # << >>
BY DEF Less

(* On a searchable page lowerBound finds the place it is defined to find.  *)
LEMMA LowerBoundProperties ==
    ASSUME NEW n \in Page, PageOK(n), NEW k \in Bytes
    PROVE  /\ LowerBound(n, k) \in 1 .. Count(n) + 1
           /\ \A j \in 1 .. (LowerBound(n, k) - 1) : Less(n.slot[j].key, k)
           /\ \A j \in LowerBound(n, k) .. Count(n) : Leq(k, n.slot[j].key)
<1>0. Count(n) \in Nat /\ \A i \in 1 .. Count(n) : n.slot[i].key \in Bytes
  BY PageFacts
<1>1. \A i, j \in 1 .. Count(n) : i < j => Less(n.slot[i].key, n.slot[j].key)
  BY DEF PageOK
<1> DEFINE T == {i \in 1 .. Count(n) + 1 : \A j \in i .. Count(n) : Leq(k, n.slot[j].key)}
<1>2. Count(n) + 1 \in T
  BY <1>0
<1>3. PICK m \in T : \A t \in T : m <= t
  <2>1. T \in SUBSET Nat /\ T # {}
    BY <1>0, <1>2
  <2> HIDE DEF T
  <2> QED BY <2>1, NatMin
<1>4. \A j \in 1 .. (m - 1) : Less(n.slot[j].key, k)
  <2> SUFFICES ASSUME NEW j \in 1 .. (m - 1), ~ Less(n.slot[j].key, k)
               PROVE  FALSE
    OBVIOUS
  <2>1. m \in 1 .. Count(n) + 1 /\ j \in 1 .. Count(n) /\ j < m
    BY <1>0
  <2>2. Leq(k, n.slot[j].key)
    BY <1>0, <2>1, LessTotal DEF Leq
  <2>3. \A x \in j .. Count(n) : Leq(k, n.slot[x].key)
    BY <1>0, <1>1, <2>1, <2>2, LeqLess DEF Leq
  <2>4. j \in T
    BY <1>0, <2>1, <2>3
  <2> QED BY <1>0, <1>3, <2>1, <2>4
<1>5. /\ m \in 1 .. Count(n) + 1
      /\ \A j \in m .. Count(n) : Leq(k, n.slot[j].key)
  OBVIOUS
<1> QED BY <1>4, <1>5 DEF LowerBound

LEMMA LowerBoundUnique ==
    ASSUME NEW n \in Page, PageOK(n), NEW k \in Bytes,
           NEW i \in 1 .. Count(n) + 1,
           \A j \in 1 .. (i - 1) : Less(n.slot[j].key, k),
           \A j \in i .. Count(n) : Leq(k, n.slot[j].key)
    PROVE  LowerBound(n, k) = i
<1> DEFINE m == LowerBound(n, k)
<1>0. Count(n) \in Nat /\ \A j \in 1 .. Count(n) : n.slot[j].key \in Bytes
  BY PageFacts
<1>1. /\ m \in 1 .. Count(n) + 1
      /\ \A j \in 1 .. (m - 1) : Less(n.slot[j].key, k)
      /\ \A j \in m .. Count(n) : Leq(k, n.slot[j].key)
  BY LowerBoundProperties
<1> HIDE DEF m
<1>2. ~ (m < i)
  <2> SUFFICES ASSUME m < i PROVE FALSE
    OBVIOUS
  <2>1. m \in 1 .. Count(n) /\ m \in 1 .. (i - 1) /\ m \in m .. Count(n)
    BY <1>0, <1>1
  <2> QED BY <1>0, <1>1, <2>1, NotBoth
<1>3. ~ (i < m)
  <2> SUFFICES ASSUME i < m PROVE FALSE
    OBVIOUS
  <2>1. i \in 1 .. Count(n) /\ i \in 1 .. (m - 1) /\ i \in i .. Count(n)
    BY <1>0, <1>1
  <2> QED BY <1>0, <1>1, <2>1, NotBoth
<1> QED BY <1>0, <1>1, <1>2, <1>3 DEF m

(* An inner page sends a key to the child whose fences enclose it ...      *)
LEMMA ChildOfKey ==
    ASSUME NEW n \in Page, PageOK(n), ~IsLeaf(n), NEW k \in Bytes,
           InFences(k, n.lower, n.upper)
    PROVE  InFences(k, SepAt(n, LowerBound(n, k) - 1), SepAt(n, LowerBound(n, k)))
<1> DEFINE i == LowerBound(n, k)
<1>0. Count(n) \in Nat
  BY PageFacts
<1>1. /\ i \in 1 .. Count(n) + 1
      /\ \A j \in 1 .. (i - 1) : Less(n.slot[j].key, k)
      /\ \A j \in i .. Count(n) : Leq(k, n.slot[j].key)
  BY LowerBoundProperties
<1> HIDE DEF i
<1>2. AboveFence(k, SepAt(n, i - 1))
  BY <1>0, <1>1 DEF InFences, AboveFence, SepAt
<1>3. BelowFence(k, SepAt(n, i))
  BY <1>0, <1>1 DEF InFences, BelowFence, SepAt
<1> QED BY <1>2, <1>3 DEF InFences, i

(* ... and to no other child.                                              *)
LEMMA KeyOfChild ==
    ASSUME NEW n \in Page, PageOK(n), ~IsLeaf(n), NEW k \in Bytes,
           NEW i \in 1 .. Count(n) + 1,
           InFences(k, SepAt(n, i - 1), SepAt(n, i))
    PROVE  LowerBound(n, k) = i
<1>0. Count(n) \in Nat /\ \A j \in 1 .. Count(n) : n.slot[j].key \in Bytes
  BY PageFacts
<1>1. /\ \A x, y \in 1 .. Count(n) : x < y => Less(n.slot[x].key, n.slot[y].key)
      /\ \A x \in 1 .. Count(n) : n.slot[x].key # << >>
  BY DEF PageOK
<1>2. \A j \in 1 .. (i - 1) : Less(n.slot[j].key, k)
  <2> TAKE j \in 1 .. (i - 1)
  <2>1. i - 1 \in 1 .. Count(n) /\ j \in 1 .. Count(n)
    BY <1>0
  <2>2. Less(n.slot[i - 1].key, k)
    BY <1>0, <1>1, <2>1 DEF InFences, AboveFence, SepAt
  <2> QED BY <1>0, <1>1, <2>1, <2>2, LessTransitive
<1>3. \A j \in i .. Count(n) : Leq(k, n.slot[j].key)
  <2> TAKE j \in i .. Count(n)
  <2>1. i \in 1 .. Count(n) /\ j \in 1 .. Count(n)
    BY <1>0
  <2>2. Leq(k, n.slot[i].key)
    BY <1>0, <1>1, <2>1 DEF InFences, BelowFence, SepAt
  <2> QED BY <1>0, <1>1, <2>1, <2>2, LeqLess DEF Leq
<1> QED BY <1>2, <1>3, LowerBoundUnique

(***************************************************************************)
(* What the operations on a page do to it.                                 *)
(***************************************************************************)
SlotType(n) == IF IsLeaf(n) THEN LeafSlot ELSE InnerSlot

(* A page whose slot array is replaced keeps its other fields.             *)
LEMMA WithSlots ==
    ASSUME NEW n \in Page, NEW s \in Seq(SlotType(n))
    PROVE  /\ [n EXCEPT !.slot = s] \in Page
           /\ [n EXCEPT !.slot = s].slot = s
           /\ [n EXCEPT !.slot = s].lower = n.lower
           /\ [n EXCEPT !.slot = s].upper = n.upper
           /\ [n EXCEPT !.slot = s].up = n.up
           /\ IsLeaf([n EXCEPT !.slot = s]) <=> IsLeaf(n)
<1>1. CASE IsLeaf(n)
  <2>1. n \in LeafPage /\ s \in Seq(LeafSlot)
    BY <1>1, PageFacts DEF SlotType
  <2> QED BY <2>1 DEF LeafPage, Page, IsLeaf
<1>2. CASE ~IsLeaf(n)
  <2>1. n \in InnerPage /\ s \in Seq(InnerSlot)
    BY <1>2, PageFacts DEF SlotType
  <2> QED BY <2>1 DEF InnerPage, Page, IsLeaf
<1> QED BY <1>1, <1>2

LEMMA InsertSlotOK ==
    ASSUME NEW n \in Page, PageOK(n), NEW k \in Bytes, NEW v,
           [key |-> k, val |-> v] \in SlotType(n),
           InFences(k, n.lower, n.upper),
           ~FoundAt(n, k, LowerBound(n, k)),
           ~IsLeaf(n) => k # << >>
    PROVE  /\ InsertSlot(n, LowerBound(n, k), k, v) \in Page
           /\ PageOK(InsertSlot(n, LowerBound(n, k), k, v))
           /\ InsertSlot(n, LowerBound(n, k), k, v).lower = n.lower
           /\ InsertSlot(n, LowerBound(n, k), k, v).upper = n.upper
           /\ IsLeaf(InsertSlot(n, LowerBound(n, k), k, v)) <=> IsLeaf(n)
<1> DEFINE i == LowerBound(n, k)
           e == [key |-> k, val |-> v]
           s == InsertAt(n.slot, i, e)
           c == Count(n)
<1>0. c \in Nat /\ (\A j \in 1 .. c : n.slot[j].key \in Bytes) /\ n.slot \in Seq(SlotType(n))
  BY PageFacts DEF SlotType
<1>1. /\ i \in 1 .. c + 1
      /\ \A j \in 1 .. (i - 1) : Less(n.slot[j].key, k)
      /\ \A j \in i .. c : Leq(k, n.slot[j].key)
  BY LowerBoundProperties
<1>2. /\ \A x, y \in 1 .. c : x < y => Less(n.slot[x].key, n.slot[y].key)
      /\ \A x \in 1 .. c : InFences(n.slot[x].key, n.lower, n.upper)
      /\ ~IsLeaf(n) => \A x \in 1 .. c : n.slot[x].key # << >>
  BY DEF PageOK
<1>3. \A j \in i .. c : Less(k, n.slot[j].key)
  <2> TAKE j \in i .. c
  <2>1. i \in 1 .. c /\ j \in 1 .. c
    BY <1>0, <1>1
  <2>2. Less(k, n.slot[i].key)
    BY <1>0, <1>1, <2>1 DEF FoundAt, Leq
  <2> QED BY <1>0, <1>2, <2>1, <2>2, LessTransitive
<1>4. /\ s \in Seq(SlotType(n))
      /\ Len(s) = c + 1
      /\ \A j \in 1 .. (i - 1) : s[j] = n.slot[j]
      /\ s[i] = e
      /\ \A j \in (i + 1) .. (c + 1) : s[j] = n.slot[j - 1]
  <2>1. e \in SlotType(n)
    OBVIOUS
  <2>2. c = Len(n.slot)
    BY DEF Count
  <2>3. n.slot \in Seq(SlotType(n)) /\ i \in 1 .. Len(n.slot) + 1
    BY <1>0, <1>1, <2>2
  <2> DEFINE q == n.slot
             X == SlotType(n)
  <2> HIDE DEF e, i, c, q, X
  <2>4. /\ InsertAt(q, i, e) \in Seq(X)
        /\ Len(InsertAt(q, i, e)) = Len(q) + 1
        /\ \A j \in 1 .. (i - 1) : InsertAt(q, i, e)[j] = q[j]
        /\ InsertAt(q, i, e)[i] = e
        /\ \A j \in (i + 1) .. (Len(q) + 1) : InsertAt(q, i, e)[j] = q[j - 1]
    <3>1. e \in X /\ q \in Seq(X) /\ i \in 1 .. Len(q) + 1
      BY <2>1, <2>3 DEF q, X
    <3> QED BY <3>1, InsertAtProperties
  <2> QED BY <2>2, <2>4 DEF q, X
<1>5. e.key = k
  OBVIOUS
<1> HIDE DEF i, s, e, c
<1>6. \A x, y \in 1 .. c + 1 : x < y => Less(s[x].key, s[y].key)
  <2> SUFFICES ASSUME NEW x \in 1 .. c + 1, NEW y \in 1 .. c + 1, x < y
               PROVE  Less(s[x].key, s[y].key)
    OBVIOUS
  <2>1. CASE y < i
    <3>1. x \in 1 .. c /\ y \in 1 .. c /\ s[x] = n.slot[x] /\ s[y] = n.slot[y]
      BY <1>0, <1>1, <1>4, <2>1, SMTT(30)
    <3> QED BY <1>2, <3>1
  <2>2. CASE y = i
    <3>1. x \in 1 .. (i - 1)
      BY <1>0, <1>1, <2>2
    <3>2. s[x] = n.slot[x] /\ s[y] = e
      BY <1>4, <2>2, <3>1
    <3>3. Less(n.slot[x].key, k)
      BY <1>1, <3>1
    <3> QED BY <1>5, <3>2, <3>3
  <2>3. CASE y > i
    <3>1. y - 1 \in i .. c /\ s[y] = n.slot[y - 1] /\ y - 1 \in 1 .. c
      BY <1>0, <1>1, <1>4, <2>3
    <3>2. CASE x < i
      <4>1. x \in 1 .. c /\ s[x] = n.slot[x] /\ x < y - 1
        BY <1>0, <1>1, <1>4, <2>3, <3>2
      <4> QED BY <1>2, <3>1, <4>1
    <3>3. CASE x = i
      BY <1>3, <1>4, <1>5, <3>1, <3>3
    <3>4. CASE x > i
      <4>1. x - 1 \in 1 .. c /\ s[x] = n.slot[x - 1] /\ x - 1 < y - 1
        BY <1>0, <1>1, <1>4, <3>4
      <4> QED BY <1>2, <3>1, <4>1
    <3> QED BY <1>1, <3>2, <3>3, <3>4
  <2> QED BY <1>1, <2>1, <2>2, <2>3
<1>7. \A x \in 1 .. c + 1 :
         s[x].key = k \/ \E y \in 1 .. c : s[x].key = n.slot[y].key
  <2> TAKE x \in 1 .. c + 1
  <2>1. CASE x < i
    <3>1. x \in 1 .. c /\ s[x] = n.slot[x]
      BY <1>0, <1>1, <1>4, <2>1
    <3> QED BY <3>1
  <2>2. CASE x = i
    BY <1>4, <1>5, <2>2
  <2>3. CASE x > i
    <3>1. x - 1 \in 1 .. c /\ s[x] = n.slot[x - 1]
      BY <1>0, <1>1, <1>4, <2>3
    <3> QED BY <3>1
  <2> QED BY <1>1, <2>1, <2>2, <2>3
<1> DEFINE m == [n EXCEPT !.slot = s]
<1>8. InsertSlot(n, i, k, v) = m
  BY DEF InsertSlot, s, e
<1>9. /\ m \in Page /\ m.slot = s /\ m.lower = n.lower /\ m.upper = n.upper
      /\ IsLeaf(m) <=> IsLeaf(n)
  BY <1>4, WithSlots
<1> HIDE DEF m
<1>10. PageOK(m)
  BY <1>2, <1>4, <1>6, <1>7, <1>9 DEF PageOK, Count
<1> QED BY <1>8, <1>9, <1>10 DEF i

LEMMA RemoveSlotOK ==
    ASSUME NEW n \in Page, PageOK(n), NEW i \in 1 .. Count(n)
    PROVE  /\ RemoveSlot(n, i) \in Page
           /\ PageOK(RemoveSlot(n, i))
           /\ RemoveSlot(n, i).lower = n.lower
           /\ RemoveSlot(n, i).upper = n.upper
           /\ IsLeaf(RemoveSlot(n, i)) <=> IsLeaf(n)
<1> DEFINE s == RemoveAt(n.slot, i)
           c == Count(n)
           m == [n EXCEPT !.slot = s]
<1>0. c \in Nat /\ n.slot \in Seq(SlotType(n))
  BY PageFacts DEF SlotType
<1>1. /\ s \in Seq(SlotType(n))
      /\ Len(s) = c - 1
      /\ \A j \in 1 .. (i - 1) : s[j] = n.slot[j]
      /\ \A j \in i .. (c - 1) : s[j] = n.slot[j + 1]
  BY <1>0, RemoveAtProperties DEF Count
<1>2. /\ \A x, y \in 1 .. c : x < y => Less(n.slot[x].key, n.slot[y].key)
      /\ \A x \in 1 .. c : InFences(n.slot[x].key, n.lower, n.upper)
      /\ ~IsLeaf(n) => \A x \in 1 .. c : n.slot[x].key # << >>
  BY DEF PageOK
<1> HIDE DEF s, c
<1>3. RemoveSlot(n, i) = m
  BY DEF RemoveSlot, s
<1>4. /\ m \in Page /\ m.slot = s /\ m.lower = n.lower /\ m.upper = n.upper
      /\ IsLeaf(m) <=> IsLeaf(n)
  BY <1>1, WithSlots
<1> DEFINE old(j) == IF j < i THEN j ELSE j + 1
<1>5. i \in 1 .. c
  BY DEF c
<1>6. \A j \in 1 .. c - 1 : old(j) \in 1 .. c /\ s[j] = n.slot[old(j)]
  BY <1>0, <1>1, <1>5, SMTT(30)
<1>7. \A x, y \in 1 .. c - 1 : x < y => old(x) < old(y)
  BY <1>0, <1>5
<1> HIDE DEF m, old
<1>8. PageOK(m)
  <2>1. Count(m) = c - 1
    BY <1>1, <1>4 DEF Count
  <2>2. \A x, y \in 1 .. c - 1 : x < y => Less(s[x].key, s[y].key)
    BY <1>2, <1>6, <1>7
  <2>3. \A x \in 1 .. c - 1 : InFences(s[x].key, n.lower, n.upper)
    BY <1>2, <1>6
  <2>4. ~IsLeaf(n) => \A x \in 1 .. c - 1 : s[x].key # << >>
    BY <1>2, <1>6
  <2> QED BY <1>4, <2>1, <2>2, <2>3, <2>4 DEF PageOK
<1> QED BY <1>3, <1>4, <1>8

(***************************************************************************)
(* Separators.                                                             *)
(***************************************************************************)
(* A separator lies between the slots on its two sides.                    *)
Cut(n, s) ==
    /\ s.sep \in Bytes
    /\ s.at \in 1 .. Count(n)
    /\ Leq(n.slot[s.at].key, s.sep)
    /\ s.at < Count(n) => Less(s.sep, n.slot[s.at + 1].key)
    /\ s.at = Count(n) => s.sep = n.slot[s.at].key

(* The window in which findSeparator looks is within the slot array.       *)
LEMMA WindowInPage ==
    ASSUME NEW n, Count(n) \in Nat, Count(n) > 1
    PROVE  /\ WindowLow(n) \in 1 .. Count(n)
           /\ WindowHigh(n) \in WindowLow(n) .. Count(n)
<1> DEFINE c == Count(n)
<1>1. \/ SepWindow = 5  \/ SepWindow = 6  \/ SepWindow = 7  \/ SepWindow = 8
      \/ SepWindow = 9  \/ SepWindow = 10 \/ SepWindow = 11 \/ SepWindow = 12
      \/ SepWindow = 13 \/ SepWindow = 14 \/ SepWindow = 15 \/ SepWindow = 16
  BY BTreeAssumption
<1>2. /\ 1 + c \div 2 - c \div (2 * SepWindow) \in 1 .. c
      /\ 1 + c \div 2 - c \div (2 * SepWindow) + c \div SepWindow
           \in 1 + c \div 2 - c \div (2 * SepWindow) .. c
  <2> HIDE DEF c
  <2>0. c \in Nat /\ c > 1
    BY DEF c
  <2> QED BY <1>1, <2>0
<1> QED BY <1>2 DEF WindowLow, WindowHigh

LEMMA LeafSeparator ==
    ASSUME NEW n \in Page, PageOK(n), Count(n) > 1
    PROVE  Cut(n, FindLeafSeparator(n))
<1> DEFINE c == Count(n)
           lo == WindowLow(n)
           hi == WindowHigh(n)
           key(i) == n.slot[i].key
           common == CommonPrefixLen(key(lo), key(hi))
           byte(i) == key(i)[common + 1]
           First(i) == /\ byte(i) # byte(lo)
                       /\ \A j \in (lo + 1) .. (i - 1) : byte(j) = byte(lo)
           first == CHOOSE i \in (lo + 1) .. hi : First(i)
           s == FindLeafSeparator(n)
<1>0. c \in Nat /\ \A j \in 1 .. c : key(j) \in Bytes
  BY PageFacts
<1>1. lo \in 1 .. c /\ hi \in lo .. c /\ lo \in Nat /\ hi \in Nat
  BY <1>0, WindowInPage
<1>2. \A x, y \in 1 .. c : x < y => Less(key(x), key(y))
  BY DEF PageOK
<1>3. s = IF Len(key(lo)) = common
          THEN [sep |-> key(lo), at |-> lo]
          ELSE IF Len(key(first)) = common + 1
          THEN [sep |-> key(first), at |-> first]
          ELSE [sep |-> Take(key(first), common + 1), at |-> first - 1]
  BY DEF FindLeafSeparator
<1>4. /\ common \in 0 .. Len(key(lo))
      /\ SharePrefix(key(lo), key(hi), common)
      /\ common < Len(key(lo)) /\ common < Len(key(hi)) => byte(lo) # byte(hi)
  BY <1>0, <1>1, CommonPrefixProperties, SMTT(30)
<1>5. /\ Len(key(lo)) \in Nat /\ Len(key(hi)) \in Nat /\ common \in Nat
  BY <1>0, <1>1, <1>4, BytesType
<1> HIDE DEF c, lo, hi, key, common, s
(* The window begins with the common prefix: cut after its first slot.     *)
<1>6. CASE Len(key(lo)) = common
  <2>1. s.sep = key(lo) /\ s.at = lo
    BY <1>3, <1>6
  <2>2. lo < c => Less(key(lo), key(lo + 1))
    BY <1>0, <1>1, <1>2
  <2> QED BY <1>0, <1>1, <2>1, <2>2 DEF Cut, Leq, key, c, s
<1>7. CASE Len(key(lo)) # common
  <2>1. common < Len(key(lo))
    BY <1>4, <1>5, <1>7
  <2>2. lo < hi
    <3>1. lo # hi
      <4> SUFFICES ASSUME lo = hi PROVE FALSE
        OBVIOUS
      <4> QED BY <1>4, <2>1
    <3> QED BY <1>1, <3>1
  (* The keys of the window share the common prefix and go on after it.    *)
  <2>3. \A j \in (lo + 1) .. hi :
           /\ j \in 1 .. c
           /\ SharePrefix(key(lo), key(j), common)
           /\ common < Len(key(j))
           /\ byte(lo) <= byte(j)
    <3> TAKE j \in (lo + 1) .. hi
    <3>1. j \in 1 .. c /\ lo < j /\ (j = hi \/ j < hi) /\ key(j) \in Bytes
          /\ key(lo) \in Bytes /\ key(hi) \in Bytes
      BY <1>0, <1>1
    <3>2. Less(key(lo), key(j)) /\ Leq(key(j), key(hi))
      BY <1>0, <1>1, <1>2, <3>1 DEF Leq
    <3>3. SharePrefix(key(j), key(lo), common)
      BY <1>4, <1>5, <3>1, <3>2, BetweenSharesPrefix
    <3>4. SharePrefix(key(lo), key(j), common)
      BY <3>3 DEF SharePrefix
    <3> QED BY <1>5, <2>1, <3>1, <3>2, <3>4, NextByte
  <2>4. byte(hi) # byte(lo)
    BY <1>1, <1>4, <2>1, <2>2, <2>3
  <2>5. first \in (lo + 1) .. hi /\ First(first)
    <3> DEFINE T == {i \in (lo + 1) .. hi : byte(i) # byte(lo)}
    <3>1. T \in SUBSET Nat /\ T # {}
      BY <1>1, <2>2, <2>4
    <3>2. PICK m \in T : \A t \in T : m <= t
      <4> HIDE DEF T
      <4> QED BY <3>1, NatMin
    <3>3. m \in (lo + 1) .. hi /\ First(m)
      BY <1>1, <3>2
    <3> HIDE DEF First
    <3> QED BY <3>3
  <2>6. /\ first \in 1 .. c /\ first - 1 \in 1 .. c /\ first \in Nat
        /\ lo < first /\ first <= hi
        /\ key(first) \in Bytes /\ key(first - 1) \in Bytes /\ key(lo) \in Bytes
        /\ Len(key(first)) \in Nat /\ common + 1 <= Len(key(first))
    <3>1. first \in Nat /\ first \in 1 .. c /\ first - 1 \in 1 .. c /\ lo < first /\ first <= hi
      BY <1>0, <1>1, <2>5
    <3>2. key(first) \in Bytes /\ key(first - 1) \in Bytes /\ key(lo) \in Bytes
      BY <1>0, <1>1, <3>1
    <3> QED BY <1>5, <2>3, <2>5, <3>1, <3>2, BytesType
  <2> HIDE DEF first
  (* The key that differs first ends there: cut after it.                  *)
  <2>7. CASE Len(key(first)) = common + 1
    <3>1. s.sep = key(first) /\ s.at = first
      BY <1>3, <1>7, <2>7
    <3>2. first < c => Less(key(first), key(first + 1))
      BY <1>0, <1>2, <2>6
    <3> QED BY <2>6, <3>1, <3>2 DEF Cut, Leq, key, c, s
  (* Otherwise its beginning separates it from the slot before it.         *)
  <2>8. CASE Len(key(first)) # common + 1
    <3> DEFINE t == Take(key(first), common + 1)
    <3>1. s.sep = t /\ s.at = first - 1
      BY <1>3, <1>7, <2>8
    <3>2. common + 1 \in 0 .. Len(key(first)) /\ common + 1 < Len(key(first))
      BY <1>5, <2>6, <2>8
    <3>3. /\ t \in Bytes /\ Len(t) = common + 1
          /\ \A j \in 1 .. common + 1 : t[j] = key(first)[j]
          /\ Less(t, key(first))
      BY <2>6, <3>2, TakeProperties
    <3> HIDE DEF t
    <3>4. /\ SharePrefix(key(lo), key(first - 1), common)
          /\ common < Len(key(first - 1))
          /\ byte(first - 1) = byte(lo)
      <4>1. CASE first - 1 = lo
        BY <1>5, <2>1, <2>6, <4>1 DEF SharePrefix
      <4>2. CASE first - 1 # lo
        <5>1. first - 1 \in (lo + 1) .. hi /\ first - 1 \in (lo + 1) .. (first - 1)
          BY <1>1, <2>6, <4>2
        <5> QED BY <2>3, <2>5, <5>1
      <4> QED BY <4>1, <4>2
    <3>5. SharePrefix(key(lo), key(first), common) /\ byte(lo) < byte(first)
      <4>1. SharePrefix(key(lo), key(first), common) /\ byte(lo) <= byte(first) /\ byte(lo) # byte(first)
        BY <2>3, <2>5
      <4>2. byte(lo) \in Nat /\ byte(first) \in Nat
        <5>1. common + 1 \in 1 .. Len(key(lo)) /\ common + 1 \in 1 .. Len(key(first))
          BY <1>5, <2>1, <2>6
        <5> QED BY <2>6, <5>1, BytesType
      <4> QED BY <4>1, <4>2
    <3>6. SharePrefix(key(first - 1), t, common)
      BY <1>5, <3>3, <3>4, <3>5 DEF SharePrefix
    <3>7. t[common + 1] = byte(first)
      BY <1>5, <3>3
    <3>8. Less(key(first - 1), t)
      BY <1>5, <2>6, <3>3, <3>4, <3>5, <3>6, <3>7, NextByteLess, SMTT(30)
    <3>9. (first - 1) + 1 = first /\ first - 1 < c
      BY <1>0, <2>6
    <3> QED BY <2>6, <3>1, <3>3, <3>8, <3>9 DEF Cut, Leq, key, c, s
  <2> QED BY <2>7, <2>8
<1> QED BY <1>6, <1>7 DEF s

(* findSeparator: everything up to slot "at" is at most the separator,     *)
(* everything behind is greater, and the separator is a legal fence.       *)
LEMMA SeparatorProperties ==
    ASSUME NEW n \in Page, PageOK(n), Count(n) > 1, FindSeparator(n).at >= 2
    PROVE  LET s == FindSeparator(n)
           IN  /\ s.sep \in Bytes
               /\ s.sep # << >>
               /\ s.at \in 1 .. Count(n)
               /\ \A j \in 1 .. s.at : Leq(n.slot[j].key, s.sep)
               /\ \A j \in (s.at + 1) .. Count(n) : Less(s.sep, n.slot[j].key)
               /\ InFences(s.sep, n.lower, n.upper)
               /\ ~IsLeaf(n) => s.sep = n.slot[s.at].key
<1> DEFINE s == FindSeparator(n)
           c == Count(n)
           key(i) == n.slot[i].key
<1>0. c \in Nat /\ (\A j \in 1 .. c : key(j) \in Bytes) /\ n.lower \in Bytes /\ n.upper \in Bytes
  BY PageFacts
<1>1. /\ \A x, y \in 1 .. c : x < y => Less(key(x), key(y))
      /\ \A x \in 1 .. c : InFences(key(x), n.lower, n.upper)
  BY DEF PageOK
<1>2. ~IsLeaf(n) => s.sep = key(s.at)
  BY DEF FindSeparator
<1>3. Cut(n, s)
  <2>1. CASE IsLeaf(n)
    BY <2>1, LeafSeparator DEF FindSeparator
  <2>2. CASE ~IsLeaf(n)
    <3>1. s.at = c \div 2 /\ s.sep = key(c \div 2)
      BY <2>2 DEF FindSeparator
    <3>2. c \div 2 \in 1 .. c /\ c \div 2 < c
      BY <1>0
    <3>3. Less(key(c \div 2), key(c \div 2 + 1))
      BY <1>0, <1>1, <3>2
    <3> QED BY <1>0, <3>1, <3>2, <3>3 DEF Cut, Leq
  <2> QED BY <2>1, <2>2
<1> HIDE DEF s
<1>4. /\ s.sep \in Bytes /\ s.at \in 1 .. c /\ s.at \in Nat /\ s.at >= 2
      /\ Leq(key(s.at), s.sep)
      /\ s.at < c => Less(s.sep, key(s.at + 1))
      /\ s.at = c => s.sep = key(s.at)
  BY <1>0, <1>3 DEF Cut, s
<1> HIDE DEF c, key
<1>5. \A j \in 1 .. s.at : Leq(key(j), s.sep)
  BY <1>0, <1>1, <1>4, LessLeq DEF Leq
<1>6. \A j \in (s.at + 1) .. c : Less(s.sep, key(j))
  <2> TAKE j \in (s.at + 1) .. c
  <2>1. s.at + 1 \in 1 .. c /\ s.at < c /\ j \in 1 .. c /\ (j = s.at + 1 \/ s.at + 1 < j)
    BY <1>0, <1>4
  <2> QED BY <1>0, <1>1, <1>4, <2>1, LessTransitive
<1>7. AboveFence(s.sep, n.lower)
  <2>1. InFences(key(s.at), n.lower, n.upper) /\ key(s.at) \in Bytes
    BY <1>0, <1>1, <1>4
  <2> QED BY <1>0, <1>4, <2>1, LessLeq DEF InFences, AboveFence
<1>8. BelowFence(s.sep, n.upper)
  <2>1. CASE s.at = c
    BY <1>1, <1>4, <2>1 DEF InFences
  <2>2. CASE s.at < c
    <3>1. s.at + 1 \in 1 .. c
      BY <1>0, <1>4, <2>2
    <3>2. Less(s.sep, key(s.at + 1)) /\ InFences(key(s.at + 1), n.lower, n.upper)
          /\ key(s.at + 1) \in Bytes
      BY <1>0, <1>1, <1>4, <2>2, <3>1
    <3> QED BY <1>0, <1>4, <3>2, LessLeq DEF InFences, BelowFence, Leq
  <2> QED BY <1>0, <1>4, <2>1, <2>2
<1>9. s.sep # << >>
  <2>1. 1 \in 1 .. c /\ 2 \in 1 .. c /\ 2 \in 1 .. s.at
    BY <1>0, <1>4
  <2>2. Less(key(1), key(2)) /\ Leq(key(2), s.sep) /\ key(1) \in Bytes /\ key(2) \in Bytes
    BY <1>0, <1>1, <1>5, <2>1
  <2> QED BY <1>4, <2>2, LessLeq, EmptyLess
<1> QED BY <1>2, <1>4, <1>5, <1>6, <1>7, <1>8, <1>9 DEF InFences, s, key, c

LEMMA LeafFields ==
    ASSUME NEW lower \in Bytes, NEW upper \in Bytes, NEW slot \in Seq(LeafSlot),
           NEW n, n = Leaf(lower, upper, slot)
    PROVE  /\ n \in Page /\ IsLeaf(n)
           /\ n.lower = lower /\ n.upper = upper /\ n.slot = slot
BY DEF Leaf, IsLeaf, Page, LeafPage

LEMMA InnerFields ==
    ASSUME NEW lower \in Bytes, NEW upper \in Bytes, NEW slot \in Seq(InnerSlot),
           NEW up \in PageId, NEW n, n = Inner(lower, upper, slot, up)
    PROVE  /\ n \in Page /\ ~IsLeaf(n)
           /\ n.lower = lower /\ n.upper = upper /\ n.slot = slot /\ n.up = up
BY DEF Inner, IsLeaf, Page, InnerPage

(* Both pages that splitNode makes are searchable.                         *)
LEMMA SplitLeftOK ==
    ASSUME NEW n \in Page, PageOK(n), Count(n) > 1,
           NEW s, s = FindSeparator(n), s.at >= 2,
           NEW l, l = SplitLeft(n, s)
    PROVE  /\ l \in Page /\ PageOK(l)
           /\ l.lower = n.lower /\ l.upper = s.sep
           /\ IsLeaf(l) <=> IsLeaf(n)
           /\ ~IsLeaf(n) => l.up = n.slot[s.at].val
           /\ Count(l) = IF IsLeaf(n) THEN s.at ELSE s.at - 1
           /\ \A j \in 1 .. Count(l) : l.slot[j] = n.slot[j]
<1> DEFINE c == IF IsLeaf(n) THEN s.at ELSE s.at - 1
           q == SubSeq(n.slot, 1, c)
<1>0. /\ Count(n) \in Nat /\ n.lower \in Bytes /\ n.upper \in Bytes
      /\ n.slot \in Seq(SlotType(n))
      /\ \A i \in 1 .. Count(n) : n.slot[i] \in SlotType(n) /\ n.slot[i].key \in Bytes
  BY PageFacts DEF SlotType
<1>1. /\ \A x, y \in 1 .. Count(n) : x < y => Less(n.slot[x].key, n.slot[y].key)
      /\ \A x \in 1 .. Count(n) : InFences(n.slot[x].key, n.lower, n.upper)
      /\ ~IsLeaf(n) => \A x \in 1 .. Count(n) : n.slot[x].key # << >>
  BY DEF PageOK
<1>2. /\ s.sep \in Bytes /\ s.at \in 1 .. Count(n)
      /\ \A j \in 1 .. s.at : Leq(n.slot[j].key, s.sep)
  BY SeparatorProperties
<1>3. s.at >= 2
  OBVIOUS
<1>4. c \in 1 .. Count(n) /\ c <= s.at
  BY <1>0, <1>2, <1>3
<1>5. q \in Seq(SlotType(n)) /\ Len(q) = c /\ \A j \in 1 .. c : q[j] = n.slot[j]
  <2> HIDE DEF c
  <2>1. 1 \in 1 .. Len(n.slot) + 1 /\ c \in 0 .. Len(n.slot) /\ c \in Nat
    BY <1>0, <1>4 DEF Count
  <2> QED BY <1>0, <2>1, SubSeqProperties
<1>6. /\ l.lower = n.lower /\ l.upper = s.sep /\ l.slot = q /\ l \in Page
      /\ IsLeaf(l) <=> IsLeaf(n)
      /\ ~IsLeaf(n) => l.up = n.slot[s.at].val
  <2>1. CASE IsLeaf(n)
    <3>1. l = Leaf(n.lower, s.sep, q)
      BY <2>1 DEF SplitLeft
    <3>2. q \in Seq(LeafSlot)
      BY <1>5, <2>1 DEF SlotType
    <3> HIDE DEF q
    <3> QED BY <1>0, <1>2, <2>1, <3>1, <3>2, LeafFields
  <2>2. CASE ~IsLeaf(n)
    <3>1. n.slot[s.at].val \in PageId
      BY <1>0, <1>2, <2>2 DEF SlotType, InnerSlot
    <3>2. l = Inner(n.lower, s.sep, q, n.slot[s.at].val)
      BY <2>2 DEF SplitLeft
    <3>3. q \in Seq(InnerSlot)
      BY <1>5, <2>2 DEF SlotType
    <3> HIDE DEF q
    <3> QED BY <1>0, <1>2, <2>2, <3>1, <3>2, <3>3, InnerFields
  <2> QED BY <2>1, <2>2
<1> HIDE DEF q, c
<1>7. \A j \in 1 .. c : /\ j \in 1 .. Count(n) /\ j \in 1 .. s.at
                        /\ q[j].key = n.slot[j].key
  BY <1>0, <1>2, <1>4, <1>5
<1>8. \A j \in 1 .. c : InFences(q[j].key, n.lower, s.sep)
  BY <1>1, <1>2, <1>7 DEF InFences, BelowFence
<1>9. PageOK(l)
  BY <1>1, <1>5, <1>6, <1>7, <1>8 DEF PageOK, Count
<1> QED BY <1>5, <1>6, <1>9 DEF Count, c

LEMMA SplitRightOK ==
    ASSUME NEW n \in Page, PageOK(n), Count(n) > 1,
           NEW s, s = FindSeparator(n), s.at >= 2,
           NEW r, r = SplitRight(n, s)
    PROVE  /\ r \in Page /\ PageOK(r)
           /\ r.lower = s.sep /\ r.upper = n.upper
           /\ IsLeaf(r) <=> IsLeaf(n)
           /\ ~IsLeaf(n) => r.up = n.up
           /\ Count(r) = Count(n) - s.at
           /\ \A j \in 1 .. Count(r) : r.slot[j] = n.slot[s.at + j]
<1> DEFINE c == Count(n) - s.at
           q == SubSeq(n.slot, s.at + 1, Count(n))
<1>0. /\ Count(n) \in Nat /\ n.lower \in Bytes /\ n.upper \in Bytes
      /\ n.slot \in Seq(SlotType(n))
      /\ ~IsLeaf(n) => n \in InnerPage
  BY PageFacts DEF SlotType
<1>1. /\ \A x, y \in 1 .. Count(n) : x < y => Less(n.slot[x].key, n.slot[y].key)
      /\ \A x \in 1 .. Count(n) : InFences(n.slot[x].key, n.lower, n.upper)
      /\ ~IsLeaf(n) => \A x \in 1 .. Count(n) : n.slot[x].key # << >>
  BY DEF PageOK
<1>2. /\ s.sep \in Bytes /\ s.at \in 1 .. Count(n)
      /\ \A j \in (s.at + 1) .. Count(n) : Less(s.sep, n.slot[j].key)
  BY SeparatorProperties
<1>3. c \in Nat
  BY <1>0, <1>2
<1>4. q \in Seq(SlotType(n)) /\ Len(q) = c /\ \A j \in 1 .. c : q[j] = n.slot[s.at + j]
  <2>1. s.at + 1 \in 1 .. Len(n.slot) + 1 /\ Count(n) \in s.at .. Len(n.slot)
        /\ Count(n) = Len(n.slot) /\ s.at \in Nat
    BY <1>0, <1>2 DEF Count
  <2> DEFINE t == n.slot
             X == SlotType(n)
             a == s.at
             b == Count(n)
  <2>2. t \in Seq(X) /\ a + 1 \in 1 .. Len(t) + 1 /\ b \in a .. Len(t) /\ b = Len(t) /\ a \in Nat
    BY <1>0, <2>1
  <2> HIDE DEF t, X, a, b
  <2>3. /\ SubSeq(t, a + 1, b) \in Seq(X)
        /\ Len(SubSeq(t, a + 1, b)) = b - a
        /\ \A j \in 1 .. (b - a) : SubSeq(t, a + 1, b)[j] = t[a + j]
    BY <2>2, SubSeqProperties
  <2> QED BY <2>3 DEF t, X, a, b
<1>5. /\ r.lower = s.sep /\ r.upper = n.upper /\ r.slot = q /\ r \in Page
      /\ IsLeaf(r) <=> IsLeaf(n)
      /\ ~IsLeaf(n) => r.up = n.up
  <2>1. CASE IsLeaf(n)
    <3>1. r = Leaf(s.sep, n.upper, q)
      BY <2>1 DEF SplitRight
    <3>2. q \in Seq(LeafSlot)
      BY <1>4, <2>1 DEF SlotType
    <3> HIDE DEF q
    <3> QED BY <1>0, <1>2, <2>1, <3>1, <3>2, LeafFields
  <2>2. CASE ~IsLeaf(n)
    <3>1. n.up \in PageId
      BY <1>0, <2>2 DEF InnerPage
    <3>2. r = Inner(s.sep, n.upper, q, n.up)
      BY <2>2 DEF SplitRight
    <3>3. q \in Seq(InnerSlot)
      BY <1>4, <2>2 DEF SlotType
    <3> HIDE DEF q
    <3> QED BY <1>0, <1>2, <2>2, <3>1, <3>2, <3>3, InnerFields
  <2> QED BY <2>1, <2>2
<1> HIDE DEF q
<1>6. \A j \in 1 .. c : /\ s.at + j \in 1 .. Count(n) /\ s.at + j \in (s.at + 1) .. Count(n)
                        /\ q[j].key = n.slot[s.at + j].key
  BY <1>0, <1>2, <1>4, SMTT(30)
<1>7. \A x, y \in 1 .. c : x < y => s.at + x < s.at + y
  BY <1>2, <1>3
<1>8. \A j \in 1 .. c : InFences(q[j].key, s.sep, n.upper)
  BY <1>1, <1>2, <1>6 DEF InFences, AboveFence
<1> HIDE DEF c
<1>9. PageOK(r)
  <2>1. \A x, y \in 1 .. c : x < y => Less(q[x].key, q[y].key)
    BY <1>1, <1>6, <1>7
  <2> QED BY <1>1, <1>4, <1>5, <1>6, <1>8, <2>1, SMTT(30) DEF PageOK, Count
<1> QED BY <1>4, <1>5, <1>9 DEF Count, c

(* mergeNodes makes a searchable leaf of two neighbours.                   *)
LEMMA MergedOK ==
    ASSUME NEW l \in Page, NEW r \in Page, PageOK(l), PageOK(r), IsLeaf(l), IsLeaf(r),
           l.upper = r.lower, l.upper # << >>,
           l.lower = << >> \/ Less(l.lower, l.upper),
           r.upper = << >> \/ Less(r.lower, r.upper)
    PROVE  /\ Merged(l, r) \in Page /\ PageOK(Merged(l, r))
           /\ Merged(l, r).lower = l.lower /\ Merged(l, r).upper = r.upper
           /\ IsLeaf(Merged(l, r))
<1> DEFINE q == l.slot \o r.slot
           a == Count(l)
           b == Count(r)
           m == Merged(l, r)
<1>0. /\ a \in Nat /\ l.lower \in Bytes /\ l.upper \in Bytes /\ l.slot \in Seq(LeafSlot)
      /\ b \in Nat /\ r.lower \in Bytes /\ r.upper \in Bytes /\ r.slot \in Seq(LeafSlot)
      /\ \A j \in 1 .. a : l.slot[j].key \in Bytes
      /\ \A j \in 1 .. b : r.slot[j].key \in Bytes
  BY PageFacts
<1>1. /\ \A x, y \in 1 .. a : x < y => Less(l.slot[x].key, l.slot[y].key)
      /\ \A x \in 1 .. a : InFences(l.slot[x].key, l.lower, l.upper)
      /\ \A x, y \in 1 .. b : x < y => Less(r.slot[x].key, r.slot[y].key)
      /\ \A x \in 1 .. b : InFences(r.slot[x].key, r.lower, r.upper)
  BY DEF PageOK
<1>2. /\ q \in Seq(LeafSlot) /\ Len(q) = a + b
      /\ \A j \in 1 .. a : q[j] = l.slot[j]
      /\ \A j \in (a + 1) .. (a + b) : j - a \in 1 .. b /\ q[j] = r.slot[j - a]
  <2>1. a = Len(l.slot) /\ b = Len(r.slot)
    BY DEF Count
  <2>2. /\ q \in Seq(LeafSlot) /\ Len(q) = a + b
        /\ \A j \in 1 .. a + b : q[j] = IF j <= a THEN l.slot[j] ELSE r.slot[j - a]
    <3> HIDE DEF a, b
    <3> QED BY <1>0, <2>1, ConcatProperties
  <2> HIDE DEF q, a, b
  <2> QED BY <1>0, <2>2
<1>3. /\ m \in Page /\ m.lower = l.lower /\ m.upper = r.upper /\ m.slot = q /\ IsLeaf(m)
  <2>1. m = Leaf(l.lower, r.upper, q)
    BY DEF Merged
  <2> HIDE DEF q, m
  <2> QED BY <1>0, <1>2, <2>1, LeafFields
<1> HIDE DEF q, a, b, m
<1>4. \A x \in 1 .. a : Leq(l.slot[x].key, l.upper)
  BY <1>1 DEF InFences, BelowFence
<1>5. \A x \in 1 .. b : Less(l.upper, r.slot[x].key)
  BY <1>1 DEF InFences, AboveFence
<1>6. \A x, y \in 1 .. a + b : x < y => Less(q[x].key, q[y].key)
  <2> SUFFICES ASSUME NEW x \in 1 .. a + b, NEW y \in 1 .. a + b, x < y
               PROVE  Less(q[x].key, q[y].key)
    OBVIOUS
  <2>1. CASE y <= a
    <3>1. x \in 1 .. a /\ y \in 1 .. a
      BY <1>0, <2>1
    <3> QED BY <1>1, <1>2, <3>1
  <2>2. CASE y > a /\ x <= a
    <3>1. x \in 1 .. a /\ y \in (a + 1) .. (a + b)
      BY <1>0, <2>2
    <3>2. /\ q[x] = l.slot[x] /\ q[y] = r.slot[y - a] /\ y - a \in 1 .. b
      BY <1>2, <3>1
    <3> QED BY <1>0, <1>4, <1>5, <3>1, <3>2, LeqLess
  <2>3. CASE x > a
    <3>1. x \in (a + 1) .. (a + b) /\ y \in (a + 1) .. (a + b) /\ x - a < y - a
      BY <1>0, <2>3
    <3> QED BY <1>1, <1>2, <3>1
  <2> QED BY <1>0, <2>1, <2>2, <2>3
<1>7. \A x \in 1 .. a + b : InFences(q[x].key, l.lower, r.upper)
  <2> TAKE x \in 1 .. a + b
  <2>1. CASE x <= a
    <3>1. x \in 1 .. a /\ q[x] = l.slot[x] /\ l.slot[x].key \in Bytes
      BY <1>0, <1>2, <2>1
    <3>2. AboveFence(q[x].key, l.lower)
      BY <1>1, <3>1 DEF InFences
    <3>3. BelowFence(q[x].key, r.upper)
      BY <1>0, <1>4, <3>1, LeqLess DEF BelowFence, Leq
    <3> QED BY <3>2, <3>3 DEF InFences
  <2>2. CASE x > a
    <3>1. x - a \in 1 .. b /\ q[x] = r.slot[x - a] /\ r.slot[x - a].key \in Bytes
      BY <1>0, <1>2, <2>2
    <3>2. BelowFence(q[x].key, r.upper)
      BY <1>1, <3>1 DEF InFences
    <3>3. Less(r.lower, q[x].key)
      BY <1>1, <3>1 DEF InFences, AboveFence
    <3> QED BY <1>0, <3>1, <3>2, <3>3, LessTransitive DEF InFences, AboveFence
  <2> QED BY <1>0, <2>1, <2>2
<1>8. PageOK(m)
  BY <1>2, <1>3, <1>6, <1>7 DEF PageOK, Count
<1> QED BY <1>3, <1>8 DEF m

(***************************************************************************)
(* The pointers of an inner page.                                          *)
(***************************************************************************)
LEMMA InsertChild ==
    ASSUME NEW p \in Page, ~IsLeaf(p), NEW i \in 1 .. Count(p) + 1,
           NEW k \in Bytes, NEW c \in PageId, NEW m, m = InsertSlot(p, i, k, c)
    PROVE  /\ Count(m) = Count(p) + 1
           /\ m.lower = p.lower /\ m.upper = p.upper /\ ~IsLeaf(m)
           /\ ChildAt(m, i) = c /\ SepAt(m, i) = k
           /\ \A j \in 1 .. (i - 1) : ChildAt(m, j) = ChildAt(p, j)
           /\ \A j \in 0 .. (i - 1) : SepAt(m, j) = SepAt(p, j)
           /\ \A j \in (i + 1) .. (Count(p) + 2) :
                 ChildAt(m, j) = ChildAt(p, j - 1) /\ SepAt(m, j) = SepAt(p, j - 1)
<1> DEFINE e == [key |-> k, val |-> c]
           q == p.slot
           s == InsertAt(q, i, e)
<1>0. p.slot \in Seq(InnerSlot) /\ Count(p) \in Nat /\ Count(p) = Len(q)
  BY PageFacts DEF Count
<1>1. e \in InnerSlot /\ e.key = k /\ e.val = c
  BY DEF InnerSlot
<1>2. /\ s \in Seq(InnerSlot) /\ Len(s) = Count(p) + 1
      /\ \A j \in 1 .. (i - 1) : s[j] = q[j]
      /\ s[i] = e
      /\ \A j \in (i + 1) .. (Count(p) + 1) : s[j] = q[j - 1]
  <2> DEFINE X == InnerSlot
  <2>1. e \in X /\ q \in Seq(X) /\ i \in 1 .. Len(q) + 1
    BY <1>0, <1>1
  <2> HIDE DEF e, q, X
  <2>2. /\ InsertAt(q, i, e) \in Seq(X)
        /\ Len(InsertAt(q, i, e)) = Len(q) + 1
        /\ \A j \in 1 .. (i - 1) : InsertAt(q, i, e)[j] = q[j]
        /\ InsertAt(q, i, e)[i] = e
        /\ \A j \in (i + 1) .. (Len(q) + 1) : InsertAt(q, i, e)[j] = q[j - 1]
    BY <2>1, InsertAtProperties
  <2> QED BY <1>0, <2>2 DEF X
<1>3. /\ m.slot = s /\ m.lower = p.lower /\ m.upper = p.upper /\ m.up = p.up
      /\ IsLeaf(m) <=> IsLeaf(p)
  <2>1. m = [p EXCEPT !.slot = s]
    BY DEF InsertSlot
  <2>2. s \in Seq(SlotType(p))
    BY <1>2 DEF SlotType
  <2> HIDE DEF s
  <2> QED BY <2>1, <2>2, WithSlots
<1> HIDE DEF e, q, s
<1>4. Count(m) = Count(p) + 1
  BY <1>2, <1>3 DEF Count
<1>5. ChildAt(m, i) = c /\ SepAt(m, i) = k
  BY <1>0, <1>1, <1>2, <1>3, <1>4 DEF ChildAt, SepAt
<1>6. /\ \A j \in 1 .. (i - 1) : ChildAt(m, j) = ChildAt(p, j)
      /\ \A j \in 0 .. (i - 1) : SepAt(m, j) = SepAt(p, j)
  BY <1>0, <1>2, <1>3, <1>4 DEF ChildAt, SepAt, q
<1>7. \A j \in (i + 1) .. (Count(p) + 2) :
         ChildAt(m, j) = ChildAt(p, j - 1) /\ SepAt(m, j) = SepAt(p, j - 1)
  <2> TAKE j \in (i + 1) .. (Count(p) + 2)
  <2>1. CASE j = Count(p) + 2
    BY <1>0, <1>3, <1>4, <2>1 DEF ChildAt, SepAt
  <2>2. CASE j # Count(p) + 2
    <3>1. j \in (i + 1) .. (Count(p) + 1) /\ j - 1 \in 1 .. Count(p) /\ j \in 1 .. Count(m)
      BY <1>0, <1>4, <2>2
    <3>2. s[j] = q[j - 1]
      BY <1>2, <3>1
    <3> QED BY <1>0, <1>3, <1>4, <3>1, <3>2 DEF ChildAt, SepAt, q
  <2> QED BY <2>1, <2>2
<1> QED BY <1>3, <1>4, <1>5, <1>6, <1>7

LEMMA RemoveChild ==
    ASSUME NEW p \in Page, ~IsLeaf(p), NEW i \in 1 .. Count(p), NEW m, m = RemoveSlot(p, i)
    PROVE  /\ Count(m) = Count(p) - 1
           /\ m.lower = p.lower /\ m.upper = p.upper /\ ~IsLeaf(m)
           /\ \A j \in 1 .. (i - 1) : ChildAt(m, j) = ChildAt(p, j)
           /\ \A j \in 0 .. (i - 1) : SepAt(m, j) = SepAt(p, j)
           /\ \A j \in i .. Count(p) :
                 ChildAt(m, j) = ChildAt(p, j + 1) /\ SepAt(m, j) = SepAt(p, j + 1)
<1> DEFINE q == p.slot
           s == RemoveAt(q, i)
<1>0. q \in Seq(InnerSlot) /\ Count(p) \in Nat /\ Count(p) = Len(q)
  BY PageFacts DEF Count
<1>1. /\ s \in Seq(InnerSlot) /\ Len(s) = Count(p) - 1
      /\ \A j \in 1 .. (i - 1) : s[j] = q[j]
      /\ \A j \in i .. (Count(p) - 1) : s[j] = q[j + 1]
  <2> HIDE DEF q
  <2> QED BY <1>0, RemoveAtProperties
<1>2. /\ m.slot = s /\ m.lower = p.lower /\ m.upper = p.upper /\ m.up = p.up
      /\ IsLeaf(m) <=> IsLeaf(p)
  <2>1. m = [p EXCEPT !.slot = s]
    BY DEF RemoveSlot
  <2>2. s \in Seq(SlotType(p))
    BY <1>1 DEF SlotType
  <2> HIDE DEF s
  <2> QED BY <2>1, <2>2, WithSlots
<1> HIDE DEF q, s
<1>3. Count(m) = Count(p) - 1
  BY <1>1, <1>2 DEF Count
<1>4. /\ \A j \in 1 .. (i - 1) : ChildAt(m, j) = ChildAt(p, j)
      /\ \A j \in 0 .. (i - 1) : SepAt(m, j) = SepAt(p, j)
  BY <1>0, <1>1, <1>2, <1>3, SMTT(30) DEF ChildAt, SepAt, q
<1>5. \A j \in i .. Count(p) :
         ChildAt(m, j) = ChildAt(p, j + 1) /\ SepAt(m, j) = SepAt(p, j + 1)
  <2> TAKE j \in i .. Count(p)
  <2>1. CASE j = Count(p)
    BY <1>0, <1>2, <1>3, <2>1 DEF ChildAt, SepAt
  <2>2. CASE j # Count(p)
    <3>1. j \in i .. (Count(p) - 1) /\ j + 1 \in 1 .. Count(p) /\ j \in 1 .. Count(m)
      BY <1>0, <1>3, <2>2
    <3>2. s[j] = q[j + 1]
      BY <1>1, <3>1
    <3> QED BY <1>0, <1>2, <1>3, <3>1, <3>2 DEF ChildAt, SepAt, q
  <2> QED BY <2>1, <2>2
<1> QED BY <1>2, <1>3, <1>4, <1>5

LEMMA SplitChildren ==
    ASSUME NEW n \in Page, PageOK(n), Count(n) > 1, ~IsLeaf(n),
           NEW s, s = FindSeparator(n), s.at >= 2,
           NEW l, l = SplitLeft(n, s), NEW r, r = SplitRight(n, s)
    PROVE  /\ Count(l) + 1 = s.at
           /\ \A i \in 1 .. s.at : ChildAt(l, i) = ChildAt(n, i)
           /\ \A i \in 0 .. s.at : SepAt(l, i) = SepAt(n, i)
           /\ Count(r) + 1 = Count(n) + 1 - s.at
           /\ \A i \in 1 .. Count(r) + 1 : ChildAt(r, i) = ChildAt(n, s.at + i)
           /\ \A i \in 0 .. Count(r) + 1 : SepAt(r, i) = SepAt(n, s.at + i)
<1>0. Count(n) \in Nat
  BY PageFacts
<1>1. /\ s.sep \in Bytes /\ s.at \in 1 .. Count(n) /\ s.sep = n.slot[s.at].key
  BY SeparatorProperties
<1>2. /\ l.lower = n.lower /\ l.upper = s.sep
      /\ l.up = n.slot[s.at].val
      /\ Count(l) = s.at - 1
      /\ \A j \in 1 .. Count(l) : l.slot[j] = n.slot[j]
  BY SplitLeftOK
<1>3. /\ r.lower = s.sep /\ r.upper = n.upper
      /\ r.up = n.up
      /\ Count(r) = Count(n) - s.at
      /\ \A j \in 1 .. Count(r) : r.slot[j] = n.slot[s.at + j]
  BY SplitRightOK
<1>4. \A i \in 1 .. s.at : ChildAt(l, i) = ChildAt(n, i)
  BY <1>0, <1>1, <1>2 DEF ChildAt
<1>5. \A i \in 0 .. s.at : SepAt(l, i) = SepAt(n, i)
  BY <1>0, <1>1, <1>2 DEF SepAt
<1>6. \A i \in 1 .. Count(r) + 1 : ChildAt(r, i) = ChildAt(n, s.at + i)
  BY <1>0, <1>1, <1>3 DEF ChildAt
<1>7. \A i \in 0 .. Count(r) + 1 : SepAt(r, i) = SepAt(n, s.at + i)
  BY <1>0, <1>1, <1>3 DEF SepAt
<1> QED BY <1>0, <1>1, <1>2, <1>3, <1>4, <1>5, <1>6, <1>7

(* What a split may put in the place of page n: two pages that meet at the *)
(* separator and, of an inner page, share its pointers.                    *)
Halves(n, s, l, r) ==
    /\ s.sep \in Bytes /\ s.sep # << >> /\ s.at \in Nat
    /\ InFences(s.sep, n.lower, n.upper)
    /\ l \in Page /\ PageOK(l) /\ l.lower = n.lower /\ l.upper = s.sep
    /\ r \in Page /\ PageOK(r) /\ r.lower = s.sep /\ r.upper = n.upper
    /\ (IsLeaf(l) <=> IsLeaf(n)) /\ (IsLeaf(r) <=> IsLeaf(n))
    /\ ~IsLeaf(n) =>
          /\ s.at \in 1 .. Count(n)
          /\ Count(l) + 1 = s.at
          /\ \A j \in 1 .. s.at : ChildAt(l, j) = ChildAt(n, j)
          /\ \A j \in 0 .. s.at : SepAt(l, j) = SepAt(n, j)
          /\ Count(r) + 1 = Count(n) + 1 - s.at
          /\ \A j \in 1 .. Count(r) + 1 : ChildAt(r, j) = ChildAt(n, s.at + j)
          /\ \A j \in 0 .. Count(r) + 1 : SepAt(r, j) = SepAt(n, s.at + j)

LEMMA SplitMakesHalves ==
    ASSUME NEW n \in Page, PageOK(n), Count(n) > 1,
           NEW s, s = FindSeparator(n), s.at >= 2
    PROVE  Halves(n, s, SplitLeft(n, s), SplitRight(n, s))
<1> DEFINE l == SplitLeft(n, s)
           r == SplitRight(n, s)
<1>1. /\ s.sep \in Bytes /\ s.sep # << >> /\ s.at \in 1 .. Count(n) /\ s.at \in Nat
      /\ InFences(s.sep, n.lower, n.upper)
  BY SeparatorProperties, PageFacts
<1>2. /\ l \in Page /\ PageOK(l) /\ l.lower = n.lower /\ l.upper = s.sep
      /\ IsLeaf(l) <=> IsLeaf(n)
  BY SplitLeftOK
<1>3. /\ r \in Page /\ PageOK(r) /\ r.lower = s.sep /\ r.upper = n.upper
      /\ IsLeaf(r) <=> IsLeaf(n)
  BY SplitRightOK
<1>4. ~IsLeaf(n) =>
          /\ Count(l) + 1 = s.at
          /\ \A j \in 1 .. s.at : ChildAt(l, j) = ChildAt(n, j)
          /\ \A j \in 0 .. s.at : SepAt(l, j) = SepAt(n, j)
          /\ Count(r) + 1 = Count(n) + 1 - s.at
          /\ \A j \in 1 .. Count(r) + 1 : ChildAt(r, j) = ChildAt(n, s.at + j)
          /\ \A j \in 0 .. Count(r) + 1 : SepAt(r, j) = SepAt(n, s.at + j)
  BY SplitChildren
<1> HIDE DEF l, r
<1>5. Halves(n, s, l, r)
  BY <1>1, <1>2, <1>3, <1>4 DEF Halves
<1> QED BY <1>5 DEF l, r

(* A separator divides what a page is responsible for.                     *)
LEMMA FenceSplit ==
    ASSUME NEW a \in Bytes, NEW b \in Bytes, NEW s \in Bytes, NEW k \in Bytes,
           s # << >>, InFences(s, a, b)
    PROVE  /\ InFences(k, a, s) => InFences(k, a, b)
           /\ InFences(k, s, b) => InFences(k, a, b)
           /\ InFences(k, a, b) => InFences(k, a, s) \/ InFences(k, s, b)
           /\ ~ (InFences(k, a, s) /\ InFences(k, s, b))
<1>1. InFences(k, a, s) => InFences(k, a, b)
  BY LeqLeq DEF InFences, AboveFence, BelowFence
<1>2. InFences(k, s, b) => InFences(k, a, b)
  BY LessTransitive DEF InFences, AboveFence, BelowFence
<1>3. InFences(k, a, b) => InFences(k, a, s) \/ InFences(k, s, b)
  BY LessTotal DEF InFences, AboveFence, BelowFence, Leq
<1>4. ~ (InFences(k, a, s) /\ InFences(k, s, b))
  BY NotBoth DEF InFences, AboveFence, BelowFence
<1> QED BY <1>1, <1>2, <1>3, <1>4

(***************************************************************************)
(* The tree.  TreeOK speaks of root and page only; the lemmas below show   *)
(* that each way the code changes the tree keeps it.                       *)
(***************************************************************************)
(* LeavesDisjoint for every byte string, fences included: a scan goes on   *)
(* from a fence, which need not be a key that callers use.                 *)
LeavesApart ==
    \A p, q \in Leaves : p # q =>
        \A k \in Bytes : ~ (/\ InFences(k, page[p].lower, page[p].upper)
                           /\ InFences(k, page[q].lower, page[q].upper))

TreeOK ==
    /\ KeysInFences
    /\ ChildFences
    /\ OneParent
    /\ LeavesApart

PageType == Pages \subseteq PageId /\ page \in [Pages -> Page]

LEMMA InitialTree ==
    ASSUME root \in PageId, page = [p \in {root} |-> EmptyLeaf]
    PROVE  PageType /\ TreeOK
<1>1. EmptyLeaf \in Page /\ IsLeaf(EmptyLeaf) /\ EmptyLeaf.slot = << >>
      /\ EmptyLeaf.lower = << >> /\ EmptyLeaf.upper = << >>
  <2>1. << >> \in Bytes /\ << >> \in Seq(LeafSlot)
    BY DEF Bytes
  <2> QED BY <2>1 DEF EmptyLeaf, Leaf, IsLeaf, Page, LeafPage
<1>2. Pages = {root} /\ page[root] = EmptyLeaf
  BY DEF Pages
<1> HIDE DEF EmptyLeaf
<1>3. PageType
  BY <1>1, <1>2 DEF PageType
<1>4. Leaves = {root} /\ Inners = {}
  BY <1>1, <1>2 DEF Leaves, Inners
<1>5. KeysInFences
  BY <1>1, <1>2 DEF KeysInFences, PageOK, Count
<1>6. ChildFences /\ OneParent /\ LeavesApart
  BY <1>1, <1>2, <1>4 DEF ChildFences, OneParent, LeavesApart
<1> QED BY <1>3, <1>5, <1>6 DEF TreeOK

(* insert and remove change the slots of one leaf.                         *)
LEMMA LeafReplaced ==
    ASSUME PageType, TreeOK, NEW x \in Leaves, NEW n \in Page, PageOK(n), IsLeaf(n),
           n.lower = page[x].lower, n.upper = page[x].upper,
           page' = [page EXCEPT ![x] = n], root' = root
    PROVE  PageType' /\ TreeOK'
<1>1. x \in Pages /\ IsLeaf(page[x])
  BY DEF Leaves
<1>2. /\ Pages' = Pages
      /\ page'[x] = n
      /\ \A q \in Pages \ {x} : page'[q] = page[q]
  BY <1>1 DEF PageType, Pages
<1>3. PageType'
  BY <1>1, <1>2 DEF PageType, Pages
<1>4. \A q \in Pages : /\ page'[q].lower = page[q].lower
                       /\ page'[q].upper = page[q].upper
                       /\ IsLeaf(page'[q]) <=> IsLeaf(page[q])
                       /\ ~IsLeaf(page[q]) => page'[q] = page[q]
  BY <1>1, <1>2
<1>5. Leaves' = Leaves /\ Inners' = Inners /\ \A q \in Inners : page'[q] = page[q]
  BY <1>2, <1>4 DEF Leaves, Inners
<1>6. KeysInFences'
  BY <1>1, <1>2 DEF TreeOK, KeysInFences
<1>7. ChildFences'
  BY <1>2, <1>4, <1>5 DEF TreeOK, ChildFences
<1>8. OneParent'
  BY <1>5 DEF TreeOK, OneParent
<1>9. LeavesApart'
  <2>1. \A q \in Leaves : q \in Pages
    BY DEF Leaves
  <2> QED BY <1>4, <1>5, <2>1 DEF TreeOK, LeavesApart
<1> QED BY <1>3, <1>6, <1>7, <1>8, <1>9 DEF TreeOK

(* splitNode on the root puts an inner page without separators above it.   *)
LEMMA RootAbove ==
    ASSUME PageType, TreeOK, NEW p \in PageId, p \notin Pages,
           page' = [q \in DOMAIN page \cup {p} |->
                       IF q = p THEN Inner(<< >>, << >>, << >>, root) ELSE page[q]],
           root' = p
    PROVE  PageType' /\ TreeOK'
<1> DEFINE n == Inner(<< >>, << >>, << >>, root)
<1>0. root \in Pages /\ root \in PageId /\ page[root].lower = << >> /\ page[root].upper = << >>
  BY DEF TreeOK, ChildFences, PageType
<1>1. /\ n \in Page /\ ~IsLeaf(n) /\ n.lower = << >> /\ n.upper = << >>
      /\ n.slot = << >> /\ n.up = root
  <2>1. << >> \in Bytes /\ << >> \in Seq(InnerSlot)
    BY DEF Bytes
  <2> QED BY <1>0, <2>1 DEF Inner, IsLeaf, Page, InnerPage
<1> HIDE DEF n
<1>2. Count(n) = 0 /\ ChildAt(n, 1) = root /\ SepAt(n, 0) = << >> /\ SepAt(n, 1) = << >>
  BY <1>1 DEF Count, ChildAt, SepAt
<1>3. /\ Pages' = Pages \cup {p}
      /\ page'[p] = n
      /\ \A q \in Pages : page'[q] = page[q]
  BY DEF Pages, n
<1>4. PageType'
  <2>1. \A q \in Pages' : page'[q] \in Page
    BY <1>1, <1>3 DEF PageType
  <2>2. page' \in [Pages' -> Page]
    BY <2>1 DEF Pages
  <2> QED BY <1>3, <2>2 DEF PageType
<1>5. Leaves' = Leaves /\ Inners' = Inners \cup {p} /\ Leaves \subseteq Pages /\ Inners \subseteq Pages
  BY <1>1, <1>3 DEF Leaves, Inners
<1>6. KeysInFences'
  <2>1. PageOK(n)
    BY <1>2 DEF PageOK
  <2> QED BY <1>3, <2>1 DEF TreeOK, KeysInFences
<1>7. ChildFences'
  <2>1. ASSUME NEW q \in Inners', NEW i \in 1 .. Count(page'[q]) + 1
        PROVE  /\ ChildAt(page'[q], i) \in Pages'
               /\ page'[ChildAt(page'[q], i)].lower = SepAt(page'[q], i - 1)
               /\ page'[ChildAt(page'[q], i)].upper = SepAt(page'[q], i)
    <3>1. CASE q = p
      <4>1. i = 1 /\ i - 1 = 0 /\ page'[q] = n
        BY <1>2, <1>3, <3>1
      <4>2. page'[root] = page[root] /\ root \in Pages'
        BY <1>0, <1>3
      <4> QED BY <1>0, <1>2, <4>1, <4>2
    <3>2. CASE q # p
      <4>1. q \in Inners /\ page'[q] = page[q]
        BY <1>3, <1>5, <3>2
      <4>2. /\ ChildAt(page[q], i) \in Pages
            /\ page[ChildAt(page[q], i)].lower = SepAt(page[q], i - 1)
            /\ page[ChildAt(page[q], i)].upper = SepAt(page[q], i)
        BY <4>1 DEF TreeOK, ChildFences
      <4> DEFINE c == ChildAt(page[q], i)
      <4>3. c \in Pages' /\ page'[c] = page[c] /\ c = ChildAt(page'[q], i)
        BY <1>3, <4>1, <4>2
      <4> QED BY <4>1, <4>2, <4>3
    <3> QED BY <3>1, <3>2
  <2>2. root' \in Pages' /\ page'[root'].lower = << >> /\ page'[root'].upper = << >>
    BY <1>1, <1>3
  <2> QED BY <2>1, <2>2 DEF ChildFences
<1>8. OneParent'
  <2>0. \A q \in Inners : \A i \in 1 .. Count(page[q]) + 1 :
           ChildAt(page[q], i) \in Pages /\ ChildAt(page[q], i) \notin {root, q}
    BY DEF TreeOK, ChildFences, OneParent
  <2>1. ASSUME NEW x \in Inners', NEW y \in Inners',
               NEW i \in 1 .. Count(page'[x]) + 1, NEW j \in 1 .. Count(page'[y]) + 1
        PROVE  /\ ChildAt(page'[x], i) \notin {root', x}
               /\ ChildAt(page'[x], i) = ChildAt(page'[y], j) => x = y /\ i = j
    <3>1. CASE x = p /\ y = p
      BY <1>0, <1>2, <1>3, <3>1
    <3>2. CASE x = p /\ y # p
      <4>1. i = 1 /\ ChildAt(page'[x], i) = root
        BY <1>2, <1>3, <3>2
      <4>2. y \in Inners /\ page'[y] = page[y]
        BY <1>3, <1>5, <3>2
      <4>3. ChildAt(page'[y], j) # root
        BY <2>0, <4>2
      <4> QED BY <1>0, <3>2, <4>1, <4>3
    <3>3. CASE x # p /\ y = p
      <4>1. j = 1 /\ ChildAt(page'[y], j) = root
        BY <1>2, <1>3, <3>3
      <4>2. x \in Inners /\ page'[x] = page[x]
        BY <1>3, <1>5, <3>3
      <4>3. ChildAt(page'[x], i) \notin {root, x} /\ ChildAt(page'[x], i) \in Pages
        BY <2>0, <4>2
      <4> QED BY <4>1, <4>3
    <3>4. CASE x # p /\ y # p
      <4>1. x \in Inners /\ y \in Inners /\ page'[x] = page[x] /\ page'[y] = page[y]
        BY <1>3, <1>5, <3>4
      <4> QED BY <2>0, <4>1 DEF TreeOK, OneParent
    <3> QED BY <3>1, <3>2, <3>3, <3>4
  <2> QED BY <2>1 DEF OneParent
<1>9. LeavesApart'
  BY <1>3, <1>5, ZenonT(60) DEF TreeOK, LeavesApart
<1> QED BY <1>4, <1>6, <1>7, <1>8, <1>9 DEF TreeOK

(* A child is responsible for no key its parent is not responsible for.    *)
LEMMA ChildWithin ==
    ASSUME NEW n \in Page, PageOK(n), ~IsLeaf(n), NEW k \in Bytes,
           NEW i \in 1 .. Count(n) + 1,
           InFences(k, SepAt(n, i - 1), SepAt(n, i))
    PROVE  InFences(k, n.lower, n.upper)
<1>0. /\ Count(n) \in Nat /\ n.lower \in Bytes /\ n.upper \in Bytes
      /\ \A j \in 1 .. Count(n) : n.slot[j].key \in Bytes
  BY PageFacts
<1>1. \A j \in 1 .. Count(n) : InFences(n.slot[j].key, n.lower, n.upper) /\ n.slot[j].key # << >>
  BY DEF PageOK
<1>2. AboveFence(k, n.lower)
  <2>1. CASE i = 1
    BY <2>1 DEF InFences, SepAt
  <2>2. CASE i # 1
    <3>1. i - 1 \in 1 .. Count(n) /\ SepAt(n, i - 1) = n.slot[i - 1].key
      BY <1>0, <2>2 DEF SepAt
    <3>2. Less(n.slot[i - 1].key, k)
      BY <1>1, <3>1 DEF InFences, AboveFence
    <3> QED BY <1>0, <1>1, <3>1, <3>2, LessTransitive DEF InFences, AboveFence
  <2> QED BY <2>1, <2>2
<1>3. BelowFence(k, n.upper)
  <2>1. CASE i = Count(n) + 1
    BY <1>0, <2>1 DEF InFences, SepAt
  <2>2. CASE i # Count(n) + 1
    <3>1. i \in 1 .. Count(n) /\ SepAt(n, i) = n.slot[i].key
      BY <1>0, <2>2 DEF SepAt
    <3>2. Leq(k, n.slot[i].key)
      BY <1>1, <3>1 DEF InFences, BelowFence
    <3> QED BY <1>0, <1>1, <3>1, <3>2, LeqLeq DEF InFences, BelowFence
  <2> QED BY <2>1, <2>2
<1> QED BY <1>2, <1>3 DEF InFences

(* splitNodeWithParent: page x becomes two and its parent p gets one more  *)
(* separator.  The new separator lands next to the pointer that was        *)
(* followed, because x is responsible for it.                              *)
LEMMA SplitTree ==
    ASSUME PageType, TreeOK,
           NEW x \in Pages, NEW p \in Inners, NEW i \in 1 .. Count(page[p]) + 1,
           x = ChildAt(page[p], i),
           NEW left \in PageId, left \notin Pages,
           NEW s, NEW l, NEW r, Halves(page[x], s, l, r),
           ~FoundAt(page[p], s.sep, LowerBound(page[p], s.sep)),
           page' = [q \in DOMAIN page \cup {left} |->
                       CASE q = left -> l
                         [] q = x    -> r
                         [] q = p    -> InsertSlot(page[p], LowerBound(page[p], s.sep), s.sep, left)
                         [] OTHER    -> page[q]],
           root' = root
    PROVE  PageType' /\ TreeOK'
<1> DEFINE n == page[x]
           m == page[p]
           w == InsertSlot(m, i, s.sep, left)
(* What is known of the old tree.                                          *)
<1>1. /\ p \in Pages /\ ~IsLeaf(m) /\ n \in Page /\ m \in Page /\ PageOK(n) /\ PageOK(m)
      /\ Inners \subseteq Pages /\ Leaves \subseteq Pages
      /\ \A q \in Pages : page[q] \in Page /\ page[q].lower \in Bytes /\ page[q].upper \in Bytes
  <2>1. p \in Pages /\ ~IsLeaf(m) /\ Inners \subseteq Pages /\ Leaves \subseteq Pages
    BY DEF Inners, Leaves
  <2>2. \A q \in Pages : page[q] \in Page
    BY DEF PageType
  <2>3. PageOK(n) /\ PageOK(m)
    BY <2>1 DEF TreeOK, KeysInFences
  <2> QED BY <2>1, <2>2, <2>3, PageFacts
<1>2. /\ \A q \in Inners : \A j \in 1 .. Count(page[q]) + 1 :
            /\ ChildAt(page[q], j) \in Pages
            /\ page[ChildAt(page[q], j)].lower = SepAt(page[q], j - 1)
            /\ page[ChildAt(page[q], j)].upper = SepAt(page[q], j)
      /\ root \in Pages /\ page[root].lower = << >> /\ page[root].upper = << >>
  BY DEF TreeOK, ChildFences
<1>3. \A q, y \in Inners : \A j \in 1 .. Count(page[q]) + 1, k \in 1 .. Count(page[y]) + 1 :
         /\ ChildAt(page[q], j) \notin {root, q}
         /\ ChildAt(page[q], j) = ChildAt(page[y], k) => q = y /\ j = k
  BY DEF TreeOK, OneParent
<1>4. x # p /\ x # left /\ p # left /\ root # left /\ x # root
  BY <1>1, <1>2, <1>3
<1>5. n.lower = SepAt(m, i - 1) /\ n.upper = SepAt(m, i) /\ Count(m) \in Nat /\ Count(n) \in Nat
  BY <1>1, <1>2, PageFacts
(* What is known of the new pages.                                         *)
<1>6. /\ s.sep \in Bytes /\ s.sep # << >> /\ s.at \in Nat
      /\ ~IsLeaf(n) => s.at \in 1 .. Count(n)
      /\ InFences(s.sep, n.lower, n.upper)
  BY DEF Halves
<1>7. LowerBound(m, s.sep) = i
  BY <1>1, <1>5, <1>6, KeyOfChild
<1>8. /\ l \in Page /\ PageOK(l) /\ l.lower = n.lower /\ l.upper = s.sep
      /\ IsLeaf(l) <=> IsLeaf(n)
  BY DEF Halves
<1>9. /\ r \in Page /\ PageOK(r) /\ r.lower = s.sep /\ r.upper = n.upper
      /\ IsLeaf(r) <=> IsLeaf(n)
  BY DEF Halves
<1>10. w \in Page /\ PageOK(w)
  <2>1. [key |-> s.sep, val |-> left] \in SlotType(m)
    BY <1>1, <1>6 DEF SlotType, InnerSlot
  <2>2. InFences(s.sep, m.lower, m.upper)
    BY <1>1, <1>5, <1>6, ChildWithin
  <2>3. ~FoundAt(m, s.sep, LowerBound(m, s.sep))
    OBVIOUS
  <2> HIDE DEF m, n
  <2> QED BY <1>1, <1>6, <1>7, <2>1, <2>2, <2>3, InsertSlotOK
<1>11. /\ Count(w) = Count(m) + 1
       /\ w.lower = m.lower /\ w.upper = m.upper /\ ~IsLeaf(w)
       /\ ChildAt(w, i) = left /\ SepAt(w, i) = s.sep
       /\ \A j \in 1 .. (i - 1) : ChildAt(w, j) = ChildAt(m, j)
       /\ \A j \in 0 .. (i - 1) : SepAt(w, j) = SepAt(m, j)
       /\ \A j \in (i + 1) .. (Count(m) + 2) :
             ChildAt(w, j) = ChildAt(m, j - 1) /\ SepAt(w, j) = SepAt(m, j - 1)
  BY <1>1, <1>6, InsertChild
<1>12. ~IsLeaf(n) =>
          /\ Count(l) + 1 = s.at
          /\ \A j \in 1 .. s.at : ChildAt(l, j) = ChildAt(n, j)
          /\ \A j \in 0 .. s.at : SepAt(l, j) = SepAt(n, j)
          /\ Count(r) + 1 = Count(n) + 1 - s.at
          /\ \A j \in 1 .. Count(r) + 1 : ChildAt(r, j) = ChildAt(n, s.at + j)
          /\ \A j \in 0 .. Count(r) + 1 : SepAt(r, j) = SepAt(n, s.at + j)
  BY DEF Halves
(* The new tree.                                                           *)
<1>13. /\ Pages' = Pages \cup {left}
       /\ page'[left] = l /\ page'[x] = r /\ page'[p] = w
       /\ \A q \in Pages \ {x, p} : page'[q] = page[q]
  BY <1>1, <1>4, <1>7 DEF Pages
<1> HIDE DEF n, m, w
<1>14. PageType'
  <2>1. \A q \in Pages' : page'[q] \in Page
    BY <1>1, <1>8, <1>9, <1>10, <1>13
  <2>2. page' \in [Pages' -> Page]
    BY <2>1 DEF Pages
  <2>3. Pages' \subseteq PageId
    BY <1>13 DEF PageType
  <2> QED BY <2>2, <2>3 DEF PageType
<1>15. KeysInFences'
  <2>1. \A q \in Pages : PageOK(page[q])
    BY DEF TreeOK, KeysInFences
  <2>2. \A q \in Pages' : PageOK(page'[q])
    BY <1>8, <1>9, <1>10, <1>13, <2>1
  <2> QED BY <2>2 DEF KeysInFences
<1>16. /\ \A q \in Pages' : q # left => (IsLeaf(page'[q]) <=> IsLeaf(page[q]))
       /\ \A q \in Pages \ {x} : /\ page'[q].lower = page[q].lower
                                 /\ page'[q].upper = page[q].upper
  <2>1. (IsLeaf(r) <=> IsLeaf(page[x])) /\ (IsLeaf(w) <=> IsLeaf(page[p]))
    BY <1>1, <1>9, <1>11 DEF n, m
  <2>2. w.lower = page[p].lower /\ w.upper = page[p].upper
    BY <1>11 DEF m
  <2> QED BY <1>4, <1>13, <2>1, <2>2
<1>17. /\ \A q \in Inners' : q = left \/ q \in Inners
       /\ left \in Inners' => ~IsLeaf(n) /\ x \in Inners
       /\ \A q \in Leaves' : q = left \/ q \in Leaves
       /\ left \in Leaves' => IsLeaf(n) /\ x \in Leaves
  BY <1>8, <1>13, <1>16 DEF Inners, Leaves, n
(* Every pointer of the new tree but the one to the new page is a pointer  *)
(* of the old tree, between the same separators.                           *)
<1> DEFINE oldPage(q)   == IF q = left THEN x ELSE q
           oldPos(q, j) == IF q = p THEN (IF j < i THEN j ELSE j - 1)
                           ELSE IF q = x THEN s.at + j ELSE j
<1>18. ASSUME NEW q \in Inners', NEW j \in 1 .. Count(page'[q]) + 1, ~ (q = p /\ j = i)
       PROVE  /\ oldPage(q) \in Inners
              /\ oldPos(q, j) \in 1 .. Count(page[oldPage(q)]) + 1
              /\ ChildAt(page'[q], j) = ChildAt(page[oldPage(q)], oldPos(q, j))
              /\ \/ q = p /\ j = i + 1
                 \/ /\ SepAt(page'[q], j - 1) = SepAt(page[oldPage(q)], oldPos(q, j) - 1)
                    /\ SepAt(page'[q], j) = SepAt(page[oldPage(q)], oldPos(q, j))
  <2>1. CASE q = p
    <3>1. page'[q] = w /\ oldPage(q) = p /\ page[p] = m /\ q \in Inners
      BY <1>4, <1>13, <2>1 DEF m
    <3>2. CASE j < i
      <4>1. j \in 1 .. (i - 1) /\ j - 1 \in 0 .. (i - 1) /\ j \in 0 .. (i - 1) /\ oldPos(q, j) = j
            /\ j \in 1 .. Count(m) + 1
        BY <1>5, <2>1, <3>2 DEF m
      <4> QED BY <1>11, <3>1, <4>1
    <3>3. CASE j > i
      <4>0. i \in 1 .. Count(m) + 1 /\ j \in 1 .. Count(m) + 2
        BY <1>5, <1>11, <3>1 DEF m
      <4>1. j \in (i + 1) .. (Count(m) + 2) /\ oldPos(q, j) = j - 1 /\ j - 1 \in 1 .. Count(m) + 1
        BY <1>5, <2>1, <3>3, <4>0
      <4>2. CASE j = i + 1
        BY <1>11, <2>1, <3>1, <4>1, <4>2
      <4>3. CASE j # i + 1
        <5>1. j - 1 \in (i + 1) .. (Count(m) + 2)
          BY <1>5, <4>0, <4>1, <4>3
        <5> QED BY <1>11, <2>1, <3>1, <4>1, <5>1
      <4> QED BY <4>2, <4>3
    <3>4. j < i \/ j > i
      <4>1. j \in Nat /\ i \in Nat /\ j # i
        BY <1>5, <1>11, <1>18, <2>1, <3>1
      <4> QED BY <4>1
    <3> QED BY <3>2, <3>3, <3>4
  <2>2. CASE q = left
    <3>1. /\ page'[q] = l /\ ~IsLeaf(n) /\ x \in Inners /\ oldPage(q) = x /\ oldPos(q, j) = j
          /\ page[x] = n
      BY <1>4, <1>13, <1>17, <2>2 DEF n
    <3>2. j \in 1 .. s.at /\ j - 1 \in 0 .. s.at /\ j \in 0 .. s.at /\ j \in 1 .. Count(n) + 1
      BY <1>5, <1>6, <1>12, <3>1
    <3> QED BY <1>12, <3>1, <3>2
  <2>3. CASE q = x
    <3>1. /\ page'[q] = r /\ x \in Inners /\ ~IsLeaf(n) /\ oldPage(q) = x
          /\ oldPos(q, j) = s.at + j /\ page[x] = n
      BY <1>4, <1>13, <1>17, <2>3 DEF n, Inners
    <3>2. /\ j - 1 \in 0 .. Count(r) + 1 /\ j \in 0 .. Count(r) + 1 /\ s.at + j \in 1 .. Count(n) + 1
          /\ s.at + (j - 1) = s.at + j - 1 /\ j \in 1 .. Count(r) + 1
      BY <1>5, <1>6, <1>12, <3>1, SMTT(30)
    <3>3. SepAt(r, j - 1) = SepAt(n, s.at + (j - 1))
      BY <1>12, <3>1, <3>2
    <3>4. ChildAt(r, j) = ChildAt(n, s.at + j) /\ SepAt(r, j) = SepAt(n, s.at + j)
      BY <1>12, <3>1, <3>2
    <3> HIDE DEF oldPage, oldPos
    <3>5. SepAt(n, s.at + (j - 1)) = SepAt(n, oldPos(q, j) - 1)
      <4>1. s.at \in Nat /\ j \in Int
        BY <1>6
      <4>2. s.at + (j - 1) = oldPos(q, j) - 1
        BY <3>1, <4>1
      <4> QED BY <4>2
    <3>6. /\ SepAt(page'[q], j - 1) = SepAt(page[oldPage(q)], oldPos(q, j) - 1)
          /\ SepAt(page'[q], j) = SepAt(page[oldPage(q)], oldPos(q, j))
      BY <3>1, <3>3, <3>4, <3>5
    <3> QED BY <3>1, <3>2, <3>4, <3>6
  <2>4. CASE q \notin {p, left, x}
    <3>1. page'[q] = page[q] /\ q \in Inners /\ oldPage(q) = q /\ oldPos(q, j) = j
      BY <1>1, <1>13, <1>17, <2>4
    <3> QED BY <3>1
  <2> QED BY <2>1, <2>2, <2>3, <2>4
<1>19. ASSUME NEW q \in Inners', NEW j \in 1 .. Count(page'[q]) + 1, q = p /\ j = i
       PROVE  ChildAt(page'[q], j) = left
  BY <1>11, <1>13, <1>19
<1>20. ASSUME NEW q \in Inners', NEW j \in 1 .. Count(page'[q]) + 1,
              NEW y \in Inners', NEW k \in 1 .. Count(page'[y]) + 1,
              ~ (q = p /\ j = i), ~ (y = p /\ k = i),
              oldPage(q) = oldPage(y), oldPos(q, j) = oldPos(y, k)
       PROVE  q = y /\ j = k
  <2>1. j \in Nat /\ k \in Nat /\ j >= 1 /\ k >= 1
    <3> DEFINE a == Count(page'[q])
               b == Count(page'[y])
    <3>1. a \in Nat /\ b \in Nat
      BY <1>14, PageFacts DEF PageType, Inners
    <3>2. j \in 1 .. a + 1 /\ k \in 1 .. b + 1
      OBVIOUS
    <3> HIDE DEF a, b
    <3> QED BY <3>1, <3>2
  <2>2. CASE q = y
    BY <1>4, <1>6, <1>20, <2>1, <2>2
  <2>3. CASE q # y
    <3>1. \/ q = left /\ y = x
          \/ q = x /\ y = left
      BY <1>20, <2>3
    <3>2. \A z \in Inners' : \A a \in 1 .. Count(page'[z]) + 1 :
             z = left => a \in 1 .. s.at
      BY <1>12, <1>13, <1>17
    <3>3. CASE q = left /\ y = x
      <4>1. j \in 1 .. s.at /\ oldPos(q, j) = j /\ oldPos(y, k) = s.at + k
        BY <1>4, <3>2, <3>3
      <4> QED BY <1>6, <1>20, <2>1, <4>1
    <3>4. CASE q = x /\ y = left
      <4>1. k \in 1 .. s.at /\ oldPos(y, k) = k /\ oldPos(q, j) = s.at + j
        BY <1>4, <3>2, <3>4
      <4> QED BY <1>6, <1>20, <2>1, <4>1
    <3> QED BY <3>1, <3>3, <3>4
  <2> QED BY <2>2, <2>3
<1> HIDE DEF oldPage, oldPos
<1>21. ChildFences'
  <2>1. ASSUME NEW q \in Inners', NEW j \in 1 .. Count(page'[q]) + 1
        PROVE  /\ ChildAt(page'[q], j) \in Pages'
               /\ page'[ChildAt(page'[q], j)].lower = SepAt(page'[q], j - 1)
               /\ page'[ChildAt(page'[q], j)].upper = SepAt(page'[q], j)
    <3> DEFINE c == ChildAt(page'[q], j)
    <3>1. CASE q = p /\ j = i
      <4>0. page'[q] = w /\ c = left
        BY <1>11, <1>13, <3>1
      <4>1. c = left /\ page'[c] = l /\ c \in Pages' /\ page'[q] = w
        <5> HIDE DEF c
        <5> QED BY <1>13, <4>0
      <4>2. SepAt(w, j - 1) = SepAt(m, j - 1) /\ SepAt(w, j) = s.sep
        BY <1>5, <1>11, <3>1
      <4>3. l.lower = SepAt(m, j - 1) /\ l.upper = s.sep
        BY <1>5, <1>8, <3>1 DEF m, n
      <4> QED BY <4>1, <4>2, <4>3
    <3>2. CASE q = p /\ j = i + 1
      <4>1. page'[q] = w /\ c = ChildAt(m, i) /\ SepAt(w, j) = SepAt(m, i) /\ SepAt(w, j - 1) = s.sep
        <5>1. j \in (i + 1) .. (Count(m) + 2) /\ j - 1 = i
          BY <1>5, <1>11, <1>13, <3>2 DEF m
        <5> QED BY <1>11, <1>13, <3>2, <5>1
      <4>2. c = x /\ page'[c] = r /\ c \in Pages'
        <5>1. c = x
          BY <4>1 DEF m
        <5> HIDE DEF c
        <5> QED BY <1>13, <5>1
      <4> QED BY <1>5, <1>9, <4>1, <4>2 DEF n, m
    <3>3. CASE ~ (q = p /\ j = i) /\ ~ (q = p /\ j = i + 1)
      <4> DEFINE y == oldPage(q)
                 k == oldPos(q, j)
      <4>1. /\ y \in Inners /\ k \in 1 .. Count(page[y]) + 1
            /\ c = ChildAt(page[y], k)
            /\ SepAt(page'[q], j - 1) = SepAt(page[y], k - 1)
            /\ SepAt(page'[q], j) = SepAt(page[y], k)
        BY <1>18, <3>3
      <4> HIDE DEF c, y, k
      <4>2. c \in Pages /\ page[c].lower = SepAt(page[y], k - 1) /\ page[c].upper = SepAt(page[y], k)
        BY <1>2, <4>1
      <4>3. c # x
        <5> SUFFICES ASSUME c = x PROVE FALSE
          OBVIOUS
        <5>0. ChildAt(page[y], k) = ChildAt(page[p], i)
          BY <4>1
        <5>1. y = p /\ k = i
          <6>1. \A a \in 1 .. Count(page[y]) + 1, b \in 1 .. Count(page[p]) + 1 :
                   ChildAt(page[y], a) = ChildAt(page[p], b) => y = p /\ a = b
            BY <1>3, <4>1
          <6>2. i \in 1 .. Count(page[p]) + 1
            OBVIOUS
          <6> QED BY <4>1, <5>0, <6>1, <6>2
        <5>2. q = p
          BY <1>4, <5>1 DEF oldPage, y
        <5>3. j \in Nat
          <6>1. Count(page'[q]) \in Nat
            BY <1>5, <1>11, <1>13, <5>2
          <6> QED BY <6>1
        <5> QED BY <3>3, <5>1, <5>2, <5>3 DEF oldPos, k
      <4>4. page'[c].lower = page[c].lower /\ page'[c].upper = page[c].upper /\ c \in Pages'
        BY <1>13, <1>16, <4>2, <4>3
      <4> QED BY <4>1, <4>2, <4>4 DEF c
    <3> QED BY <3>1, <3>2, <3>3
  <2>2. root' \in Pages' /\ page'[root'].lower = << >> /\ page'[root'].upper = << >>
    BY <1>2, <1>4, <1>13, <1>16, ZenonT(60)
  <2> QED BY <2>1, <2>2 DEF ChildFences
<1>22. OneParent'
  <2>1. ASSUME NEW q \in Inners', NEW y \in Inners',
               NEW j \in 1 .. Count(page'[q]) + 1, NEW k \in 1 .. Count(page'[y]) + 1
        PROVE  /\ ChildAt(page'[q], j) \notin {root', q}
               /\ ChildAt(page'[q], j) = ChildAt(page'[y], k) => q = y /\ j = k
    <3>1. CASE q = p /\ j = i
      <4>1. ChildAt(page'[q], j) = left
        BY <1>19, <3>1
      <4>2. ASSUME ~ (y = p /\ k = i)
            PROVE  ChildAt(page'[y], k) # left
        <5> DEFINE z == oldPage(y)
                   a == oldPos(y, k)
        <5>1. z \in Inners /\ a \in 1 .. Count(page[z]) + 1 /\ ChildAt(page'[y], k) = ChildAt(page[z], a)
          BY <1>18, <4>2
        <5> HIDE DEF z, a
        <5> QED BY <1>2, <5>1
      <4> QED BY <1>4, <3>1, <4>1, <4>2
    <3>2. CASE ~ (q = p /\ j = i)
      <4>1. /\ oldPage(q) \in Inners
            /\ oldPos(q, j) \in 1 .. Count(page[oldPage(q)]) + 1
            /\ ChildAt(page'[q], j) = ChildAt(page[oldPage(q)], oldPos(q, j))
        BY <1>18, <3>2
      <4>2. ChildAt(page'[q], j) \in Pages /\ ChildAt(page'[q], j) \notin {root, oldPage(q)}
        BY <1>2, <1>3, <4>1
      <4>3. ChildAt(page'[q], j) # q
        BY <4>2 DEF oldPage
      <4>4. CASE y = p /\ k = i
        <5>1. ChildAt(page'[y], k) = left
          BY <1>19, <4>4
        <5>2. ChildAt(page'[q], j) # left
          BY <4>2
        <5> QED BY <4>2, <4>3, <5>1, <5>2
      <4>5. CASE ~ (y = p /\ k = i)
        <5>1. /\ oldPage(y) \in Inners
              /\ oldPos(y, k) \in 1 .. Count(page[oldPage(y)]) + 1
              /\ ChildAt(page'[y], k) = ChildAt(page[oldPage(y)], oldPos(y, k))
          BY <1>18, <4>5
        <5>2. ASSUME ChildAt(page'[q], j) = ChildAt(page'[y], k)
              PROVE  q = y /\ j = k
          <6> DEFINE z1 == oldPage(q)
                     a1 == oldPos(q, j)
                     z2 == oldPage(y)
                     a2 == oldPos(y, k)
          <6>1. /\ z1 \in Inners /\ a1 \in 1 .. Count(page[z1]) + 1
                /\ z2 \in Inners /\ a2 \in 1 .. Count(page[z2]) + 1
                /\ ChildAt(page[z1], a1) = ChildAt(page[z2], a2)
            BY <4>1, <5>1, <5>2
          <6> HIDE DEF z1, a1, z2, a2
          <6>2. z1 = z2 /\ a1 = a2
            BY <1>3, <6>1
          <6>3. oldPage(q) = oldPage(y) /\ oldPos(q, j) = oldPos(y, k)
            BY <6>2 DEF z1, a1, z2, a2
          <6>4. ~ (q = p /\ j = i) /\ ~ (y = p /\ k = i)
            BY <3>2, <4>5
          <6> QED BY ONLY <1>20, <6>3, <6>4, q \in Inners', y \in Inners',
                          j \in 1 .. Count(page'[q]) + 1, k \in 1 .. Count(page'[y]) + 1
        <5> QED BY <4>2, <4>3, <5>2
      <4> QED BY <4>4, <4>5
    <3> QED BY <3>1, <3>2
  <2> QED BY <2>1 DEF OneParent
<1>23. LeavesApart'
  <2> DEFINE Resp(q, k)  == InFences(k, page[q].lower, page[q].upper)
             RespN(q, k) == InFences(k, page'[q].lower, page'[q].upper)
  <2>1. \A a, b \in Leaves : a # b => \A k \in Bytes : ~ (Resp(a, k) /\ Resp(b, k))
    BY DEF TreeOK, LeavesApart
  <2>2. \A k \in Bytes : /\ RespN(left, k) => Resp(x, k)
                         /\ RespN(x, k) => Resp(x, k)
                         /\ ~ (RespN(left, k) /\ RespN(x, k))
    <3> TAKE k \in Bytes
    <3>1. RespN(left, k) <=> InFences(k, n.lower, s.sep)
      BY <1>8, <1>13
    <3>2. RespN(x, k) <=> InFences(k, s.sep, n.upper)
      BY <1>9, <1>13
    <3>3. k \in Bytes /\ n.lower \in Bytes /\ n.upper \in Bytes
      BY <1>1 DEF n
    <3>4. /\ InFences(k, n.lower, s.sep) => InFences(k, n.lower, n.upper)
          /\ InFences(k, s.sep, n.upper) => InFences(k, n.lower, n.upper)
          /\ ~ (InFences(k, n.lower, s.sep) /\ InFences(k, s.sep, n.upper))
      BY <1>6, <3>3, FenceSplit
    <3>5. Resp(x, k) <=> InFences(k, n.lower, n.upper)
      BY DEF n
    <3> HIDE DEF Resp, RespN
    <3> QED BY <3>1, <3>2, <3>4, <3>5, Zenon
  <2>3. \A q \in Leaves : q # x => \A k \in Bytes : RespN(q, k) => Resp(q, k)
    BY <1>1, <1>16
  <2> HIDE DEF Resp, RespN
  <2>4. ASSUME NEW a \in Leaves', NEW b \in Leaves', a # b, NEW k \in Bytes
        PROVE  ~ (RespN(a, k) /\ RespN(b, k))
    <3>1. CASE a = left
      BY <1>17, <2>1, <2>2, <2>3, <2>4, <3>1
    <3>2. CASE b = left
      BY <1>17, <2>1, <2>2, <2>3, <2>4, <3>2
    <3>3. CASE a # left /\ b # left
      BY <1>17, <2>1, <2>2, <2>3, <2>4, <3>3
    <3> QED BY <3>1, <3>2, <3>3
  <2> QED BY <2>4 DEF LeavesApart, RespN
<1> QED BY <1>14, <1>15, <1>21, <1>22, <1>23 DEF TreeOK

(* removeSlot with a merge: leaf x, less the removed slot, goes into its   *)
(* right neighbour y, and the separator between them leaves the parent p.  *)
LEMMA MergeTree ==
    ASSUME PageType, TreeOK,
           NEW x \in Leaves, NEW p \in Inners, NEW i \in 1 .. Count(page[p]),
           i + 1 <= Count(page[p]), x = ChildAt(page[p], i),
           NEW y, y = ChildAt(page[p], i + 1), IsLeaf(page[y]),
           NEW n \in Page, PageOK(n), IsLeaf(n),
           n.lower = page[x].lower, n.upper = page[x].upper,
           page' = [q \in DOMAIN page \ {x} |->
                       CASE q = p -> RemoveSlot(page[p], i)
                         [] q = y -> Merged(n, page[y])
                         [] OTHER -> page[q]],
           root' = root
    PROVE  PageType' /\ TreeOK'
<1> DEFINE m == page[p]
           w == RemoveSlot(m, i)
           g == Merged(n, page[y])
(* What is known of the old tree.                                          *)
<1>1. /\ p \in Pages /\ x \in Pages /\ ~IsLeaf(m) /\ m \in Page /\ PageOK(m) /\ Count(m) \in Nat
      /\ Inners \subseteq Pages /\ Leaves \subseteq Pages
      /\ \A q \in Pages : page[q] \in Page /\ page[q].lower \in Bytes /\ page[q].upper \in Bytes
  <2>1. p \in Pages /\ x \in Pages /\ ~IsLeaf(m) /\ Inners \subseteq Pages /\ Leaves \subseteq Pages
    BY DEF Inners, Leaves
  <2>2. \A q \in Pages : page[q] \in Page
    BY DEF PageType
  <2>3. PageOK(m)
    BY <2>1 DEF TreeOK, KeysInFences
  <2> QED BY <2>1, <2>2, <2>3, PageFacts
<1>2. /\ \A q \in Inners : \A j \in 1 .. Count(page[q]) + 1 :
            /\ ChildAt(page[q], j) \in Pages
            /\ page[ChildAt(page[q], j)].lower = SepAt(page[q], j - 1)
            /\ page[ChildAt(page[q], j)].upper = SepAt(page[q], j)
      /\ root \in Pages /\ page[root].lower = << >> /\ page[root].upper = << >>
  BY DEF TreeOK, ChildFences
<1>3. \A q, z \in Inners : \A j \in 1 .. Count(page[q]) + 1, k \in 1 .. Count(page[z]) + 1 :
         /\ ChildAt(page[q], j) \notin {root, q}
         /\ ChildAt(page[q], j) = ChildAt(page[z], k) => q = z /\ j = k
  BY DEF TreeOK, OneParent
<1>4. i \in 1 .. Count(m) + 1 /\ i + 1 \in 1 .. Count(m) + 1 /\ i \in Nat /\ i # i + 1
  BY <1>1
<1>5. y \in Pages /\ y \in Leaves /\ x # y /\ x # p /\ y # p /\ x # root
  <2>1. y \in Pages /\ y # p /\ x # p /\ x # root
    BY <1>2, <1>3, <1>4
  <2>2. x # y
    <3>1. \A a, b \in 1 .. Count(page[p]) + 1 : ChildAt(page[p], a) = ChildAt(page[p], b) => a = b
      BY <1>3
    <3> QED BY <1>4, <3>1
  <2> QED BY <2>1, <2>2 DEF Leaves
<1>6. /\ page[x].lower = SepAt(m, i - 1) /\ page[x].upper = SepAt(m, i)
      /\ page[y].lower = SepAt(m, i) /\ page[y].upper = SepAt(m, i + 1)
  <2>1. (i + 1) - 1 = i
    BY <1>4
  <2> QED BY <1>2, <1>4, <2>1
<1>7. /\ SepAt(m, i) # << >>
      /\ SepAt(m, i - 1) = << >> \/ Less(SepAt(m, i - 1), SepAt(m, i))
      /\ Less(SepAt(m, i), SepAt(m, i + 1))
  <2>1. i \in 1 .. Count(m) /\ i + 1 \in 1 .. Count(m)
    BY <1>1
  <2>2. SepAt(m, i) = m.slot[i].key /\ SepAt(m, i + 1) = m.slot[i + 1].key
    BY <2>1 DEF SepAt
  <2>3. SepAt(m, i) # << >> /\ Less(SepAt(m, i), SepAt(m, i + 1))
    BY <1>1, <1>4, <2>1, <2>2 DEF PageOK
  <2>4. CASE i = 1
    <3>1. SepAt(m, i - 1) = m.lower
      BY <2>4 DEF SepAt
    <3> QED BY <1>1, <2>1, <2>2, <2>3, <3>1 DEF PageOK, InFences, AboveFence
  <2>5. CASE i # 1
    <3>1. i - 1 \in 1 .. Count(m) /\ i - 1 < i /\ SepAt(m, i - 1) = m.slot[i - 1].key
      BY <1>1, <1>4, <2>1, <2>5 DEF SepAt
    <3> QED BY <1>1, <2>1, <2>2, <2>3, <3>1 DEF PageOK
  <2> QED BY <2>3, <2>4, <2>5
(* What is known of the new pages.                                         *)
<1>8. /\ g \in Page /\ PageOK(g) /\ g.lower = page[x].lower /\ g.upper = page[y].upper /\ IsLeaf(g)
  <2>1. page[y] \in Page /\ PageOK(page[y])
    BY <1>1, <1>5 DEF TreeOK, KeysInFences
  <2>2. /\ n.upper = page[y].lower /\ n.upper # << >>
        /\ n.lower = << >> \/ Less(n.lower, n.upper)
        /\ page[y].upper = << >> \/ Less(page[y].lower, page[y].upper)
    BY <1>6, <1>7
  <2> QED BY <2>1, <2>2, MergedOK
<1>9. w \in Page /\ PageOK(w)
  BY <1>1, RemoveSlotOK
<1>10. /\ Count(w) = Count(m) - 1
       /\ w.lower = m.lower /\ w.upper = m.upper /\ ~IsLeaf(w)
       /\ \A j \in 1 .. (i - 1) : ChildAt(w, j) = ChildAt(m, j)
       /\ \A j \in 0 .. (i - 1) : SepAt(w, j) = SepAt(m, j)
       /\ \A j \in i .. Count(m) :
             ChildAt(w, j) = ChildAt(m, j + 1) /\ SepAt(w, j) = SepAt(m, j + 1)
  BY <1>1, RemoveChild
(* The new tree.                                                           *)
<1>11. /\ Pages' = Pages \ {x}
       /\ page'[p] = w /\ page'[y] = g
       /\ \A q \in Pages \ {x, p, y} : page'[q] = page[q]
  BY <1>1, <1>5 DEF Pages
<1> HIDE DEF m, w, g
<1>12. PageType'
  <2>1. \A q \in Pages' : page'[q] \in Page
    BY <1>1, <1>8, <1>9, <1>11
  <2>2. page' \in [Pages' -> Page]
    BY <2>1 DEF Pages
  <2>3. Pages' \subseteq PageId
    BY <1>11 DEF PageType
  <2> QED BY <2>2, <2>3 DEF PageType
<1>13. KeysInFences'
  <2>1. \A q \in Pages : PageOK(page[q])
    BY DEF TreeOK, KeysInFences
  <2>2. \A q \in Pages' : PageOK(page'[q])
    BY <1>8, <1>9, <1>11, <2>1
  <2> QED BY <2>2 DEF KeysInFences
<1>14. /\ \A q \in Pages' : IsLeaf(page'[q]) <=> IsLeaf(page[q])
       /\ \A q \in Pages \ {x, y} : /\ page'[q].lower = page[q].lower
                                    /\ page'[q].upper = page[q].upper
  <2>1. ~IsLeaf(page[p]) /\ IsLeaf(page[y]) /\ w.lower = page[p].lower /\ w.upper = page[p].upper
    BY <1>1, <1>10 DEF m
  <2> QED BY <1>1, <1>8, <1>10, <1>11, <2>1
<1>15. Inners' = Inners /\ Leaves' = Leaves \ {x}
  BY <1>1, <1>5, <1>11, <1>14 DEF Inners, Leaves
(* Every pointer of the new tree is a pointer of the old tree, and not the *)
(* one to x.                                                               *)
<1> DEFINE oldPos(q, j) == IF q = p /\ j >= i THEN j + 1 ELSE j
<1>16. ASSUME NEW q \in Inners, NEW j \in 1 .. Count(page'[q]) + 1
       PROVE  /\ oldPos(q, j) \in 1 .. Count(page[q]) + 1
              /\ ~ (q = p /\ oldPos(q, j) = i)
              /\ ChildAt(page'[q], j) = ChildAt(page[q], oldPos(q, j))
              /\ SepAt(page'[q], j) = SepAt(page[q], oldPos(q, j))
              /\ (q = p /\ j = i) \/ SepAt(page'[q], j - 1) = SepAt(page[q], oldPos(q, j) - 1)
  <2>1. CASE q = p
    <3>1. page'[q] = w /\ page[q] = m /\ j \in 1 .. Count(m) /\ j \in Nat
      BY <1>1, <1>10, <1>11, <2>1 DEF m
    <3>2. CASE j < i
      <4>1. j \in 1 .. (i - 1) /\ j - 1 \in 0 .. (i - 1) /\ j \in 0 .. (i - 1) /\ oldPos(q, j) = j
            /\ j \in 1 .. Count(m) + 1 /\ j # i
        BY <1>1, <1>4, <3>1, <3>2
      <4> QED BY <1>10, <3>1, <4>1
    <3>3. CASE j >= i
      <4>1. j \in i .. Count(m) /\ oldPos(q, j) = j + 1 /\ j + 1 \in 1 .. Count(m) + 1 /\ j + 1 # i
        BY <1>1, <1>4, <2>1, <3>1, <3>3
      <4>2. j = i \/ SepAt(w, j - 1) = SepAt(m, oldPos(q, j) - 1)
        <5> SUFFICES ASSUME j # i PROVE SepAt(w, j - 1) = SepAt(m, oldPos(q, j) - 1)
          OBVIOUS
        <5>1. j - 1 \in i .. Count(m) /\ (j - 1) + 1 = j /\ oldPos(q, j) - 1 = j
          BY <1>1, <1>4, <3>1, <3>3, <4>1
        <5> HIDE DEF oldPos
        <5> QED BY <1>10, <5>1
      <4> HIDE DEF oldPos
      <4> QED BY <1>10, <2>1, <3>1, <4>1, <4>2
    <3> QED BY <1>4, <3>1, <3>2, <3>3
  <2>2. CASE q # p
    <3>1. q \in Pages /\ q # x /\ q # y
      BY <1>1, <1>5 DEF Inners, Leaves
    <3>2. page'[q] = page[q] /\ oldPos(q, j) = j
      BY <1>11, <2>2, <3>1
    <3> QED BY <2>2, <3>2
  <2> QED BY <2>1, <2>2
<1>17. \A q \in Inners : \A j, k \in 1 .. Count(page'[q]) + 1 :
          oldPos(q, j) = oldPos(q, k) => j = k
  <2>1. \A q \in Inners : Count(page'[q]) \in Nat
    BY <1>11, <1>12, <1>15, PageFacts DEF PageType, Inners
  <2> QED BY <1>4, <2>1
<1> HIDE DEF oldPos
<1>18. ChildFences'
  <2>1. ASSUME NEW q \in Inners, NEW j \in 1 .. Count(page'[q]) + 1
        PROVE  /\ ChildAt(page'[q], j) \in Pages'
               /\ page'[ChildAt(page'[q], j)].lower = SepAt(page'[q], j - 1)
               /\ page'[ChildAt(page'[q], j)].upper = SepAt(page'[q], j)
    <3> DEFINE c == ChildAt(page'[q], j)
               k == oldPos(q, j)
    <3>1. /\ k \in 1 .. Count(page[q]) + 1
          /\ ~ (q = p /\ k = i)
          /\ c = ChildAt(page[q], k)
          /\ SepAt(page'[q], j) = SepAt(page[q], k)
          /\ (q = p /\ j = i) \/ SepAt(page'[q], j - 1) = SepAt(page[q], k - 1)
      BY <1>16
    <3>2. k = IF q = p /\ j >= i THEN j + 1 ELSE j
      BY DEF oldPos
    <3> HIDE DEF c, k
    <3>3. c \in Pages /\ page[c].lower = SepAt(page[q], k - 1) /\ page[c].upper = SepAt(page[q], k)
      BY <1>2, <3>1
    <3>4. \A a \in 1 .. Count(page[q]) + 1, b \in 1 .. Count(page[p]) + 1 :
             ChildAt(page[q], a) = ChildAt(page[p], b) => q = p /\ a = b
      BY <1>3
    <3>5. c # x
      <4>1. i \in 1 .. Count(page[p]) + 1
        BY <1>4 DEF m
      <4> QED BY <3>1, <3>4, <4>1
    <3>6. CASE q = p /\ j = i
      <4>1. k = i + 1 /\ c = y /\ page'[q] = w
        BY <1>4, <1>11, <3>1, <3>2, <3>6
      <4>2. page'[c] = g /\ c \in Pages'
        BY <1>5, <1>11, <4>1
      <4>3. SepAt(w, j - 1) = SepAt(m, i - 1) /\ SepAt(w, j) = SepAt(m, i + 1)
        BY <1>1, <1>4, <1>10, <3>6
      <4> QED BY <1>6, <1>8, <4>1, <4>2, <4>3 DEF c
    <3>7. CASE ~ (q = p /\ j = i)
      <4>1. c # y
        <5> SUFFICES ASSUME c = y PROVE FALSE
          OBVIOUS
        <5>1. i + 1 \in 1 .. Count(page[p]) + 1
          BY <1>4 DEF m
        <5>2. q = p /\ k = i + 1
          BY <3>1, <3>4, <5>1
        <5>3. j \in Int
          OBVIOUS
        <5> QED BY <1>4, <3>2, <3>7, <5>2, <5>3
      <4>2. c \in Pages' /\ page'[c].lower = page[c].lower /\ page'[c].upper = page[c].upper
        BY <1>11, <1>14, <3>3, <3>5, <4>1
      <4> QED BY <3>1, <3>3, <3>7, <4>2 DEF c
    <3> QED BY <3>6, <3>7
  <2>2. root' \in Pages' /\ page'[root'].lower = << >> /\ page'[root'].upper = << >>
    <3>1. root # y
      BY <1>3, <1>4 DEF m
    <3> QED BY <1>2, <1>5, <1>11, <1>14, <3>1, ZenonT(60)
  <2> QED BY <1>15, <2>1, <2>2 DEF ChildFences
<1>19. OneParent'
  <2>1. ASSUME NEW q \in Inners, NEW z \in Inners,
               NEW j \in 1 .. Count(page'[q]) + 1, NEW k \in 1 .. Count(page'[z]) + 1
        PROVE  /\ ChildAt(page'[q], j) \notin {root', q}
               /\ ChildAt(page'[q], j) = ChildAt(page'[z], k) => q = z /\ j = k
    <3> DEFINE a == oldPos(q, j)
               b == oldPos(z, k)
    <3>1. /\ a \in 1 .. Count(page[q]) + 1 /\ ChildAt(page'[q], j) = ChildAt(page[q], a)
          /\ b \in 1 .. Count(page[z]) + 1 /\ ChildAt(page'[z], k) = ChildAt(page[z], b)
      BY <1>16
    <3> HIDE DEF a, b
    <3>2. /\ ChildAt(page[q], a) \notin {root, q}
          /\ ChildAt(page[q], a) = ChildAt(page[z], b) => q = z /\ a = b
      BY <1>3, <3>1
    <3>3. q = z /\ a = b => j = k
      BY <1>17 DEF a, b
    <3> QED BY <3>1, <3>2, <3>3
  <2> QED BY <1>15, <2>1 DEF OneParent
<1>20. LeavesApart'
  <2> DEFINE Resp(q, k)  == InFences(k, page[q].lower, page[q].upper)
             RespN(q, k) == InFences(k, page'[q].lower, page'[q].upper)
  <2>1. \A a, b \in Leaves : a # b => \A k \in Bytes : ~ (Resp(a, k) /\ Resp(b, k))
    BY DEF TreeOK, LeavesApart
  <2>2. \A k \in Bytes : RespN(y, k) => Resp(x, k) \/ Resp(y, k)
    <3> DEFINE a == page[x].lower
               s == page[x].upper
               b == page[y].upper
    <3>1. /\ a \in Bytes /\ s \in Bytes /\ b \in Bytes /\ s # << >> /\ s = page[y].lower
          /\ page'[y].lower = a /\ page'[y].upper = b
      BY <1>1, <1>5, <1>6, <1>7, <1>8, <1>11
    <3>2. InFences(s, a, b)
      BY <1>6, <1>7 DEF InFences, AboveFence, BelowFence, Leq
    <3> HIDE DEF a, s, b
    <3>3. \A k \in Bytes : InFences(k, a, b) => InFences(k, a, s) \/ InFences(k, s, b)
      BY <3>1, <3>2, FenceSplit
    <3> QED BY <3>1, <3>3 DEF a, s, b
  <2>3. \A q \in Leaves \ {x, y} : \A k \in Bytes : RespN(q, k) => Resp(q, k)
    BY <1>1, <1>14
  <2> HIDE DEF Resp, RespN
  <2>4. ASSUME NEW a \in Leaves \ {x}, NEW b \in Leaves \ {x}, a # b, NEW k \in Bytes
        PROVE  ~ (RespN(a, k) /\ RespN(b, k))
    BY <1>5, <2>1, <2>2, <2>3, <2>4
  <2> QED BY <1>15, <2>4 DEF LeavesApart, RespN
<1> QED BY <1>12, <1>13, <1>18, <1>19, <1>20 DEF TreeOK

(***************************************************************************)
(* The inductive invariant.  CursorOnPath and SplitPageAhead are part of   *)
(* it because a split is only right at the place the descent has reached,  *)
(* and that place may have been found by ensureSpace's second descent.     *)
(***************************************************************************)
IInv ==
    /\ TypeOK
    /\ TreeOK
    /\ CursorOnPath
    /\ SplitPageAhead

AnswerType == [found : BOOLEAN, val : Val \cup {NoVal}, recs : Seq(LeafSlot)]

(* The types of the variables other than the tree.                         *)
LocalType ==
    /\ pc \in {"idle", "descend", "ensure", "split", "abort", "assert"}
    /\ op \in OpsAndNoOp
    /\ node \in PageId \cup {NoPage}
    /\ parent \in PageId \cup {NoPage}
    /\ pos \in Nat
    /\ skey \in Bytes
    /\ toSplit \in PageId \cup {NoPage}
    /\ out \in Seq(LeafSlot)
    /\ res \in AnswerType

LEMMA TypeParts == TypeOK <=> PageType /\ root \in PageId /\ LocalType
BY DEF TypeOK, PageType, Page, LocalType, AnswerType

LEMMA TreeUnchanged ==
    ASSUME PageType, TreeOK, UNCHANGED tree
    PROVE  PageType' /\ TreeOK'
<1>1. page' = page /\ root' = root
  BY DEF tree
<1>2. Pages' = Pages /\ Leaves' = Leaves /\ Inners' = Inners
  BY <1>1 DEF Pages, Leaves, Inners
<1>3. LeavesApart'
  BY <1>1, <1>2, Zenon DEF TreeOK, LeavesApart
<1> QED BY <1>1, <1>2, <1>3 DEF PageType, TreeOK, KeysInFences, ChildFences, OneParent

LEMMA RootFacts ==
    ASSUME PageType, TreeOK
    PROVE  /\ root \in Pages /\ root \in PageId
           /\ \A k : InFences(k, page[root].lower, page[root].upper)
BY DEF PageType, TreeOK, ChildFences, InFences, AboveFence, BelowFence

(* Operations and their arguments.                                         *)
LEMMA OpFacts ==
    ASSUME NEW o \in OpsAndNoOp
    PROVE  /\ o \in Ops => o.key \in Key
           /\ o.kind = "insert" => o.key \in Key /\ o.val \in Val
           /\ o.kind \in {"scan", "scandesc"} => o.limit \in Nat \ {0}
           /\ o.key \in Bytes
<1>1. Key \subseteq Bytes /\ Limits \subseteq Nat \ {0} /\ << >> \in Bytes
  BY BTreeAssumption DEF Bytes
<1>2. CASE o \in InsertOps
  BY <1>1, <1>2 DEF InsertOps, Op
<1>3. CASE o \in PointOps
  BY <1>1, <1>3 DEF PointOps, Op
<1>4. CASE o \in ScanOps
  BY <1>1, <1>4 DEF ScanOps, Op
<1>5. CASE o = NoOp
  <2>1. o.kind = "none" /\ o.key = << >>
    BY <1>5 DEF NoOp, Op
  <2>2. o \notin Ops
    BY <2>1 DEF Ops, InsertOps, PointOps, ScanOps, Op
  <2> QED BY <1>1, <2>1, <2>2
<1> QED BY <1>2, <1>3, <1>4, <1>5 DEF OpsAndNoOp, Ops

(* An operation that returns leaves no descent behind.                     *)
LEMMA ReturnOK ==
    ASSUME LocalType, NEW a \in AnswerType, Return(a)
    PROVE  LocalType' /\ CursorOnPath' /\ SplitPageAhead'
<1>1. LocalType'
  <2>1. << >> \in Bytes /\ << >> \in Seq(LeafSlot)
    BY DEF Bytes
  <2> QED BY <2>1 DEF LocalType, Return, OpsAndNoOp
<1>2. pc' = "idle"
  BY DEF Return
<1> QED BY <1>1, <1>2 DEF CursorOnPath, SplitPageAhead, Walking

(* A loop that starts at the root is on the path of any key.               *)
LEMMA FromRootOK ==
    ASSUME PageType', TreeOK', root' = root, NEW k \in Bytes, FromRoot(k),
           op' \in OpsAndNoOp, pc' \in {"descend", "ensure"},
           pc' = "ensure" => op'.kind = "insert",
           op'.kind \in {"insert", "remove", "lookup"} => k = op'.key
    PROVE  CursorOnPath'
<1>1. /\ root' \in Pages'
      /\ InFences(k, page'[root'].lower, page'[root'].upper)
  BY DEF TreeOK, ChildFences, InFences, AboveFence, BelowFence
<1>2. node' = root' /\ parent' = NoPage /\ skey' = k
  BY DEF FromRoot
<1> QED BY <1>1, <1>2 DEF CursorOnPath

(* Following the key keeps to the path.                                    *)
LEMMA LeadsNext ==
    ASSUME NEW x, NEW y \in Inners, Leads(x, y)
    PROVE  Leads(x, NextPage(y))
BY DEF Leads

LEMMA StepDownOK ==
    ASSUME IInv, pc \in {"descend", "ensure"}, pc = "ensure" => node # toSplit, StepDown
    PROVE  IInv'
<1> DEFINE n == page[node]
           i == LowerBound(n, skey)
<1>0. PageType /\ root \in PageId /\ LocalType /\ TreeOK
  BY TypeParts DEF IInv
<1>1. Walking /\ node \in Pages /\ InFences(skey, n.lower, n.upper)
  BY DEF IInv, Walking, CursorOnPath
<1>2. ~IsLeaf(n) /\ parent' = node /\ pos' = i /\ node' = ChildAt(n, i)
      /\ UNCHANGED <<root, page, pc, op, skey, toSplit, out, res>>
  BY DEF StepDown
<1>3. n \in Page /\ PageOK(n) /\ skey \in Bytes /\ node \in Inners /\ Count(n) \in Nat
  <2>1. n \in Page /\ PageOK(n) /\ skey \in Bytes /\ node \in Inners
    BY <1>0, <1>1, <1>2 DEF PageType, TreeOK, KeysInFences, LocalType, Inners
  <2> QED BY <2>1, PageFacts
<1>4. i \in 1 .. Count(n) + 1
  BY <1>3, LowerBoundProperties
<1>5. InFences(skey, SepAt(n, i - 1), SepAt(n, i))
  BY <1>1, <1>2, <1>3, ChildOfKey
<1> HIDE DEF n, i
<1>6. /\ node' \in Pages
      /\ page[node'].lower = SepAt(n, i - 1) /\ page[node'].upper = SepAt(n, i)
  BY <1>0, <1>2, <1>3, <1>4 DEF TreeOK, ChildFences, n
<1>7. PageType' /\ TreeOK'
  BY <1>0, <1>2, TreeUnchanged DEF tree
<1>8. LocalType'
  BY <1>0, <1>1, <1>2, <1>3, <1>4, <1>6 DEF LocalType, PageType
<1>9. Pages' = Pages /\ Inners' = Inners /\ page' = page /\ root' = root
  BY <1>2 DEF Pages, Inners
<1>10. CursorOnPath'
  <2>1. /\ node' \in Pages' /\ InFences(skey', page'[node'].lower, page'[node'].upper)
    BY <1>2, <1>5, <1>6, <1>9
  <2>2. parent' # NoPage
    BY <1>0, <1>1, <1>2, BTreeAssumption DEF PageType
  <2>3. parent' \in Inners' /\ pos' \in 1 .. Count(page'[parent']) + 1
        /\ node' = ChildAt(page'[parent'], pos')
    BY <1>2, <1>3, <1>4, <1>9 DEF n
  <2>4. /\ pc' # "descend" => op'.kind = "insert"
        /\ op'.kind \in {"insert", "remove", "lookup"} => skey' = op'.key
    BY <1>1, <1>2 DEF IInv, CursorOnPath
  <2> QED BY <2>1, <2>2, <2>3, <2>4 DEF CursorOnPath
<1>11. SplitPageAhead'
  <2>1. \A a, b : Leads(a, b)' <=> Leads(a, b)
    BY <1>2, <1>9 DEF Leads, NextPage
  <2>2. Leads(root, node)
    <3>1. CASE parent = NoPage
      <4>1. node = root
        BY <1>1, <3>1 DEF IInv, CursorOnPath
      <4> QED BY <4>1 DEF Leads
    <3>2. CASE parent # NoPage
      <4>1. /\ parent \in Inners /\ pos \in 1 .. Count(page[parent]) + 1
            /\ node = ChildAt(page[parent], pos) /\ Leads(root, parent)
        BY <1>1, <3>2 DEF IInv, CursorOnPath, SplitPageAhead
      <4>2. page[parent] \in Page /\ PageOK(page[parent]) /\ ~IsLeaf(page[parent])
        BY <1>0, <4>1 DEF PageType, TreeOK, KeysInFences, Inners
      <4>3. InFences(skey, SepAt(page[parent], pos - 1), SepAt(page[parent], pos))
        BY <1>0, <1>1, <4>1 DEF TreeOK, ChildFences, n
      <4>4. LowerBound(page[parent], skey) = pos
        BY <1>3, <4>1, <4>2, <4>3, KeyOfChild
      <4>5. node = NextPage(parent)
        BY <4>1, <4>4 DEF NextPage
      <4> QED BY <4>1, <4>5, LeadsNext
    <3> QED BY <3>1, <3>2
  <2>3. ASSUME pc = "ensure"
        PROVE  toSplit \in Inners /\ Leads(node', toSplit)
    <3>1. toSplit \in Inners /\ Leads(node, toSplit) /\ node # toSplit
      BY <2>3 DEF IInv, SplitPageAhead
    <3>2. node' = NextPage(node)
      BY <1>2 DEF NextPage, n, i
    <3>3. ASSUME NEW S \in SUBSET Pages, node' \in S, \A z \in S \cap Inners : NextPage(z) \in S
          PROVE  toSplit \in S
      <4> DEFINE T == S \cup {node}
      <4>1. T \in SUBSET Pages /\ node \in T /\ \A z \in T \cap Inners : NextPage(z) \in T
        BY <1>1, <3>2, <3>3
      <4>2. toSplit \in T
        <5> HIDE DEF T
        <5> QED BY <3>1, <4>1 DEF Leads
      <4> QED BY <3>1, <4>2
    <3> QED BY <3>1, <3>3 DEF Leads
  <2> QED BY <1>2, <1>9, <2>1, <2>2, <2>3 DEF SplitPageAhead
<1>12. root' \in PageId
  BY <1>0, <1>2
<1>13. TypeOK'
  BY <1>7, <1>8, <1>12 DEF TypeOK, PageType, Page, LocalType, AnswerType
<1> QED BY <1>7, <1>10, <1>11, <1>13 DEF IInv

(* A step that ends an operation and leaves the tree in order.             *)
LEMMA ReturnInv ==
    ASSUME IInv, NEW a \in AnswerType, Return(a), root' = root, PageType', TreeOK'
    PROVE  IInv'
<1>1. root \in PageId /\ LocalType
  BY TypeParts DEF IInv
<1>2. LocalType' /\ CursorOnPath' /\ SplitPageAhead'
  BY <1>1, ReturnOK
<1>3. TypeOK'
  BY <1>1, <1>2 DEF TypeOK, PageType, Page, LocalType, AnswerType
<1> QED BY <1>2, <1>3 DEF IInv

(* Where an operation is when it works on a leaf.                          *)
LEMMA AtLeafFacts ==
    ASSUME IInv, NEW kind, AtLeaf(kind)
    PROVE  /\ PageType /\ TreeOK /\ LocalType
           /\ node \in Leaves /\ node \in Pages
           /\ page[node] \in Page /\ PageOK(page[node]) /\ IsLeaf(page[node])
           /\ skey \in Bytes
           /\ InFences(skey, page[node].lower, page[node].upper)
           /\ LowerBound(page[node], skey) \in 1 .. Count(page[node]) + 1
           /\ Count(page[node]) \in Nat
           /\ page[node].slot \in Seq(LeafSlot)
           /\ \A i \in 1 .. Count(page[node]) : page[node].slot[i] \in LeafSlot
           /\ kind \in {"insert", "remove", "lookup"} => skey = op.key
<1>1. PageType /\ TreeOK /\ LocalType
  BY TypeParts DEF IInv
<1>2. /\ node \in Pages /\ IsLeaf(page[node]) /\ InFences(skey, page[node].lower, page[node].upper)
      /\ kind \in {"insert", "remove", "lookup"} => skey = op.key
  BY DEF IInv, CursorOnPath, Walking, AtLeaf
<1>3. node \in Leaves /\ page[node] \in Page /\ PageOK(page[node]) /\ skey \in Bytes
  BY <1>1, <1>2 DEF PageType, TreeOK, KeysInFences, LocalType, Leaves
<1> QED BY <1>1, <1>2, <1>3, PageFacts, LowerBoundProperties

LEMMA RemovedOK ==
    ASSUME IInv, Removing
    PROVE  LET n == Removed(page[node])
           IN  /\ n \in Page /\ PageOK(n) /\ IsLeaf(n)
               /\ n.lower = page[node].lower /\ n.upper = page[node].upper
<1>1. AtLeaf("remove") /\ FoundAt(page[node], skey, LowerBound(page[node], skey))
  BY DEF Removing
<1>2. LowerBound(page[node], skey) \in 1 .. Count(page[node])
  BY <1>1, AtLeafFacts DEF FoundAt
<1> QED BY <1>1, <1>2, AtLeafFacts, RemoveSlotOK DEF Removed

(* A step inside an operation that changes neither the tree nor the place  *)
(* the descent has reached.                                                *)
LEMMA DieOK ==
    ASSUME IInv, NEW how \in {"abort", "assert"}, Die(how)
    PROVE  IInv'
<1>1. PageType /\ root \in PageId /\ LocalType /\ TreeOK
  BY TypeParts DEF IInv
<1>2. pc' = how /\ UNCHANGED <<root, page, op, node, parent, pos, skey, toSplit, out, res>>
  BY DEF Die, cursor
<1>3. PageType' /\ TreeOK'
  BY <1>1, <1>2, TreeUnchanged DEF tree
<1>4. LocalType' /\ root' \in PageId
  BY <1>1, <1>2 DEF LocalType
<1>5. CursorOnPath' /\ SplitPageAhead'
  BY <1>2 DEF CursorOnPath, SplitPageAhead, Walking
<1>6. TypeOK'
  BY <1>3, <1>4 DEF TypeOK, PageType, Page, LocalType, AnswerType
<1> QED BY <1>3, <1>5, <1>6 DEF IInv

LEMMA CallOK ==
    ASSUME IInv, NEW o \in Ops, Call(o)
    PROVE  IInv'
<1>1. PageType /\ root \in PageId /\ LocalType /\ TreeOK
  BY TypeParts DEF IInv
<1>2. /\ pc' = "descend" /\ op' = o /\ FromRoot(o.key) /\ res' = NoAnswer
      /\ UNCHANGED <<root, page, toSplit, out>>
  BY DEF Call
<1>3. o \in OpsAndNoOp /\ o.key \in Bytes
  BY OpFacts DEF OpsAndNoOp
<1>4. PageType' /\ TreeOK'
  BY <1>1, <1>2, TreeUnchanged DEF tree
<1>5. CursorOnPath'
  BY <1>2, <1>3, <1>4, FromRootOK
<1>6. node' = root /\ parent' = NoPage /\ pos' = 0 /\ skey' = o.key
  BY <1>2 DEF FromRoot
<1>7. SplitPageAhead'
  BY <1>2, <1>6 DEF SplitPageAhead
<1>8. LocalType' /\ root' \in PageId
  <2>1. NoAnswer \in AnswerType
    BY DEF NoAnswer, Answer, AnswerType
  <2> QED BY <1>1, <1>2, <1>3, <1>6, <2>1 DEF LocalType
<1>9. TypeOK'
  BY <1>4, <1>8 DEF TypeOK, PageType, Page, LocalType, AnswerType
<1> QED BY <1>4, <1>5, <1>7, <1>9 DEF IInv

LEMMA ClearOK ==
    ASSUME IInv, Clear
    PROVE  IInv'
<1>1. root' \in PageId /\ page' = [p \in {root'} |-> EmptyLeaf]
  BY BTreeAssumption DEF Clear
<1>2. PageType' /\ TreeOK'
  <2>1. EmptyLeaf \in Page /\ IsLeaf(EmptyLeaf) /\ EmptyLeaf.slot = << >>
        /\ EmptyLeaf.lower = << >> /\ EmptyLeaf.upper = << >>
    <3>1. << >> \in Bytes /\ << >> \in Seq(LeafSlot)
      BY DEF Bytes
    <3> QED BY <3>1 DEF EmptyLeaf, Leaf, IsLeaf, Page, LeafPage
  <2> HIDE DEF EmptyLeaf
  <2>2. Pages' = {root'} /\ page'[root'] = EmptyLeaf
    BY <1>1 DEF Pages
  <2>3. Leaves' = {root'} /\ Inners' = {}
    BY <2>1, <2>2 DEF Leaves, Inners
  <2>4. PageType'
    BY <1>1, <2>1, <2>2 DEF PageType
  <2>5. KeysInFences'
    BY <2>1, <2>2 DEF KeysInFences, PageOK, Count
  <2>6. ChildFences' /\ OneParent' /\ LeavesApart'
    BY <2>1, <2>2, <2>3 DEF ChildFences, OneParent, LeavesApart
  <2> QED BY <2>4, <2>5, <2>6 DEF TreeOK
<1>3. pc' = "idle" /\ res' = NoAnswer /\ UNCHANGED <<op, node, parent, pos, skey, toSplit, out>>
  BY DEF Clear, cursor
<1>4. LocalType'
  <2>1. NoAnswer \in AnswerType
    BY DEF NoAnswer, Answer, AnswerType
  <2>2. LocalType
    BY TypeParts DEF IInv
  <2> QED BY <1>3, <2>1, <2>2 DEF LocalType
<1>5. CursorOnPath' /\ SplitPageAhead'
  BY <1>3 DEF CursorOnPath, SplitPageAhead, Walking
<1>6. TypeOK'
  BY <1>1, <1>2, <1>4 DEF TypeOK, PageType, Page, LocalType, AnswerType
<1> QED BY <1>2, <1>5, <1>6 DEF IInv

LEMMA LookupOK ==
    ASSUME IInv, LeafLookup
    PROVE  IInv'
<1> DEFINE n == page[node]
           i == LowerBound(n, skey)
           a == IF FoundAt(n, skey, i) THEN Answer(TRUE, n.slot[i].val, << >>) ELSE NoAnswer
<1>1. AtLeaf("lookup") /\ Return(a) /\ UNCHANGED tree
  BY DEF LeafLookup
<1>2. /\ PageType /\ TreeOK /\ i \in 1 .. Count(n) + 1 /\ Count(n) \in Nat
      /\ \A j \in 1 .. Count(n) : n.slot[j] \in LeafSlot
  BY <1>1, AtLeafFacts
<1>3. PageType' /\ TreeOK'
  BY <1>1, <1>2, TreeUnchanged
<1>4. a \in AnswerType
  <2> HIDE DEF n, i
  <2>1. FoundAt(n, skey, i) => n.slot[i].val \in Val
    BY <1>2 DEF FoundAt, LeafSlot
  <2>2. << >> \in Seq(LeafSlot)
    OBVIOUS
  <2> QED BY <2>1, <2>2 DEF AnswerType, Answer, NoAnswer
<1> HIDE DEF a
<1> QED BY <1>1, <1>3, <1>4, ReturnInv DEF tree

LEMMA InsertOK ==
    ASSUME IInv, LeafInsert
    PROVE  IInv'
<1> DEFINE n == page[node]
           i == LowerBound(n, skey)
<1>1. /\ AtLeaf("insert") /\ ~FoundAt(n, skey, i)
      /\ page' = [page EXCEPT ![node] = InsertSlot(n, i, op.key, op.val)]
      /\ root' = root /\ Return(NoAnswer)
  BY DEF LeafInsert
<1>2. /\ PageType /\ TreeOK /\ LocalType /\ node \in Leaves
      /\ n \in Page /\ PageOK(n) /\ IsLeaf(n) /\ skey \in Bytes
      /\ InFences(skey, n.lower, n.upper) /\ skey = op.key
  BY <1>1, AtLeafFacts
<1>3. [key |-> op.key, val |-> op.val] \in SlotType(n)
  <2>1. op.key \in Key /\ op.val \in Val
    BY <1>1, <1>2, OpFacts DEF AtLeaf, LocalType
  <2> QED BY <1>2, <2>1 DEF SlotType, LeafSlot
<1> DEFINE w == InsertSlot(n, i, op.key, op.val)
<1>4. /\ w \in Page /\ PageOK(w) /\ IsLeaf(w) /\ w.lower = n.lower /\ w.upper = n.upper
  <2> HIDE DEF n
  <2> QED BY <1>1, <1>2, <1>3, InsertSlotOK
<1> HIDE DEF w
<1>5. PageType' /\ TreeOK'
  BY <1>1, <1>2, <1>4, LeafReplaced DEF w
<1>6. NoAnswer \in AnswerType
  BY DEF NoAnswer, Answer, AnswerType
<1> QED BY <1>1, <1>5, <1>6, ReturnInv

(* An insert that finds no room asks for a split where it stands.          *)
LEMMA InsertFullOK ==
    ASSUME IInv, AtLeaf("insert"), pc' = "split",
           UNCHANGED <<root, page, op, cursor, toSplit, out, res>>
    PROVE  IInv'
<1>1. PageType /\ root \in PageId /\ LocalType /\ TreeOK
  BY TypeParts DEF IInv
<1>2. /\ pc' = "split" /\ pc = "descend" /\ op.kind = "insert"
      /\ UNCHANGED <<root, page, op, node, parent, pos, skey, toSplit, out, res>>
  BY DEF AtLeaf, cursor
<1>3. PageType' /\ TreeOK'
  BY <1>1, <1>2, TreeUnchanged DEF tree
<1>4. LocalType' /\ root' \in PageId
  BY <1>1, <1>2 DEF LocalType
<1>5. Pages' = Pages /\ Inners' = Inners
  BY <1>2 DEF Pages, Inners
<1>6. CursorOnPath'
  BY <1>2, <1>5 DEF IInv, CursorOnPath, Walking
<1>7. SplitPageAhead'
  <2>1. \A a, b : Leads(a, b)' <=> Leads(a, b)
    BY <1>2, <1>5 DEF Leads, NextPage
  <2> QED BY <1>2, <1>5, <2>1 DEF IInv, SplitPageAhead, Walking
<1>8. TypeOK'
  BY <1>3, <1>4 DEF TypeOK, PageType, Page, LocalType, AnswerType
<1> QED BY <1>3, <1>6, <1>7, <1>8 DEF IInv

LEMMA NewPageFacts ==
    ASSUME FreePages # {}
    PROVE  NewPage \in PageId /\ NewPage \notin Pages
BY DEF FreePages, NewPage, Pages

LEMMA MakeRootOK ==
    ASSUME IInv, MakeRoot
    PROVE  IInv'
<1> DEFINE p == NewPage
<1>1. PageType /\ root \in PageId /\ LocalType /\ TreeOK
  BY TypeParts DEF IInv
<1>2. /\ pc = "split" /\ parent = NoPage /\ p \in PageId /\ p \notin Pages
      /\ page' = [q \in DOMAIN page \cup {p} |->
                     IF q = p THEN Inner(<< >>, << >>, << >>, node) ELSE page[q]]
      /\ root' = p /\ parent' = p /\ pos' = 1
      /\ UNCHANGED <<pc, op, node, skey, toSplit, out, res>>
  BY NewPageFacts DEF MakeRoot
<1> HIDE DEF p
<1>3. /\ node = root /\ node \in Pages /\ op.kind = "insert" /\ skey = op.key
      /\ InFences(skey, page[node].lower, page[node].upper)
  BY <1>2 DEF IInv, CursorOnPath, Walking
<1>4. PageType' /\ TreeOK'
  BY <1>1, <1>2, <1>3, RootAbove
<1>5. LocalType' /\ root' \in PageId
  BY <1>1, <1>2 DEF LocalType
<1>6. /\ Pages' = Pages \cup {p} /\ page'[p] = Inner(<< >>, << >>, << >>, node)
      /\ page'[node] = page[node]
  BY <1>2, <1>3 DEF Pages
<1>7. CursorOnPath'
  <2>1. /\ p \in Inners' /\ Count(page'[p]) = 0 /\ ChildAt(page'[p], 1) = node
    BY <1>6 DEF Inners, Inner, IsLeaf, Count, ChildAt
  <2>2. 1 \in 1 .. Count(page'[p]) + 1
    BY <2>1
  <2>3. p # NoPage
    BY <1>2, BTreeAssumption
  <2> QED BY <1>2, <1>3, <1>6, <2>1, <2>2, <2>3 DEF CursorOnPath
<1>8. SplitPageAhead'
  BY <1>2 DEF SplitPageAhead, Leads
<1>9. TypeOK'
  BY <1>4, <1>5 DEF TypeOK, PageType, Page, LocalType, AnswerType
<1> QED BY <1>4, <1>7, <1>8, <1>9 DEF IInv

(* An insert that starts over after a split.                               *)
LEMMA StartOverOK ==
    ASSUME IInv, PageType', TreeOK', root' = root, pc' = "descend", FromRoot(op.key),
           UNCHANGED <<op, toSplit, out, res>>
    PROVE  IInv'
<1>1. root \in PageId /\ LocalType
  BY TypeParts DEF IInv
<1>2. op \in OpsAndNoOp /\ op.key \in Bytes
  BY <1>1, OpFacts DEF LocalType
<1>3. CursorOnPath'
  BY <1>2, FromRootOK
<1>4. node' = root /\ parent' = NoPage /\ pos' = 0 /\ skey' = op.key
  BY DEF FromRoot
<1>5. SplitPageAhead'
  BY <1>4 DEF SplitPageAhead
<1>6. LocalType' /\ root' \in PageId
  BY <1>1, <1>2, <1>4 DEF LocalType
<1>7. TypeOK'
  BY <1>6 DEF TypeOK, PageType, Page, LocalType, AnswerType
<1> QED BY <1>3, <1>5, <1>7 DEF IInv

LEMMA SplitNodeOK ==
    ASSUME IInv, SplitNode
    PROVE  IInv'
<1> DEFINE n == page[node]
           p == page[parent]
           s == FindSeparator(n)
           left == NewPage
<1>1. PageType /\ root \in PageId /\ LocalType /\ TreeOK
  BY TypeParts DEF IInv
<1>2. /\ pc = "split" /\ parent # NoPage /\ SplitChecks = "split" /\ FreePages # {}
      /\ page' = [q \in DOMAIN page \cup {left} |->
                     CASE q = left   -> SplitLeft(n, s)
                       [] q = node   -> SplitRight(n, s)
                       [] q = parent -> InsertSlot(p, LowerBound(p, s.sep), s.sep, left)
                       [] OTHER      -> page[q]]
      /\ root' = root /\ pc' = "descend" /\ FromRoot(op.key)
      /\ UNCHANGED <<op, toSplit, out, res>>
  BY DEF SplitNode, Splitting
<1>3. ~ (Count(n) < 2) /\ ~ (s.at < 2) /\ ~FoundAt(p, s.sep, LowerBound(p, s.sep))
  BY <1>2 DEF SplitChecks
<1>4. /\ node \in Pages /\ parent \in Inners /\ pos \in 1 .. Count(p) + 1 /\ node = ChildAt(p, pos)
      /\ op.kind = "insert"
  BY <1>2 DEF IInv, CursorOnPath, Walking
<1>5. left \in PageId /\ left \notin Pages
  BY <1>2, NewPageFacts
<1>6. Count(n) > 1 /\ s.at >= 2
  <2>1. n \in Page /\ PageOK(n)
    BY <1>1, <1>4 DEF PageType, TreeOK, KeysInFences
  <2>2. Count(n) \in Nat
    BY <2>1, PageFacts
  <2>3. Count(n) > 1
    BY <1>3, <2>2
  <2>4. s.at \in Nat
    <3>1. CASE IsLeaf(n)
      <4>1. Cut(n, s)
        BY <2>1, <2>3, <3>1, LeafSeparator DEF FindSeparator
      <4> QED BY <2>2, <4>1 DEF Cut
    <3>2. CASE ~IsLeaf(n)
      <4>1. s.at = Count(n) \div 2
        BY <3>2 DEF FindSeparator
      <4> QED BY <2>2, <4>1
    <3> QED BY <3>1, <3>2
  <2> QED BY <1>3, <2>3, <2>4
<1> HIDE DEF left
<1> DEFINE l == SplitLeft(n, s)
           r == SplitRight(n, s)
<1>7. Halves(n, s, l, r)
  <2> HIDE DEF n
  <2>1. n \in Page /\ PageOK(n)
    BY <1>1, <1>4 DEF PageType, TreeOK, KeysInFences, n
  <2> HIDE DEF s
  <2>2. s = FindSeparator(n)
    BY DEF s
  <2> QED BY <1>6, <2>1, <2>2, SplitMakesHalves
<1>8. PageType' /\ TreeOK'
  <2>1. /\ root' = root
        /\ page' = [q \in DOMAIN page \cup {left} |->
                       CASE q = left   -> l
                         [] q = node   -> r
                         [] q = parent -> InsertSlot(p, LowerBound(p, s.sep), s.sep, left)
                         [] OTHER      -> page[q]]
    BY <1>2
  <2> HIDE DEF s, l, r
  <2> QED BY <1>1, <1>3, <1>4, <1>5, <1>7, <2>1, SplitTree
<1> QED BY <1>2, <1>8, StartOverOK

(* ensureSpace is called for the parent and walks down again.              *)
LEMMA EnsureSpaceOK ==
    ASSUME IInv, Splitting, pc' = "ensure", toSplit' = parent,
           UNCHANGED <<root, page, op, out, res>>, FromRoot(skey)
    PROVE  IInv'
<1>1. PageType /\ root \in PageId /\ LocalType /\ TreeOK
  BY TypeParts DEF IInv
<1>2. /\ pc = "split" /\ parent # NoPage /\ pc' = "ensure" /\ toSplit' = parent
      /\ UNCHANGED <<root, page, op, out, res>> /\ FromRoot(skey)
  BY DEF Splitting
<1>3. parent \in Inners /\ op.kind = "insert" /\ skey = op.key /\ Leads(root, parent)
  BY <1>2 DEF IInv, CursorOnPath, SplitPageAhead, Walking
<1>4. PageType' /\ TreeOK'
  BY <1>1, <1>2, TreeUnchanged DEF tree
<1>5. skey \in Bytes /\ op \in OpsAndNoOp
  BY <1>1 DEF LocalType
<1>6. CursorOnPath'
  BY <1>2, <1>3, <1>4, <1>5, FromRootOK
<1>7. node' = root /\ parent' = NoPage /\ pos' = 0 /\ skey' = skey
  BY <1>2 DEF FromRoot
<1>8. SplitPageAhead'
  <2>1. Pages' = Pages /\ Inners' = Inners
    BY <1>2 DEF Pages, Inners
  <2>2. \A a, b : Leads(a, b)' <=> Leads(a, b)
    BY <1>2, <1>7, <2>1 DEF Leads, NextPage
  <2> QED BY <1>2, <1>3, <1>7, <2>1, <2>2 DEF SplitPageAhead
<1>9. LocalType' /\ root' \in PageId
  BY <1>1, <1>2, <1>7 DEF LocalType
<1>10. TypeOK'
  BY <1>4, <1>9 DEF TypeOK, PageType, Page, LocalType, AnswerType
<1> QED BY <1>4, <1>6, <1>8, <1>10 DEF IInv

(* ensureSpace stops at the page it was told to split, also when it stops  *)
(* because it has reached a leaf: no other page is ahead of a leaf.        *)
LEMMA EnsureFoundOK ==
    ASSUME IInv, EnsureFound
    PROVE  IInv'
<1>1. PageType /\ root \in PageId /\ LocalType /\ TreeOK
  BY TypeParts DEF IInv
<1>2. /\ pc = "ensure" /\ (node = toSplit \/ IsLeaf(page[node]))
      /\ pc' = "split" /\ node' = toSplit /\ toSplit' = NoPage
      /\ UNCHANGED <<root, page, op, parent, pos, skey, out, res>>
  BY DEF EnsureFound
<1>3. node = toSplit
  <2>1. toSplit \in Inners /\ Leads(node, toSplit) /\ node \in Pages
    BY <1>2 DEF IInv, SplitPageAhead, CursorOnPath, Walking
  <2>2. CASE IsLeaf(page[node])
    <3>1. {node} \in SUBSET Pages /\ {node} \cap Inners = {}
      BY <2>1, <2>2 DEF Inners
    <3>2. toSplit \in {node}
      <4> DEFINE S == {node}
      <4>1. S \in SUBSET Pages /\ node \in S /\ \A z \in S \cap Inners : NextPage(z) \in S
        BY <3>1
      <4> HIDE DEF S
      <4>2. toSplit \in S
        BY <2>1, <4>1 DEF Leads
      <4> QED BY <4>2 DEF S
    <3> QED BY <3>2
  <2> QED BY <1>2, <2>2
<1>4. PageType' /\ TreeOK'
  BY <1>1, <1>2, TreeUnchanged DEF tree
<1>5. Pages' = Pages /\ Inners' = Inners
  BY <1>2 DEF Pages, Inners
<1>6. CursorOnPath'
  BY <1>2, <1>3, <1>5 DEF IInv, CursorOnPath, Walking
<1>7. SplitPageAhead'
  <2>1. \A a, b : Leads(a, b)' <=> Leads(a, b)
    BY <1>2, <1>5 DEF Leads, NextPage
  <2> QED BY <1>2, <2>1 DEF IInv, SplitPageAhead, Walking
<1>8. LocalType' /\ root' \in PageId
  BY <1>1, <1>2 DEF LocalType
<1>9. TypeOK'
  BY <1>4, <1>8 DEF TypeOK, PageType, Page, LocalType, AnswerType
<1> QED BY <1>4, <1>6, <1>7, <1>9 DEF IInv

LEMMA RemoveOK ==
    ASSUME IInv, RemoveMiss \/ RemoveOnly \/ RemoveAndMerge
    PROVE  IInv'
<1>1. /\ NoAnswer \in AnswerType
      /\ Answer(TRUE, NoVal, << >>) \in AnswerType
  BY DEF NoAnswer, Answer, AnswerType
<1>2. CASE RemoveMiss
  <2>1. Return(NoAnswer) /\ UNCHANGED tree
    BY <1>2 DEF RemoveMiss
  <2>2. PageType' /\ TreeOK'
    BY <2>1, TreeUnchanged, TypeParts DEF IInv
  <2> QED BY <1>1, <2>1, <2>2, ReturnInv DEF tree
<1> DEFINE n == Removed(page[node])
<1>3. CASE RemoveOnly
  <2>1. Removing /\ page' = [page EXCEPT ![node] = n] /\ root' = root
    BY <1>3 DEF RemoveOnly
  <2>2. AtLeaf("remove") /\ Return(Answer(TRUE, NoVal, << >>))
    BY <2>1 DEF Removing
  <2>3. /\ n \in Page /\ PageOK(n) /\ IsLeaf(n)
        /\ n.lower = page[node].lower /\ n.upper = page[node].upper
    BY <2>1, RemovedOK
  <2> HIDE DEF n
  <2>4. PageType' /\ TreeOK'
    BY <2>1, <2>2, <2>3, AtLeafFacts, LeafReplaced
  <2> QED BY <1>1, <2>1, <2>2, <2>4, ReturnInv
<1>4. CASE RemoveAndMerge
  <2> DEFINE y == RightNeighbour
  <2>1. /\ Removing /\ CanMerge(n) /\ root' = root
        /\ page' = [q \in DOMAIN page \ {node} |->
                       CASE q = parent -> RemoveSlot(page[parent], pos)
                         [] q = y      -> Merged(n, page[y])
                         [] OTHER      -> page[q]]
    BY <1>4 DEF RemoveAndMerge, PagesAfterMerge
  <2>2. AtLeaf("remove") /\ Return(Answer(TRUE, NoVal, << >>))
    BY <2>1 DEF Removing
  <2>3. /\ n \in Page /\ PageOK(n) /\ IsLeaf(n)
        /\ n.lower = page[node].lower /\ n.upper = page[node].upper
    BY <2>1, RemovedOK
  <2>4. /\ parent # NoPage /\ pos + 1 <= Count(page[parent]) /\ IsLeaf(page[y])
        /\ y = ChildAt(page[parent], pos + 1)
    BY <2>1 DEF CanMerge, RightNeighbour
  <2>5. /\ parent \in Inners /\ pos \in 1 .. Count(page[parent]) + 1
        /\ node = ChildAt(page[parent], pos)
    BY <2>2, <2>4 DEF IInv, CursorOnPath, Walking, AtLeaf
  <2>6. PageType /\ TreeOK /\ node \in Leaves
    BY <2>2, AtLeafFacts
  <2>7. pos \in 1 .. Count(page[parent])
    <3>1. page[parent] \in Page
      BY <2>5, <2>6 DEF PageType, Inners
    <3>2. Count(page[parent]) \in Nat
      BY <3>1, PageFacts
    <3> QED BY <2>4, <2>5, <3>2
  <2> HIDE DEF n, y
  <2>8. PageType' /\ TreeOK'
    BY <2>1, <2>3, <2>4, <2>5, <2>6, <2>7, MergeTree
  <2> QED BY <1>1, <2>1, <2>2, <2>8, ReturnInv
<1> QED BY <1>2, <1>3, <1>4

(* One leaf of a scan.                                                     *)
LEMMA ScanLeafOK ==
    ASSUME IInv, NEW kind \in {"scan", "scandesc"}, NEW recs \in Seq(LeafSlot),
           NEW fence, NEW next \in Bytes, ScanLeaf(kind, recs, fence, next)
    PROVE  IInv'
<1> DEFINE all == out \o recs
<1>1. PageType /\ root \in PageId /\ LocalType /\ TreeOK
  BY TypeParts DEF IInv
<1>2. AtLeaf(kind) /\ UNCHANGED tree
  BY DEF ScanLeaf
<1>3. PageType' /\ TreeOK' /\ root' = root
  BY <1>1, <1>2, TreeUnchanged DEF tree
<1>4. all \in Seq(LeafSlot) /\ Len(all) \in Nat
  BY <1>1, ConcatProperties, LenProperties DEF LocalType
<1>5. op.kind = kind /\ op \in OpsAndNoOp /\ op.limit \in Nat /\ op.limit >= 1
  BY <1>1, <1>2, OpFacts DEF AtLeaf, LocalType
<1> HIDE DEF all
<1>6. CASE Len(all) >= op.limit
  <2>1. Return(Answer(FALSE, NoVal, SubSeq(all, 1, op.limit)))
    BY <1>6 DEF ScanLeaf, all
  <2>2. 1 \in 1 .. Len(all) + 1 /\ op.limit \in 1 - 1 .. Len(all)
    BY <1>4, <1>5, <1>6
  <2>3. SubSeq(all, 1, op.limit) \in Seq(LeafSlot)
    BY <1>4, <2>2, SubSeqProperties
  <2>4. Answer(FALSE, NoVal, SubSeq(all, 1, op.limit)) \in AnswerType
    BY <2>3 DEF Answer, AnswerType
  <2> QED BY <1>3, <2>1, <2>4, ReturnInv
<1>7. CASE ~ (Len(all) >= op.limit) /\ fence = << >>
  <2>1. Return(Answer(FALSE, NoVal, all))
    BY <1>7 DEF ScanLeaf, all
  <2>2. Answer(FALSE, NoVal, all) \in AnswerType
    BY <1>4 DEF Answer, AnswerType
  <2> QED BY <1>3, <2>1, <2>2, ReturnInv
<1>8. CASE ~ (Len(all) >= op.limit) /\ fence # << >>
  <2>1. out' = all /\ FromRoot(next) /\ UNCHANGED <<pc, op, toSplit, res>>
    BY <1>8 DEF ScanLeaf, all
  <2>2. pc = "descend" /\ op.kind \notin {"insert", "remove", "lookup"}
    BY <1>2, <1>5 DEF AtLeaf
  <2>3. CursorOnPath'
    BY <1>3, <1>5, <2>1, <2>2, FromRootOK
  <2>4. node' = root /\ parent' = NoPage /\ pos' = 0 /\ skey' = next
    BY <2>1 DEF FromRoot
  <2>5. SplitPageAhead'
    BY <2>1, <2>2, <2>4 DEF SplitPageAhead
  <2>6. LocalType'
    BY <1>1, <1>4, <2>1, <2>4 DEF LocalType
  <2>7. TypeOK'
    BY <1>1, <1>3, <2>6 DEF TypeOK, PageType, Page, LocalType, AnswerType
  <2> QED BY <1>3, <2>3, <2>5, <2>7 DEF IInv
<1> QED BY <1>6, <1>7, <1>8

LEMMA ScanUpOK ==
    ASSUME IInv, ScanUp
    PROVE  IInv'
<1> DEFINE n == page[node]
<1>1. ScanLeaf("scan", Upwards(n), n.upper, Successor(n.upper))
  BY DEF ScanUp
<1>2. AtLeaf("scan")
  BY <1>1 DEF ScanLeaf
<1>3. /\ n \in Page /\ n.slot \in Seq(LeafSlot) /\ Count(n) \in Nat
      /\ LowerBound(n, skey) \in 1 .. Count(n) + 1
  BY <1>2, AtLeafFacts
<1>4. Upwards(n) \in Seq(LeafSlot)
  <2> DEFINE f == IF skey = op.key THEN LowerBound(n, skey) ELSE 1
  <2>1. Upwards(n) = SubSeq(n.slot, f, Count(n)) /\ Count(n) = Len(n.slot)
    BY DEF Upwards, Count
  <2>2. f \in 1 .. Len(n.slot) + 1 /\ Len(n.slot) \in f - 1 .. Len(n.slot)
    BY <1>3, <2>1
  <2> HIDE DEF f
  <2> QED BY <1>3, <2>1, <2>2, SubSeqProperties
<1>5. Successor(n.upper) \in Bytes
  <2>1. n.upper \in Seq(Byte) /\ 0 \in Byte
    BY <1>3, PageFacts, MaxByteAssumption DEF Bytes, Byte
  <2> QED BY <2>1 DEF Successor, Bytes
<1> HIDE DEF n
<1> QED BY <1>1, <1>4, <1>5, ScanLeafOK

LEMMA ScanDownOK ==
    ASSUME IInv, ScanDown
    PROVE  IInv'
<1> DEFINE n == page[node]
<1>1. ScanLeaf("scandesc", Downwards(n), n.lower, n.lower)
  BY DEF ScanDown
<1>2. AtLeaf("scandesc")
  BY <1>1 DEF ScanLeaf
<1>3. /\ n \in Page /\ n.slot \in Seq(LeafSlot) /\ Count(n) \in Nat
      /\ LowerBound(n, skey) \in 1 .. Count(n) + 1
  BY <1>2, AtLeafFacts
<1>4. Downwards(n) \in Seq(LeafSlot)
  <2> DEFINE i == LowerBound(n, skey)
             last == IF FoundAt(n, skey, i) THEN i ELSE i - 1
             t == SubSeq(n.slot, 1, last)
  <2>1. Downwards(n) = Reverse(t) /\ Count(n) = Len(n.slot)
    BY DEF Downwards, Count
  <2>2. last \in 0 .. Len(n.slot)
    BY <1>3, <2>1 DEF FoundAt
  <2> HIDE DEF last
  <2>3. 1 \in 1 .. Len(n.slot) + 1 /\ last \in 1 - 1 .. Len(n.slot)
    BY <1>3, <2>1, <2>2
  <2>4. t \in Seq(LeafSlot) /\ Len(t) \in Nat
    BY <1>3, <2>3, SubSeqProperties, LenProperties
  <2> HIDE DEF t
  <2>5. \A j \in 1 .. Len(t) : t[(Len(t) - j) + 1] \in LeafSlot
    <3> TAKE j \in 1 .. Len(t)
    <3>1. (Len(t) - j) + 1 \in 1 .. Len(t)
      BY <2>4
    <3> QED BY <2>4, <3>1, ElementOfSeq
  <2>6. Reverse(t) \in Seq(LeafSlot)
    BY <2>4, <2>5, IsASeq DEF Reverse
  <2> QED BY <2>1, <2>6
<1>5. n.lower \in Bytes
  BY <1>3, PageFacts
<1> HIDE DEF n
<1> QED BY <1>1, <1>4, <1>5, ScanLeafOK

LEMMA InitOK == Init => IInv
<1> SUFFICES ASSUME Init PROVE IInv
  OBVIOUS
<1>1. root \in PageId /\ page = [p \in {root} |-> EmptyLeaf]
  BY BTreeAssumption DEF Init
<1>2. PageType /\ TreeOK
  BY <1>1, InitialTree
<1>3. LocalType
  <2>1. << >> \in Bytes /\ << >> \in Seq(LeafSlot) /\ NoAnswer \in AnswerType
    BY DEF Bytes, NoAnswer, Answer, AnswerType
  <2> QED BY <2>1 DEF Init, LocalType, OpsAndNoOp
<1>4. CursorOnPath /\ SplitPageAhead
  BY DEF Init, CursorOnPath, SplitPageAhead, Walking
<1> QED BY <1>1, <1>2, <1>3, <1>4, TypeParts DEF IInv

LEMMA NextOK == IInv /\ [Next]_vars => IInv'
<1> SUFFICES ASSUME IInv, [Next]_vars PROVE IInv'
  OBVIOUS
<1>1. ASSUME NEW o \in Ops, Call(o) PROVE IInv'
  BY <1>1, CallOK
<1>2. CASE Clear
  BY <1>2, ClearOK
<1>3. CASE Descend
  BY <1>3, StepDownOK DEF Descend
<1>4. CASE LeafLookup
  BY <1>4, LookupOK
<1>5. CASE LeafInsert
  BY <1>5, InsertOK
<1>6. CASE LeafInsertFound
  BY <1>6, DieOK DEF LeafInsertFound
<1>7. CASE LeafInsertFull
  BY <1>7, InsertFullOK DEF LeafInsertFull
<1>8. CASE MakeRoot
  BY <1>8, MakeRootOK
<1>9. CASE SplitNode
  BY <1>9, SplitNodeOK
<1>10. CASE SplitDies
  BY <1>10, DieOK DEF SplitDies
<1>11. CASE EnsureSpace
  BY <1>11, EnsureSpaceOK DEF EnsureSpace
<1>12. CASE EnsureStep
  BY <1>12, StepDownOK DEF EnsureStep
<1>13. CASE EnsureFound
  BY <1>13, EnsureFoundOK
<1>14. CASE RemoveMiss \/ RemoveOnly \/ RemoveAndMerge
  BY <1>14, RemoveOK
<1>15. CASE ScanUp
  BY <1>15, ScanUpOK
<1>16. CASE ScanDown
  BY <1>16, ScanDownOK
<1>17. CASE UNCHANGED vars
  <2>1. /\ UNCHANGED <<root, page, pc, op, node, parent, pos, skey, toSplit, out, res>>
    BY <1>17 DEF vars
  <2>2. Pages' = Pages /\ Inners' = Inners /\ Leaves' = Leaves
    BY <2>1 DEF Pages, Inners, Leaves
  <2>3. PageType' /\ TreeOK'
    BY <2>1, TreeUnchanged, TypeParts DEF IInv, tree
  <2>4. TypeOK'
    BY <2>1, <2>2 DEF IInv, TypeOK
  <2>5. CursorOnPath'
    BY <2>1, <2>2 DEF IInv, CursorOnPath, Walking
  <2>6. SplitPageAhead'
    <3>1. \A a, b : Leads(a, b)' <=> Leads(a, b)
      BY <2>1, <2>2 DEF Leads, NextPage
    <3> QED BY <2>1, <2>2, <3>1 DEF IInv, SplitPageAhead, Walking
  <2> QED BY <2>3, <2>4, <2>5, <2>6 DEF IInv
<1> QED BY <1>1, <1>2, <1>3, <1>4, <1>5, <1>6, <1>7, <1>8, <1>9, <1>10, <1>11, <1>12,
           <1>13, <1>14, <1>15, <1>16, <1>17 DEF Next, Step

(***************************************************************************)
(* The theorems.                                                           *)
(***************************************************************************)
(* The conjunction that the steps preserve holds in every state, whatever  *)
(* the keys, payload sizes and page sizes are.                             *)
THEOREM InductiveInvariant == Spec => []IInv
<1>1. Init => IInv
  BY InitOK
<1>2. IInv /\ [Next]_vars => IInv'
  BY NextOK
<1> QED BY <1>1, <1>2, PTL DEF Spec

(* Type correctness: splits hand out pages and slots of the right kind,    *)
(* and an operation's cursor, key and answer stay within their types.      *)
THEOREM TypeCorrect == Spec => []TypeOK
<1>1. IInv => TypeOK
  BY DEF IInv
<1> QED BY <1>1, InductiveInvariant, PTL

(* Every page stays searchable by lowerBound: findSeparator, splitNode and *)
(* mergeNodes never leave a key outside its page's fences or out of order. *)
THEOREM PagesSearchable == Spec => []KeysInFences
<1>1. IInv => KeysInFences
  BY DEF IInv, TreeOK
<1> QED BY <1>1, InductiveInvariant, PTL

(* Parents and children always agree on the fences between them; this is   *)
(* what validate_child_fences looks for.                                   *)
THEOREM FencesAgree == Spec => []ChildFences
<1>1. IInv => ChildFences
  BY DEF IInv, TreeOK
<1> QED BY <1>1, InductiveInvariant, PTL

(* The pages form a tree: no page is reached through two pointers, so      *)
(* splitNode, and dealloc after mergeNodes, touch no page in use elsewhere.*)
THEOREM PagesFormTree == Spec => []OneParent
<1>1. IInv => OneParent
  BY DEF IInv, TreeOK
<1> QED BY <1>1, InductiveInvariant, PTL

(* A key has at most one leaf, so it is never stored twice.                *)
THEOREM OneLeafPerKey == Spec => []LeavesDisjoint
<1>1. IInv => LeavesDisjoint
  BY BTreeAssumption DEF IInv, TreeOK, LeavesApart, LeavesDisjoint
<1> QED BY <1>1, InductiveInvariant, PTL

(* Every descent, ensureSpace's second one included, stays on the path of  *)
(* its key and knows the parent of the page it has reached.                *)
THEOREM DescentOnPath == Spec => []CursorOnPath
<1>1. IInv => CursorOnPath
  BY DEF IInv
<1> QED BY <1>1, InductiveInvariant, PTL

(* ensureSpace never misses the page it is to split.                       *)
THEOREM EnsureSpaceArrives == Spec => []SplitPageAhead
<1>1. IInv => SplitPageAhead
  BY DEF IInv
<1> QED BY <1>1, InductiveInvariant, PTL

(* lowerBound may skip the page's prefix in the key it is asked for: the   *)
(* key always begins with it, on every page a descent visits.              *)
THEOREM PrefixMayBeSkipped == Spec => []SearchSharesPrefix
<1>1. IInv => SearchSharesPrefix
  <2> SUFFICES ASSUME IInv, Walking
               PROVE  SharePrefix(skey, page[node].lower, PrefixLen(page[node]))
    BY DEF SearchSharesPrefix
  <2> DEFINE a == page[node].lower
             b == page[node].upper
             n == PrefixLen(page[node])
  <2>1. /\ node \in Pages /\ InFences(skey, a, b)
    BY DEF IInv, CursorOnPath
  <2>2. page[node] \in Page /\ skey \in Bytes
    BY <2>1, TypeParts DEF IInv, PageType, LocalType
  <2>3. a \in Bytes /\ b \in Bytes
    BY <2>2, PageFacts
  <2>4. n \in 0 .. Len(a) /\ SharePrefix(a, b, n) /\ Len(a) \in Nat /\ Len(skey) \in Nat
    BY <2>2, <2>3, CommonPrefixProperties, BytesType DEF PrefixLen
  <2> HIDE DEF n, a, b
  <2>5. CASE a = << >> \/ b = << >>
    <3>1. n = 0
      BY <2>4, <2>5 DEF SharePrefix
    <3> QED BY <2>4, <3>1 DEF SharePrefix, a, n
  <2>6. CASE a # << >> /\ b # << >>
    <3>1. Less(a, skey) /\ Leq(skey, b)
      BY <2>1, <2>6 DEF InFences, AboveFence, BelowFence
    <3>2. SharePrefix(skey, a, n)
      BY <2>2, <2>3, <2>4, <3>1, BetweenSharesPrefix
    <3> QED BY <3>2 DEF a, n
  <2> QED BY <2>5, <2>6
<1> QED BY <1>1, InductiveInvariant, PTL

=============================================================================
