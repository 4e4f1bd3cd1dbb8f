----------------------------- MODULE BTreeSpace -----------------------------
(***************************************************************************)
(* The pages of the B-tree as memory: none holds more bytes than it has,   *)
(* and none is lost.                                                       *)
(***************************************************************************)
EXTENDS BTreeProofs

(***************************************************************************)
(* Running sums.                                                           *)
(***************************************************************************)
(* g[i] is the sum of f[1] to f[i].                                        *)
SumOf(g, f, c) ==
    /\ g \in [0 .. c -> Int]
    /\ g[0] = 0
    /\ \A i \in 1 .. c : g[i] = g[i - 1] + f[i]

LEMMA SumExists ==
    ASSUME NEW c \in Nat, NEW f \in [1 .. c -> Int]
    PROVE  \E g : SumOf(g, f, c)
<1> DEFINE T == {m \in 0 .. c : \E g : SumOf(g, f, m)}
<1>1. 0 \in T
  <2>1. SumOf([i \in 0 .. 0 |-> 0], f, 0)
    BY DEF SumOf
  <2> QED BY <2>1
<1>2. ASSUME NEW m \in 1 .. c, m - 1 \in T
      PROVE  m \in T
  <2>1. PICK g : SumOf(g, f, m - 1)
    BY <1>2
  <2> DEFINE h == [i \in 0 .. m |-> IF i = m THEN g[m - 1] + f[m] ELSE g[i]]
  <2>2. m - 1 \in 0 .. (m - 1) /\ m \in 0 .. m /\ 0 \in 0 .. m /\ 0 # m
    OBVIOUS
  <2>3. \A i \in 0 .. m : i # m => i \in 0 .. (m - 1) /\ h[i] = g[i] /\ g[i] \in Int
    <3> TAKE i \in 0 .. m
    <3> HAVE i # m
    <3>1. i \in 0 .. (m - 1)
      OBVIOUS
    <3> QED BY <2>1, <3>1 DEF SumOf
  <2>4. h[m] = g[m - 1] + f[m] /\ h[m] \in Int
    BY <2>1, <2>2 DEF SumOf
  <2>5. h \in [0 .. m -> Int]
    BY <2>3, <2>4
  <2>6. h[0] = 0
    BY <2>1, <2>2, <2>3 DEF SumOf
  <2>7. \A i \in 1 .. m : h[i] = h[i - 1] + f[i]
    <3> TAKE i \in 1 .. m
    <3>1. i - 1 \in 0 .. m /\ i - 1 # m /\ i \in 0 .. m
      OBVIOUS
    <3>2. h[i - 1] = g[i - 1]
      BY <2>3, <3>1
    <3> HIDE DEF h
    <3>3. CASE i = m
      BY <2>4, <3>2, <3>3
    <3>4. CASE i # m
      <4>1. i \in 1 .. (m - 1)
        BY <3>4
      <4> QED BY <2>1, <2>3, <3>1, <3>2, <3>4, <4>1 DEF SumOf
    <3> QED BY <3>3, <3>4
  <2>8. SumOf(h, f, m)
    BY <2>5, <2>6, <2>7 DEF SumOf
  <2> QED BY <2>8
<1> HIDE DEF T
<1>3. 0 .. c \subseteq T
  BY <1>1, <1>2, UpTo
<1>4. c \in T
  BY <1>3
<1> QED BY <1>4 DEF T

(***************************************************************************)
(* The bytes of a page.                                                    *)
(***************************************************************************)
LEMMA PrefixLenNat ==
    ASSUME NEW n \in Page
    PROVE  PrefixLen(n) \in 0 .. Len(n.lower) /\ PrefixLen(n) \in Nat
<1>1. n.lower \in Bytes /\ n.upper \in Bytes /\ Len(n.lower) \in Nat
  BY PageFacts, BytesType
<1> QED BY <1>1, CommonPrefixProperties DEF PrefixLen

LEMMA EntryLenInt ==
    ASSUME NEW n \in Page, NEW i \in 1 .. Count(n)
    PROVE  EntryLen(n, n.slot[i]) \in Int
<1>1. /\ n.slot[i].key \in Bytes /\ Len(n.slot[i].key) \in Nat
      /\ n.slot[i] \in (IF IsLeaf(n) THEN LeafSlot ELSE InnerSlot)
  BY PageFacts, BytesType
<1>2. IsLeaf(n) => PayloadLen[n.slot[i].val] \in Nat
  BY <1>1, BTreeAssumption DEF LeafSlot
<1>3. PtrSize \in Nat
  BY BTreeAssumption
<1> QED BY <1>1, <1>2, <1>3, PrefixLenNat DEF EntryLen

LEMMA SlotBytesSum ==
    ASSUME NEW n \in Page
    PROVE  /\ \A i \in 0 .. Count(n) : SlotBytes(n)[i] \in Int
           /\ SlotBytes(n)[0] = 0
           /\ \A i \in 1 .. Count(n) :
                 SlotBytes(n)[i] = SlotBytes(n)[i - 1] + EntryLen(n, n.slot[i])
<1> DEFINE c == Count(n)
           f == [i \in 1 .. c |-> EntryLen(n, n.slot[i])]
           sum == SlotBytes(n)
<1>1. c \in Nat
  BY PageFacts
<1>2. f \in [1 .. c -> Int]
  BY EntryLenInt
<1>3. PICK g : SumOf(g, f, c)
  <2> HIDE DEF c, f
  <2> QED BY <1>1, <1>2, SumExists
<1>4. g = [i \in 0 .. c |-> IF i = 0 THEN 0 ELSE g[i - 1] + EntryLen(n, n.slot[i])]
  BY <1>1, <1>3 DEF SumOf
<1>5. sum = [i \in 0 .. c |-> IF i = 0 THEN 0 ELSE sum[i - 1] + EntryLen(n, n.slot[i])]
  BY <1>4 DEF SlotBytes
<1> HIDE DEF sum, c
<1>6. sum[0] = 0 /\ \A i \in 1 .. c : sum[i] = sum[i - 1] + EntryLen(n, n.slot[i])
  BY <1>1, <1>5
<1> DEFINE T == {i \in 0 .. c : sum[i] \in Int}
<1>7. 0 .. c \subseteq T
  <2>1. 0 \in T
    BY <1>1, <1>6
  <2>2. \A i \in 1 .. c : EntryLen(n, n.slot[i]) \in Int
    BY EntryLenInt DEF c
  <2>3. \A i \in 1 .. c : i - 1 \in T => i \in T
    BY <1>6, <2>2
  <2> HIDE DEF T
  <2> QED BY <1>1, <2>1, <2>3, UpTo
<1> QED BY <1>6, <1>7 DEF sum, c

(* A key of a page is at least as long as the page's prefix.               *)
LEMMA EntryLenNat ==
    ASSUME NEW n \in Page, PageOK(n), NEW i \in 1 .. Count(n)
    PROVE  EntryLen(n, n.slot[i]) >= 0
<1> DEFINE a == n.lower
           b == n.upper
           k == n.slot[i].key
           c == PrefixLen(n)
<1>1. /\ a \in Bytes /\ b \in Bytes /\ k \in Bytes /\ InFences(k, a, b)
      /\ Len(a) \in Nat /\ Len(k) \in Nat
      /\ n.slot[i] \in (IF IsLeaf(n) THEN LeafSlot ELSE InnerSlot)
  BY PageFacts, BytesType DEF PageOK
<1>2. c \in 0 .. Len(a) /\ c \in Nat /\ SharePrefix(a, b, c)
  BY <1>1, PrefixLenNat, CommonPrefixProperties DEF PrefixLen
<1> HIDE DEF a, b, k, c
<1>3. c <= Len(k)
  <2>1. CASE a = << >> \/ b = << >>
    <3>1. c = 0
      BY <1>2, <2>1 DEF SharePrefix
    <3> QED BY <1>1, <3>1
  <2>2. CASE a # << >> /\ b # << >>
    <3>1. Less(a, k) /\ Leq(k, b)
      BY <1>1, <2>2 DEF InFences, AboveFence, BelowFence
    <3>2. SharePrefix(k, a, c)
      BY <1>1, <1>2, <3>1, BetweenSharesPrefix
    <3> QED BY <3>2 DEF SharePrefix
  <2> QED BY <2>1, <2>2
<1>4. IsLeaf(n) => PayloadLen[n.slot[i].val] \in Nat
  BY <1>1, BTreeAssumption DEF LeafSlot
<1>5. PtrSize \in Nat
  BY BTreeAssumption
<1> QED BY <1>1, <1>2, <1>3, <1>4, <1>5 DEF EntryLen, k, c

LEMMA InsertedSlots ==
    ASSUME NEW n \in Page, NEW i \in 1 .. Count(n) + 1, NEW k, NEW v,
           [key |-> k, val |-> v] \in SlotType(n), NEW m, m = InsertSlot(n, i, k, v)
    PROVE  /\ m \in Page /\ (IsLeaf(m) <=> IsLeaf(n)) /\ m.lower = n.lower /\ m.upper = n.upper
           /\ Count(m) = Count(n) + 1
           /\ \A j \in 1 .. (i - 1) : m.slot[j] = n.slot[j]
           /\ m.slot[i] = [key |-> k, val |-> v]
           /\ \A j \in (i + 1) .. (Count(n) + 1) : m.slot[j] = n.slot[j - 1]
<1> DEFINE e == [key |-> k, val |-> v]
           q == n.slot
           X == SlotType(n)
           s == InsertAt(q, i, e)
<1>1. q \in Seq(X) /\ Count(n) \in Nat /\ Count(n) = Len(q) /\ e \in X /\ i \in 1 .. Len(q) + 1
  BY PageFacts DEF Count, SlotType
<1>2. m = [n EXCEPT !.slot = s]
  BY DEF InsertSlot
<1> HIDE DEF e, q, X
<1>3. /\ s \in Seq(X) /\ Len(s) = Len(q) + 1
      /\ \A j \in 1 .. (i - 1) : s[j] = q[j]
      /\ s[i] = e
      /\ \A j \in (i + 1) .. (Len(q) + 1) : s[j] = q[j - 1]
  <2>1. e \in X /\ q \in Seq(X) /\ i \in 1 .. Len(q) + 1
    BY <1>1
  <2> QED BY ONLY <2>1, InsertAtProperties
<1> HIDE DEF s
<1>4. /\ m \in Page /\ m.slot = s /\ m.lower = n.lower /\ m.upper = n.upper
      /\ IsLeaf(m) <=> IsLeaf(n)
  BY <1>2, <1>3, WithSlots DEF X
<1>5. Count(m) = Count(n) + 1
  BY <1>1, <1>3, <1>4 DEF Count
<1> QED BY <1>1, <1>3, <1>4, <1>5 DEF q, e

LEMMA RemovedSlots ==
    ASSUME NEW n \in Page, NEW i \in 1 .. Count(n), NEW m, m = RemoveSlot(n, i)
    PROVE  /\ m \in Page /\ (IsLeaf(m) <=> IsLeaf(n)) /\ m.lower = n.lower /\ m.upper = n.upper
           /\ Count(m) = Count(n) - 1
           /\ \A j \in 1 .. (i - 1) : m.slot[j] = n.slot[j]
           /\ \A j \in i .. (Count(n) - 1) : m.slot[j] = n.slot[j + 1]
<1> DEFINE q == n.slot
           X == SlotType(n)
           s == RemoveAt(q, i)
<1>1. q \in Seq(X) /\ Count(n) \in Nat /\ Count(n) = Len(q) /\ i \in 1 .. Len(q)
  BY PageFacts DEF Count, SlotType
<1>2. m = [n EXCEPT !.slot = s]
  BY DEF RemoveSlot
<1> HIDE DEF q, X
<1>3. /\ s \in Seq(X) /\ Len(s) = Len(q) - 1
      /\ \A j \in 1 .. (i - 1) : s[j] = q[j]
      /\ \A j \in i .. (Len(q) - 1) : s[j] = q[j + 1]
  BY ONLY <1>1, RemoveAtProperties
<1> HIDE DEF s
<1>4. /\ m \in Page /\ m.slot = s /\ m.lower = n.lower /\ m.upper = n.upper
      /\ IsLeaf(m) <=> IsLeaf(n)
  BY <1>2, <1>3, WithSlots DEF X
<1>5. Count(m) = Count(n) - 1
  BY <1>1, <1>3, <1>4 DEF Count
<1> QED BY <1>1, <1>3, <1>4, <1>5 DEF q

(* Pages with the same fences and of the same kind account alike.          *)
LEMMA SameEntryLen ==
    ASSUME NEW n, NEW m, m.lower = n.lower, m.upper = n.upper, IsLeaf(m) <=> IsLeaf(n)
    PROVE  /\ \A s : EntryLen(m, s) = EntryLen(n, s)
           /\ PageSize(m) = PageSize(n)
<1>1. IsLeaf(m) = IsLeaf(n)
  BY DEF IsLeaf
<1> QED BY <1>1 DEF EntryLen, PrefixLen, PageSize

LEMMA InsertUses ==
    ASSUME NEW n \in Page, NEW i \in 1 .. Count(n) + 1, NEW k, NEW v,
           [key |-> k, val |-> v] \in SlotType(n), NEW m, m = InsertSlot(n, i, k, v)
    PROVE  /\ SlotBytes(m)[Count(m)] = SlotBytes(n)[Count(n)] + EntryLen(n, [key |-> k, val |-> v])
           /\ EntryLen(n, [key |-> k, val |-> v]) \in Int
<1> DEFINE c == Count(n)
           e == [key |-> k, val |-> v]
           x == EntryLen(n, e)
           f == SlotBytes(n)
           g == SlotBytes(m)
<1>1. /\ m \in Page /\ (IsLeaf(m) <=> IsLeaf(n)) /\ m.lower = n.lower /\ m.upper = n.upper
      /\ Count(m) = c + 1
      /\ \A j \in 1 .. (i - 1) : m.slot[j] = n.slot[j]
      /\ m.slot[i] = e
      /\ \A j \in (i + 1) .. (c + 1) : m.slot[j] = n.slot[j - 1]
  BY InsertedSlots
<1>2. c \in Nat /\ i \in 1 .. c + 1
  BY PageFacts
<1>3. /\ \A j \in 0 .. c : f[j] \in Int
      /\ f[0] = 0
      /\ \A j \in 1 .. c : f[j] = f[j - 1] + EntryLen(n, n.slot[j])
  BY SlotBytesSum
<1>4. /\ \A j \in 0 .. c + 1 : g[j] \in Int
      /\ g[0] = 0
      /\ \A j \in 1 .. c + 1 : g[j] = g[j - 1] + EntryLen(m, m.slot[j])
  BY <1>1, SlotBytesSum
<1>5. \A s : EntryLen(m, s) = EntryLen(n, s)
  BY <1>1, SameEntryLen
<1>6. x \in Int
  BY <1>1, <1>2, <1>5, EntryLenInt
<1> HIDE DEF f, g, c, x, e
<1> DEFINE T == {j \in 0 .. c + 1 : /\ j < i => g[j] = f[j]
                                    /\ j >= i => g[j] = f[j - 1] + x}
<1>7. 0 \in T
  BY <1>2, <1>3, <1>4
<1>8. ASSUME NEW j \in 1 .. c + 1, j - 1 \in T
      PROVE  j \in T
  <2>1. g[j] = g[j - 1] + EntryLen(n, m.slot[j])
    BY <1>4, <1>5
  <2>2. CASE j < i
    <3>1. j \in 1 .. c /\ m.slot[j] = n.slot[j] /\ g[j - 1] = f[j - 1]
      BY <1>1, <1>2, <1>8, <2>2
    <3> QED BY <1>2, <1>3, <2>1, <2>2, <3>1
  <2>3. CASE j = i
    <3>1. g[j - 1] = f[j - 1] /\ EntryLen(n, m.slot[j]) = x
      BY <1>1, <1>2, <1>8, <2>3 DEF x
    <3> QED BY <1>2, <2>1, <2>3, <3>1
  <2>4. CASE j > i
    <3>1. j - 1 \in 1 .. c /\ m.slot[j] = n.slot[j - 1] /\ g[j - 1] = f[(j - 1) - 1] + x
      BY <1>1, <1>2, <1>8, <2>4
    <3>2. f[j - 1] = f[(j - 1) - 1] + EntryLen(n, n.slot[j - 1])
      BY <1>3, <3>1
    <3>3. f[j - 1] \in Int /\ f[(j - 1) - 1] \in Int /\ g[j - 1] \in Int /\ g[j] \in Int
      <4>1. j - 1 \in 0 .. c /\ (j - 1) - 1 \in 0 .. c /\ j - 1 \in 0 .. c + 1 /\ j \in 0 .. c + 1
        BY <1>2, <3>1
      <4> QED BY <1>3, <1>4, <4>1
    <3>4. EntryLen(n, n.slot[j - 1]) \in Int
      BY <3>1, EntryLenInt DEF c
    <3>5. g[j] = f[j - 1] + x
      BY <1>6, <2>1, <3>1, <3>2, <3>3, <3>4
    <3> QED BY <1>2, <2>4, <3>5
  <2> QED BY <1>2, <2>2, <2>3, <2>4
<1> HIDE DEF T
<1>9. 0 .. c + 1 \subseteq T
  <2>1. c + 1 \in Nat
    BY <1>2
  <2> QED BY <1>7, <1>8, <2>1, UpTo
<1>10. g[c + 1] = f[c] + x
  <2>1. c + 1 \in T /\ c + 1 >= i /\ (c + 1) - 1 = c
    BY <1>2, <1>9
  <2> QED BY <2>1 DEF T
<1> QED BY <1>1, <1>6, <1>10 DEF f, g, c, x, e

LEMMA RemoveUses ==
    ASSUME NEW n \in Page, NEW i \in 1 .. Count(n), NEW m, m = RemoveSlot(n, i)
    PROVE  SlotBytes(m)[Count(m)] = SlotBytes(n)[Count(n)] - EntryLen(n, n.slot[i])
<1> DEFINE c == Count(n)
           x == EntryLen(n, n.slot[i])
           f == SlotBytes(n)
           g == SlotBytes(m)
<1>1. /\ m \in Page /\ (IsLeaf(m) <=> IsLeaf(n)) /\ m.lower = n.lower /\ m.upper = n.upper
      /\ Count(m) = c - 1
      /\ \A j \in 1 .. (i - 1) : m.slot[j] = n.slot[j]
      /\ \A j \in i .. (c - 1) : m.slot[j] = n.slot[j + 1]
  BY RemovedSlots
<1>2. c \in Nat /\ i \in 1 .. c
  BY PageFacts
<1>3. /\ \A j \in 0 .. c : f[j] \in Int
      /\ f[0] = 0
      /\ \A j \in 1 .. c : f[j] = f[j - 1] + EntryLen(n, n.slot[j])
  BY SlotBytesSum
<1>4. /\ \A j \in 0 .. c - 1 : g[j] \in Int
      /\ g[0] = 0
      /\ \A j \in 1 .. c - 1 : g[j] = g[j - 1] + EntryLen(m, m.slot[j])
  BY <1>1, SlotBytesSum
<1>5. \A s : EntryLen(m, s) = EntryLen(n, s)
  BY <1>1, SameEntryLen
<1>6. x \in Int
  BY EntryLenInt
<1>7. f[i] = f[i - 1] + x /\ f[i - 1] \in Int /\ f[i] \in Int
  BY <1>2, <1>3
<1> HIDE DEF f, g, c, x
<1> DEFINE T == {j \in 0 .. c - 1 : /\ j < i => g[j] = f[j]
                                    /\ j >= i - 1 => g[j] = f[j + 1] - x}
<1>8. 0 \in T
  <2>1. 0 >= i - 1 => i = 0 + 1 /\ i - 1 = 0
    BY <1>2
  <2>2. 0 >= i - 1 => g[0] = f[0 + 1] - x
    BY <1>3, <1>4, <1>6, <1>7, <2>1
  <2> QED BY <1>2, <1>3, <1>4, <2>2
<1>9. ASSUME NEW j \in 1 .. c - 1, j - 1 \in T
      PROVE  j \in T
  <2>1. /\ g[j] = g[j - 1] + EntryLen(n, m.slot[j])
        /\ g[j] \in Int /\ g[j - 1] \in Int
        /\ j \in 1 .. c /\ j + 1 \in 1 .. c /\ (j + 1) - 1 = j
    BY <1>2, <1>4, <1>5
  <2>2. j < i => g[j] = f[j]
    <3> HAVE j < i
    <3>1. m.slot[j] = n.slot[j] /\ g[j - 1] = f[j - 1]
      BY <1>1, <1>2, <1>9
    <3> QED BY <1>2, <1>3, <2>1, <3>1
  <2>3. CASE j = i - 1
    <3>1. g[j] = f[i - 1] /\ j + 1 = i
      BY <1>2, <2>2, <2>3
    <3>2. g[j] = f[j + 1] - x
      BY <1>6, <1>7, <3>1
    <3> QED BY <1>2, <2>2, <3>2
  <2>4. CASE j >= i
    <3>1. m.slot[j] = n.slot[j + 1] /\ g[j - 1] = f[(j - 1) + 1] - x /\ (j - 1) + 1 = j
      BY <1>1, <1>2, <1>9, <2>4
    <3>2. f[j + 1] = f[j] + EntryLen(n, n.slot[j + 1])
      BY <1>3, <2>1
    <3>3. f[j] \in Int /\ f[j + 1] \in Int /\ EntryLen(n, n.slot[j + 1]) \in Int
      BY <1>3, <2>1, EntryLenInt DEF c
    <3>4. g[j] = f[j + 1] - x
      BY <1>6, <2>1, <3>1, <3>2, <3>3
    <3> QED BY <1>2, <2>2, <3>4
  <2>5. CASE j < i - 1
    BY <1>2, <2>2, <2>5
  <2> QED BY <1>2, <2>3, <2>4, <2>5
<1> HIDE DEF T
<1>10. 0 .. c - 1 \subseteq T
  <2>1. c - 1 \in Nat
    BY <1>2
  <2> QED BY <1>8, <1>9, <2>1, UpTo
<1>11. g[c - 1] = f[c] - x
  <2>1. c - 1 \in T /\ c - 1 >= i - 1 /\ (c - 1) + 1 = c
    BY <1>2, <1>10
  <2> QED BY <2>1 DEF T
<1> QED BY <1>1, <1>11 DEF f, g, c, x

LEMMA OneMoreTime ==
    ASSUME NEW d \in Int, NEW j \in Int
    PROVE  /\ d * j \in Int /\ d * (j - 1) \in Int
           /\ d * j = d * (j - 1) + d
           /\ d * 0 = 0
OBVIOUS

(* What a record takes up in the merged page, whose prefix is another one. *)
LEMMA OtherPrefix ==
    ASSUME NEW n \in Page, IsLeaf(n), NEW w \in Page, IsLeaf(w), NEW i \in 1 .. Count(n)
    PROVE  EntryLen(w, n.slot[i]) = EntryLen(n, n.slot[i]) + (PrefixLen(n) - PrefixLen(w))
<1>1. /\ n.slot[i] \in LeafSlot /\ n.slot[i].key \in Bytes
      /\ Len(n.slot[i].key) \in Nat
  BY PageFacts, BytesType
<1>2. PayloadLen[n.slot[i].val] \in Nat
  BY <1>1, BTreeAssumption DEF LeafSlot
<1>3. PrefixLen(n) \in Nat /\ PrefixLen(w) \in Nat
  BY PrefixLenNat
<1> QED BY <1>1, <1>2, <1>3 DEF EntryLen

LEMMA MergedSlots ==
    ASSUME NEW l \in Page, NEW r \in Page, IsLeaf(l), IsLeaf(r), NEW w, w = Merged(l, r)
    PROVE  /\ w \in Page /\ IsLeaf(w) /\ w.lower = l.lower /\ w.upper = r.upper
           /\ Count(w) = Count(l) + Count(r)
           /\ \A j \in 1 .. Count(l) : w.slot[j] = l.slot[j]
           /\ \A j \in 1 .. Count(r) : w.slot[Count(l) + j] = r.slot[j]
<1> DEFINE a == Count(l)
           b == Count(r)
           q == l.slot \o r.slot
<1>1. /\ a \in Nat /\ b \in Nat /\ l.lower \in Bytes /\ r.upper \in Bytes
      /\ l.slot \in Seq(LeafSlot) /\ r.slot \in Seq(LeafSlot)
      /\ a = Len(l.slot) /\ b = Len(r.slot)
  BY PageFacts DEF Count
<1> HIDE DEF a, b
<1>2. /\ q \in Seq(LeafSlot) /\ Len(q) = a + b
      /\ \A j \in 1 .. a + b : q[j] = IF j <= a THEN l.slot[j] ELSE r.slot[j - a]
  BY <1>1, ConcatProperties
<1>3. w = Leaf(l.lower, r.upper, q)
  BY DEF Merged
<1> HIDE DEF q
<1>4. w \in Page /\ IsLeaf(w) /\ w.lower = l.lower /\ w.upper = r.upper /\ w.slot = q
  BY <1>1, <1>2, <1>3, LeafFields
<1>0. a \in Nat /\ b \in Nat
  BY <1>1
<1>5. \A j \in 1 .. a : q[j] = l.slot[j]
  <2> TAKE j \in 1 .. a
  <2>1. j \in 1 .. a + b /\ j <= a
    BY <1>0
  <2> QED BY <1>2, <2>1
<1>6. \A j \in 1 .. b : q[a + j] = r.slot[j]
  <2> TAKE j \in 1 .. b
  <2>1. a + j \in 1 .. a + b /\ ~ (a + j <= a) /\ (a + j) - a = j
    BY <1>0
  <2> QED BY <1>2, <2>1
<1> QED BY <1>2, <1>4, <1>5, <1>6 DEF Count, a, b

LEMMA MergeUses ==
    ASSUME NEW l \in Page, NEW r \in Page, IsLeaf(l), IsLeaf(r), NEW w, w = Merged(l, r)
    PROVE  SlotBytes(w)[Count(w)] =
              SlotBytes(l)[Count(l)] + SlotBytes(r)[Count(r)]
                + (PrefixLen(l) - PrefixLen(w)) * Count(l)
                + (PrefixLen(r) - PrefixLen(w)) * Count(r)
<1> DEFINE a == Count(l)
           b == Count(r)
           d == PrefixLen(l) - PrefixLen(w)
           e == PrefixLen(r) - PrefixLen(w)
           f == SlotBytes(l)
           h == SlotBytes(r)
           g == SlotBytes(w)
<1>1. /\ w \in Page /\ IsLeaf(w) /\ Count(w) = a + b
      /\ \A j \in 1 .. a : w.slot[j] = l.slot[j]
      /\ \A j \in 1 .. b : w.slot[a + j] = r.slot[j]
  BY MergedSlots
<1>2. a \in Nat /\ b \in Nat /\ d \in Int /\ e \in Int
  BY <1>1, PageFacts, PrefixLenNat
<1>3. /\ \A j \in 0 .. a : f[j] \in Int
      /\ f[0] = 0
      /\ \A j \in 1 .. a : f[j] = f[j - 1] + EntryLen(l, l.slot[j])
  BY SlotBytesSum
<1>4. /\ \A j \in 0 .. b : h[j] \in Int
      /\ h[0] = 0
      /\ \A j \in 1 .. b : h[j] = h[j - 1] + EntryLen(r, r.slot[j])
  BY SlotBytesSum
<1>5. /\ \A j \in 0 .. a + b : g[j] \in Int
      /\ g[0] = 0
      /\ \A j \in 1 .. a + b : g[j] = g[j - 1] + EntryLen(w, w.slot[j])
  BY <1>1, SlotBytesSum
<1>6. \A j \in 1 .. a : /\ EntryLen(w, w.slot[j]) = EntryLen(l, l.slot[j]) + d
                        /\ EntryLen(l, l.slot[j]) \in Int
  BY <1>1, OtherPrefix, EntryLenInt
<1>7. \A j \in 1 .. b : /\ EntryLen(w, w.slot[a + j]) = EntryLen(r, r.slot[j]) + e
                        /\ EntryLen(r, r.slot[j]) \in Int
  BY <1>1, OtherPrefix, EntryLenInt
<1> HIDE DEF a, b, d, e, f, g, h
<1>8. g[a] = f[a] + d * a
  <2> DEFINE T == {j \in 0 .. a : g[j] = f[j] + d * j}
  <2>1. 0 \in T
    BY <1>2, <1>3, <1>5, OneMoreTime
  <2>2. ASSUME NEW j \in 1 .. a, j - 1 \in T
        PROVE  j \in T
    <3> DEFINE x == EntryLen(l, l.slot[j])
               y == d * j
               z == d * (j - 1)
    <3>1. j - 1 \in 0 .. a /\ j \in 1 .. a + b
      BY <1>2
    <3>2. g[j - 1] = f[j - 1] + z
      BY <2>2
    <3>3. g[j] = g[j - 1] + (x + d) /\ f[j] = f[j - 1] + x
      BY <1>3, <1>5, <1>6, <3>1
    <3>4. y = z + d /\ y \in Int /\ z \in Int
      BY <1>2, OneMoreTime
    <3>5. f[j - 1] \in Int /\ x \in Int
      BY <1>3, <1>6, <3>1
    <3> HIDE DEF x, y, z
    <3>6. g[j] = f[j] + y
      BY <1>2, <3>2, <3>3, <3>4, <3>5
    <3> QED BY <3>6 DEF y
  <2> HIDE DEF T
  <2>3. 0 .. a \subseteq T
    BY <1>2, <2>1, <2>2, UpTo
  <2>4. a \in T
    BY <1>2, <2>3
  <2> QED BY <2>4 DEF T
<1>9. g[a + b] = g[a] + h[b] + e * b
  <2> DEFINE T == {j \in 0 .. b : g[a + j] = g[a] + h[j] + e * j}
  <2>0. g[a] \in Int /\ a + 0 = a
    BY <1>2, <1>5
  <2>1. 0 \in T
    BY <1>2, <1>4, <2>0, OneMoreTime
  <2>2. ASSUME NEW j \in 1 .. b, j - 1 \in T
        PROVE  j \in T
    <3> DEFINE x == EntryLen(r, r.slot[j])
               y == e * j
               z == e * (j - 1)
    <3>1. j - 1 \in 0 .. b /\ a + j \in 1 .. a + b /\ (a + j) - 1 = a + (j - 1)
      BY <1>2
    <3>2. g[a + (j - 1)] = g[a] + h[j - 1] + z
      BY <2>2
    <3>3. g[a + j] = g[a + (j - 1)] + (x + e) /\ h[j] = h[j - 1] + x
      BY <1>4, <1>5, <1>7, <3>1
    <3>4. y = z + e /\ y \in Int /\ z \in Int
      BY <1>2, OneMoreTime
    <3>5. h[j - 1] \in Int /\ x \in Int
      BY <1>4, <1>7, <3>1
    <3> HIDE DEF x, y, z
    <3>6. g[a + j] = g[a] + h[j] + y
      BY <1>2, <2>0, <3>2, <3>3, <3>4, <3>5
    <3> QED BY <3>6 DEF y
  <2> HIDE DEF T
  <2>3. 0 .. b \subseteq T
    BY <1>2, <2>1, <2>2, UpTo
  <2>4. b \in T
    BY <1>2, <2>3
  <2> QED BY <2>4 DEF T
<1>10. f[a] \in Int /\ h[b] \in Int /\ d * a \in Int /\ e * b \in Int
  BY <1>2, <1>3, <1>4, OneMoreTime
<1>11. g[a + b] = f[a] + h[b] + d * a + e * b
  BY <1>8, <1>9, <1>10
<1> QED BY <1>1, <1>11 DEF a, b, d, e, f, g, h

(***************************************************************************)
(* What fits.                                                              *)
(***************************************************************************)
LEMMA SpaceNumbers ==
    ASSUME NEW n \in Page
    PROVE  /\ Len(n.lower) \in Nat /\ Len(n.upper) \in Nat /\ Count(n) \in Nat
           /\ SlotBytes(n)[Count(n)] \in Int
           /\ SpaceUsed(n) = Len(n.lower) + Len(n.upper) + SlotBytes(n)[Count(n)]
           /\ HeaderSize \in Nat /\ SlotSize \in Nat /\ PtrSize \in Nat
           /\ PageSize(n) \in Nat /\ PageSize(n) >= HeaderSize
           /\ SlotSize * Count(n) \in Nat
           /\ IsLeaf(n) => PageSize(n) = PageSizeLeaf
<1>1. Len(n.lower) \in Nat /\ Len(n.upper) \in Nat /\ Count(n) \in Nat
  BY PageFacts, BytesType
<1>2. SlotBytes(n)[Count(n)] \in Int
  BY <1>1, SlotBytesSum
<1>3. /\ HeaderSize \in Nat /\ SlotSize \in Nat /\ PtrSize \in Nat
      /\ PageSizeLeaf \in Nat /\ PageSizeInner \in Nat
      /\ HeaderSize <= PageSizeLeaf /\ HeaderSize <= PageSizeInner
  BY BTreeAssumption
<1>4. SlotSize * Count(n) \in Nat
  BY <1>1, <1>3
<1> QED BY <1>1, <1>2, <1>3, <1>4 DEF SpaceUsed, PageSize

(* BTreeNode::insert after a successful requestSpaceFor.                   *)
LEMMA InsertFits ==
    ASSUME NEW n \in Page, NEW i \in 1 .. Count(n) + 1, NEW k, k \in Bytes, NEW v, NEW len \in Nat,
           [key |-> k, val |-> v] \in SlotType(n), NEW m, m = InsertSlot(n, i, k, v),
           len = IF IsLeaf(n) THEN PayloadLen[v] ELSE PtrSize,
           RequestSpaceFor(n, k, len)
    PROVE  Fits(m)
<1> DEFINE e == [key |-> k, val |-> v]
           x == EntryLen(n, e)
           y == SlotSize * Count(n)
           z == SlotSize * Count(m)
<1>1. /\ m \in Page /\ (IsLeaf(m) <=> IsLeaf(n)) /\ m.lower = n.lower /\ m.upper = n.upper
      /\ Count(m) = Count(n) + 1
  BY InsertedSlots
<1>2. SlotBytes(m)[Count(m)] = SlotBytes(n)[Count(n)] + x /\ x \in Int
  BY InsertUses
<1>3. x = (Len(k) - PrefixLen(n)) + len
  <2>1. e.key = k /\ e.val = v
    OBVIOUS
  <2> HIDE DEF e
  <2> QED BY <2>1 DEF EntryLen
<1>4. PageSize(m) = PageSize(n)
  BY <1>1, SameEntryLen
<1>5. Count(n) \in Nat /\ SlotSize \in Nat
  BY SpaceNumbers
<1>6. z = y + SlotSize
  BY <1>1, <1>5
<1>7. Len(k) \in Nat /\ PrefixLen(n) \in Nat
  BY BytesType, PrefixLenNat
<1> HIDE DEF x, y, z
<1>8. SlotSize + x <= PageSize(n) - (HeaderSize + y) - SpaceUsed(n)
  BY <1>3, <1>5, <1>7 DEF RequestSpaceFor, SpaceNeeded, FreeSpaceAfterCompaction, y
<1>9. SpaceUsed(m) = SpaceUsed(n) + x /\ SpaceUsed(n) \in Int
  <2>1. /\ SpaceUsed(m) = Len(n.lower) + Len(n.upper) + SlotBytes(m)[Count(m)]
        /\ SpaceUsed(n) = Len(n.lower) + Len(n.upper) + SlotBytes(n)[Count(n)]
        /\ Len(n.lower) \in Nat /\ Len(n.upper) \in Nat /\ SlotBytes(n)[Count(n)] \in Int
    BY <1>1, SpaceNumbers
  <2> DEFINE f == SlotBytes(n)[Count(n)]
             g == SlotBytes(m)[Count(m)]
             a == Len(n.lower)
             b == Len(n.upper)
             s == SpaceUsed(n)
             t == SpaceUsed(m)
  <2>2. /\ t = a + b + g /\ s = a + b + f
        /\ a \in Nat /\ b \in Nat /\ f \in Int
        /\ g = f + x /\ x \in Int
    BY <1>2, <2>1
  <2> HIDE DEF f, g, a, b, s, t
  <2>3. t = s + x /\ s \in Int
    BY <2>2
  <2> QED BY <2>3 DEF s, t
<1>10. PageSize(n) \in Nat /\ HeaderSize \in Nat /\ y \in Nat
  BY SpaceNumbers DEF y
<1>11. PageSize(m) - (HeaderSize + z) - SpaceUsed(m) >= 0
  BY <1>2, <1>4, <1>5, <1>6, <1>8, <1>9, <1>10
<1> QED BY <1>11 DEF Fits, FreeSpaceAfterCompaction, z

LEMMA RemoveFits ==
    ASSUME NEW n \in Page, PageOK(n), Fits(n), NEW i \in 1 .. Count(n), NEW m, m = RemoveSlot(n, i)
    PROVE  Fits(m)
<1> DEFINE x == EntryLen(n, n.slot[i])
           y == SlotSize * Count(n)
           z == SlotSize * Count(m)
<1>1. /\ m \in Page /\ (IsLeaf(m) <=> IsLeaf(n)) /\ m.lower = n.lower /\ m.upper = n.upper
      /\ Count(m) = Count(n) - 1
  BY RemovedSlots
<1>2. SlotBytes(m)[Count(m)] = SlotBytes(n)[Count(n)] - x /\ x \in Int /\ x >= 0
  BY RemoveUses, EntryLenInt, EntryLenNat
<1>3. PageSize(m) = PageSize(n)
  BY <1>1, SameEntryLen
<1>4. Count(n) \in Nat /\ SlotSize \in Nat
  BY SpaceNumbers
<1>5. y = z + SlotSize
  BY <1>1, <1>4
<1> HIDE DEF x, y, z
<1>6. SpaceUsed(m) = SpaceUsed(n) - x /\ SpaceUsed(n) \in Int
  <2>1. /\ SpaceUsed(m) = Len(n.lower) + Len(n.upper) + SlotBytes(m)[Count(m)]
        /\ SpaceUsed(n) = Len(n.lower) + Len(n.upper) + SlotBytes(n)[Count(n)]
        /\ Len(n.lower) \in Nat /\ Len(n.upper) \in Nat /\ SlotBytes(n)[Count(n)] \in Int
    BY <1>1, SpaceNumbers
  <2> DEFINE f == SlotBytes(n)[Count(n)]
             g == SlotBytes(m)[Count(m)]
             a == Len(n.lower)
             b == Len(n.upper)
             s == SpaceUsed(n)
             t == SpaceUsed(m)
  <2>2. /\ t = a + b + g /\ s = a + b + f
        /\ a \in Nat /\ b \in Nat /\ f \in Int
        /\ g = f - x /\ x \in Int
    BY <1>2, <2>1
  <2> HIDE DEF f, g, a, b, s, t
  <2>3. t = s - x /\ s \in Int
    BY <2>2
  <2> QED BY <2>3 DEF s, t
<1>7. PageSize(n) \in Nat /\ HeaderSize \in Nat /\ y \in Nat /\ z \in Nat
  BY <1>1, SpaceNumbers DEF y, z
<1>8. PageSize(n) - (HeaderSize + y) - SpaceUsed(n) >= 0
  BY DEF Fits, FreeSpaceAfterCompaction, y
<1>9. PageSize(m) - (HeaderSize + z) - SpaceUsed(m) >= 0
  BY <1>2, <1>3, <1>4, <1>5, <1>6, <1>7, <1>8
<1> QED BY <1>9 DEF Fits, FreeSpaceAfterCompaction, z

(* mergeNodes checks a bound on the bytes of the merged page beforehand.   *)
LEMMA MergedFits ==
    ASSUME NEW l \in Page, NEW r \in Page, IsLeaf(l), IsLeaf(r), MergeFits(l, r),
           NEW w, w = Merged(l, r)
    PROVE  Fits(w)
<1> DEFINE d == (PrefixLen(l) - PrefixLen(w)) * Count(l)
           e == (PrefixLen(r) - PrefixLen(w)) * Count(r)
           z == SlotSize * Count(w)
<1>1. /\ w \in Page /\ IsLeaf(w) /\ w.lower = l.lower /\ w.upper = r.upper
      /\ Count(w) = Count(l) + Count(r)
  BY MergedSlots
<1>2. SlotBytes(w)[Count(w)] = SlotBytes(l)[Count(l)] + SlotBytes(r)[Count(r)] + d + e
  BY MergeUses
<1>3. SpaceUsed(l) + SpaceUsed(r) + HeaderSize + z + d + e <= PageSizeLeaf
  BY <1>1 DEF MergeFits
<1>4. d \in Int /\ e \in Int
  <2>1. /\ PrefixLen(l) - PrefixLen(w) \in Int /\ PrefixLen(r) - PrefixLen(w) \in Int
        /\ Count(l) \in Int /\ Count(r) \in Int
    BY <1>1, PrefixLenNat, PageFacts
  <2> QED BY <2>1, OneMoreTime
<1> HIDE DEF d, e, z
<1> DEFINE f == SlotBytes(l)[Count(l)]
           h == SlotBytes(r)[Count(r)]
           g == SlotBytes(w)[Count(w)]
<1>5. /\ SpaceUsed(l) = Len(l.lower) + Len(l.upper) + f
      /\ SpaceUsed(r) = Len(r.lower) + Len(r.upper) + h
      /\ SpaceUsed(w) = Len(l.lower) + Len(r.upper) + g
      /\ Len(l.lower) \in Nat /\ Len(l.upper) \in Nat /\ f \in Int
      /\ Len(r.lower) \in Nat /\ Len(r.upper) \in Nat /\ h \in Int
      /\ HeaderSize \in Nat /\ PageSize(w) = PageSizeLeaf /\ PageSize(w) \in Nat /\ z \in Nat
  BY <1>1, SpaceNumbers DEF z
<1>6. g = f + h + d + e
  BY <1>2
<1> DEFINE la == Len(l.lower)
           lb == Len(l.upper)
           ra == Len(r.lower)
           rb == Len(r.upper)
           sl == SpaceUsed(l)
           sr == SpaceUsed(r)
           sw == SpaceUsed(w)
           ps == PageSize(w)
<1>7. /\ sl = la + lb + f /\ sr = ra + rb + h /\ sw = la + rb + g
      /\ la \in Nat /\ lb \in Nat /\ ra \in Nat /\ rb \in Nat
      /\ f \in Int /\ h \in Int /\ g = f + h + d + e
      /\ sl + sr + HeaderSize + z + d + e <= ps
      /\ HeaderSize \in Nat /\ ps \in Nat /\ z \in Nat
  BY <1>3, <1>5, <1>6
<1> HIDE DEF f, h, g, la, lb, ra, rb, sl, sr, sw, ps
<1>8. ps - (HeaderSize + z) - sw >= 0
  <2>1. sl \in Int /\ sr \in Int /\ sw \in Int
    BY <1>4, <1>7
  <2>2. sw <= sl + sr + d + e
    BY <1>4, <1>7
  <2> QED BY <1>4, <1>7, <2>1, <2>2
<1> QED BY <1>8 DEF Fits, FreeSpaceAfterCompaction, z, sw, ps

(* An empty page without fences.                                           *)
LEMMA EmptyFits ==
    ASSUME NEW n \in Page, n.lower = << >>, n.upper = << >>, n.slot = << >>
    PROVE  Fits(n)
<1>1. Count(n) = 0
  BY DEF Count
<1>2. SlotBytes(n)[0] = 0 /\ Len(n.lower) = 0 /\ Len(n.upper) = 0
  BY SlotBytesSum
<1>3. SpaceUsed(n) = 0
  BY <1>1, <1>2 DEF SpaceUsed
<1>4. SlotSize * Count(n) = 0
  <2>1. SlotSize \in Nat
    BY BTreeAssumption
  <2> QED BY <1>1, <2>1
<1>5. PageSize(n) \in Nat /\ HeaderSize \in Nat /\ PageSize(n) >= HeaderSize
  BY SpaceNumbers
<1> QED BY <1>3, <1>4, <1>5 DEF Fits, FreeSpaceAfterCompaction

(***************************************************************************)
(* No page overflows.                                                      *)
(***************************************************************************)
LEMMA EmptyLeafFits == Fits(EmptyLeaf)
<1>1. EmptyLeaf \in Page /\ EmptyLeaf.slot = << >>
      /\ EmptyLeaf.lower = << >> /\ EmptyLeaf.upper = << >>
  <2>1. << >> \in Bytes /\ << >> \in Seq(LeafSlot)
    BY DEF Bytes
  <2> QED BY <2>1 DEF EmptyLeaf, Leaf, Page, LeafPage
<1> QED BY <1>1, EmptyFits

(* BTreeNode::insert has asked for the space.                              *)
LEMMA LeafInsertFits ==
    ASSUME IInv, PagesFit, LeafInsert
    PROVE  PagesFit'
<1> DEFINE n == page[node]
           i == LowerBound(n, skey)
           m == InsertSlot(n, i, op.key, op.val)
<1>1. AtLeaf("insert") /\ HasRoom(n) /\ page' = [page EXCEPT ![node] = m]
  BY DEF LeafInsert
<1>2. /\ n \in Page /\ IsLeaf(n) /\ i \in 1 .. Count(n) + 1 /\ node \in Pages /\ LocalType
  BY <1>1, AtLeafFacts
<1>3. op.key \in Key /\ op.val \in Val /\ op.key \in Bytes
  BY <1>1, <1>2, OpFacts DEF AtLeaf, LocalType
<1>4. [key |-> op.key, val |-> op.val] \in SlotType(n)
  BY <1>2, <1>3 DEF SlotType, LeafSlot
<1>5. PayloadLen[op.val] \in Nat /\ RequestSpaceFor(n, op.key, PayloadLen[op.val])
  BY <1>1, <1>3, BTreeAssumption DEF HasRoom
<1> HIDE DEF n, i
<1>6. Fits(m)
  BY <1>2, <1>3, <1>4, <1>5, InsertFits
<1> QED BY <1>1, <1>2, <1>6 DEF PagesFit, Pages

LEMMA RemovedFits ==
    ASSUME IInv, PagesFit, Removing
    PROVE  Fits(Removed(page[node]))
<1>1. AtLeaf("remove") /\ FoundAt(page[node], skey, LowerBound(page[node], skey))
  BY DEF Removing
<1>2. /\ page[node] \in Page /\ PageOK(page[node]) /\ node \in Pages
      /\ LowerBound(page[node], skey) \in 1 .. Count(page[node])
  BY <1>1, AtLeafFacts DEF FoundAt
<1> QED BY <1>2, RemoveFits DEF Removed, PagesFit

LEMMA MergeKeepsFit ==
    ASSUME IInv, PagesFit, RemoveAndMerge
    PROVE  PagesFit'
<1> DEFINE n == Removed(page[node])
           y == RightNeighbour
<1>1. /\ Removing /\ CanMerge(n)
      /\ page' = [q \in DOMAIN page \ {node} |->
                     CASE q = parent -> RemoveSlot(page[parent], pos)
                       [] q = y      -> Merged(n, page[y])
                       [] OTHER      -> page[q]]
  BY DEF RemoveAndMerge, PagesAfterMerge
<1>2. AtLeaf("remove") /\ n \in Page /\ IsLeaf(n)
  BY <1>1, RemovedOK DEF Removing
<1>3. /\ parent # NoPage /\ pos + 1 <= Count(page[parent]) /\ IsLeaf(page[y])
      /\ y = ChildAt(page[parent], pos + 1) /\ MergeFits(n, page[y])
  BY <1>1 DEF CanMerge, RightNeighbour
<1>4. /\ parent \in Inners /\ pos \in 1 .. Count(page[parent]) + 1
      /\ parent \in Pages
  BY <1>2, <1>3 DEF IInv, CursorOnPath, Walking, AtLeaf, Inners
<1>5. PageType /\ TreeOK
  BY <1>2, AtLeafFacts
<1>6. page[parent] \in Page /\ PageOK(page[parent]) /\ Count(page[parent]) \in Nat
  BY <1>4, <1>5, PageFacts DEF PageType, TreeOK, KeysInFences
<1>7. pos \in 1 .. Count(page[parent]) /\ pos + 1 \in 1 .. Count(page[parent]) + 1
  BY <1>3, <1>4, <1>6
<1>8. y \in Pages /\ page[y] \in Page
  BY <1>3, <1>4, <1>5, <1>7 DEF TreeOK, ChildFences, PageType
<1> HIDE DEF n, y
<1>9. Fits(RemoveSlot(page[parent], pos))
  BY <1>4, <1>6, <1>7, RemoveFits DEF PagesFit
<1>10. Fits(Merged(n, page[y]))
  BY <1>2, <1>3, <1>8, MergedFits
<1>11. \A q \in Pages : Fits(page[q])
  BY DEF PagesFit
<1> QED BY <1>1, <1>9, <1>10, <1>11 DEF PagesFit, Pages

(* The page that is split has slots for both halves.                       *)
LEMMA SplitCounts ==
    ASSUME IInv, SplitNode
    PROVE  Count(page[node]) > 1 /\ FindSeparator(page[node]).at >= 2
<1> DEFINE n == page[node]
           s == FindSeparator(n)
<1>1. pc = "split" /\ SplitChecks = "split"
  BY DEF SplitNode, Splitting
<1>2. ~ (Count(n) < 2) /\ ~ (s.at < 2)
  BY <1>1 DEF SplitChecks
<1>3. node \in Pages
  BY <1>1 DEF IInv, CursorOnPath, Walking
<1>4. n \in Page /\ PageOK(n) /\ Count(n) \in Nat
  BY <1>3, TypeParts, PageFacts DEF IInv, PageType, TreeOK, KeysInFences
<1>5. Count(n) > 1
  BY <1>2, <1>4
<1>6. s.at \in Nat
  <2>1. CASE IsLeaf(n)
    <3>1. Cut(n, s)
      BY <1>4, <1>5, <2>1, LeafSeparator DEF FindSeparator
    <3> QED BY <1>4, <3>1 DEF Cut
  <2>2. CASE ~IsLeaf(n)
    <3>1. s.at = Count(n) \div 2
      BY <2>2 DEF FindSeparator
    <3> QED BY <1>4, <3>1
  <2> QED BY <2>1, <2>2
<1> QED BY <1>2, <1>5, <1>6

(* The split checks that both halves fit, and that the parent has room.    *)
LEMMA SplitKeepsFit ==
    ASSUME IInv, PagesFit, SplitNode
    PROVE  PagesFit'
<1> DEFINE n == page[node]
           p == page[parent]
           s == FindSeparator(n)
           left == NewPage
           i == LowerBound(p, s.sep)
<1>1. /\ pc = "split" /\ parent # NoPage /\ SplitChecks = "split" /\ FreePages # {}
      /\ page' = [q \in DOMAIN page \cup {left} |->
                     CASE q = left   -> SplitLeft(n, s)
                       [] q = node   -> SplitRight(n, s)
                       [] q = parent -> InsertSlot(p, i, s.sep, left)
                       [] OTHER      -> page[q]]
  BY DEF SplitNode, Splitting
<1>2. /\ ~ (Count(n) < 2) /\ ~ (s.at < 2) /\ RequestSpaceFor(p, s.sep, PtrSize)
      /\ Fits(SplitLeft(n, s)) /\ Fits(SplitRight(n, s))
  BY <1>1 DEF SplitChecks
<1>3. node \in Pages /\ parent \in Pages /\ ~IsLeaf(p)
  BY <1>1 DEF IInv, CursorOnPath, Walking, Inners
<1>4. n \in Page /\ PageOK(n) /\ p \in Page /\ Count(n) \in Nat
  BY <1>3, TypeParts, PageFacts DEF IInv, PageType, TreeOK, KeysInFences
<1>5. Count(n) > 1 /\ s.at >= 2
  BY SplitCounts
<1>6. s.sep \in Bytes
  BY <1>4, <1>5, SeparatorProperties
<1>7. left \in PageId
  BY <1>1, NewPageFacts
<1>8. [key |-> s.sep, val |-> left] \in SlotType(p) /\ PtrSize \in Nat
  BY <1>3, <1>6, <1>7, BTreeAssumption DEF SlotType, InnerSlot
<1>9. i \in 1 .. Count(p) + 1
  BY <1>3, <1>4, <1>6, TypeParts, LowerBoundProperties DEF IInv, TreeOK, KeysInFences
<1>10. Fits(InsertSlot(p, i, s.sep, left))
  <2> DEFINE k == s.sep
             m == InsertSlot(p, i, k, left)
  <2>1. k \in Bytes /\ [key |-> k, val |-> left] \in SlotType(p) /\ RequestSpaceFor(p, k, PtrSize)
    BY <1>2, <1>6, <1>8
  <2> HIDE DEF k, i, left, p
  <2>2. Fits(m)
    BY <1>3, <1>4, <1>8, <1>9, <2>1, InsertFits
  <2> QED BY <2>2 DEF k
<1>11. \A q \in Pages : Fits(page[q])
  BY DEF PagesFit
<1> HIDE DEF n, p, s, left, i
<1> QED BY <1>1, <1>2, <1>10, <1>11 DEF PagesFit, Pages

LEMMA MakeRootFits ==
    ASSUME IInv, PagesFit, MakeRoot
    PROVE  PagesFit'
<1> DEFINE p == NewPage
           r == Inner(<< >>, << >>, << >>, node)
<1>1. /\ page' = [q \in DOMAIN page \cup {p} |-> IF q = p THEN r ELSE page[q]]
      /\ pc = "split" /\ parent = NoPage
  BY DEF MakeRoot
<1>2. node \in PageId
  BY <1>1, TypeParts DEF IInv, CursorOnPath, Walking, PageType
<1>3. r \in Page /\ r.lower = << >> /\ r.upper = << >> /\ r.slot = << >>
  <2>1. << >> \in Bytes /\ << >> \in Seq(InnerSlot)
    BY DEF Bytes
  <2> QED BY <1>2, <2>1 DEF Inner, Page, InnerPage
<1>4. Fits(r)
  BY <1>3, EmptyFits
<1> HIDE DEF p, r
<1> QED BY <1>1, <1>4 DEF PagesFit, Pages

(* The steps that change pages.                                            *)
LEMMA StepsOfTree ==
    ASSUME [Next]_vars
    PROVE  \/ LeafInsert \/ RemoveOnly \/ RemoveAndMerge \/ SplitNode \/ MakeRoot \/ Clear
           \/ UNCHANGED tree
<1>1. ASSUME NEW o \in Ops, Call(o) PROVE UNCHANGED tree
  BY <1>1 DEF Call, tree
<1>2. CASE Descend \/ EnsureStep
  BY <1>2 DEF Descend, EnsureStep, StepDown, tree
<1>3. CASE LeafLookup \/ RemoveMiss
  BY <1>3 DEF LeafLookup, RemoveMiss
<1>4. CASE LeafInsertFound \/ SplitDies
  BY <1>4 DEF LeafInsertFound, SplitDies, Die, tree
<1>5. CASE LeafInsertFull \/ EnsureSpace \/ EnsureFound
  BY <1>5 DEF LeafInsertFull, EnsureSpace, EnsureFound, tree
<1>6. CASE ScanUp \/ ScanDown
  BY <1>6 DEF ScanUp, ScanDown, ScanLeaf
<1>7. CASE UNCHANGED vars
  BY <1>7 DEF vars, tree
<1> QED BY <1>1, <1>2, <1>3, <1>4, <1>5, <1>6, <1>7 DEF Next, Step

LEMMA NextFits ==
    ASSUME IInv, PagesFit, [Next]_vars
    PROVE  PagesFit'
<1>1. CASE LeafInsert
  BY <1>1, LeafInsertFits
<1>2. CASE RemoveOnly
  <2> DEFINE n == Removed(page[node])
  <2>1. Removing /\ page' = [page EXCEPT ![node] = n]
    BY <1>2 DEF RemoveOnly
  <2>2. Fits(n)
    BY <2>1, RemovedFits
  <2> HIDE DEF n
  <2> QED BY <2>1, <2>2 DEF PagesFit, Pages
<1>3. CASE RemoveAndMerge
  BY <1>3, MergeKeepsFit
<1>4. CASE SplitNode
  BY <1>4, SplitKeepsFit
<1>5. CASE MakeRoot
  BY <1>5, MakeRootFits
<1>6. CASE Clear
  BY <1>6, EmptyLeafFits DEF Clear, PagesFit, Pages
<1>7. CASE UNCHANGED page
  BY <1>7 DEF PagesFit, Pages
<1>8. \/ LeafInsert \/ RemoveOnly \/ RemoveAndMerge \/ SplitNode \/ MakeRoot \/ Clear
      \/ UNCHANGED page
  BY StepsOfTree DEF tree
<1> QED BY <1>1, <1>2, <1>3, <1>4, <1>5, <1>6, <1>7, <1>8

(* No page overflows, whatever the keys' lengths, the payload sizes and    *)
(* the page sizes are: what requestSpaceFor, mergeNodes' bound and the     *)
(* assertions of splitNode check beforehand is what the page then needs,   *)
(* although splits and merges change the prefix that is not stored.        *)
THEOREM NothingOverflows == Spec => []PagesFit
<1>1. Init => PagesFit
  BY EmptyLeafFits DEF Init, PagesFit, Pages
<1>2. IInv /\ PagesFit /\ [Next]_vars => PagesFit'
  BY NextFits
<1> QED BY <1>1, <1>2, InductiveInvariant, PTL DEF Spec

(***************************************************************************)
(* No page is lost.                                                        *)
(***************************************************************************)
(* A set of pages that no pointer and no root leads out of.                *)
Closed(S) ==
    /\ root \in S
    /\ \A p \in S \cap Inners :
          \A i \in 1 .. Count(page[p]) + 1 : ChildAt(page[p], i) \in S

(* Whatever contains the root and the pages its members point to contains  *)
(* every page.                                                             *)
Reached == \A S \in SUBSET Pages : Closed(S) => S = Pages

(* What the tree's invariant says about pointers.                          *)
LEMMA Pointers ==
    ASSUME PageType, TreeOK
    PROVE  /\ root \in Pages
           /\ \A q \in Pages : page[q] \in Page /\ Count(page[q]) \in Nat
           /\ \A q \in Inners : \A j \in 1 .. Count(page[q]) + 1 :
                 /\ ChildAt(page[q], j) \in Pages
                 /\ ChildAt(page[q], j) # root
                 /\ ChildAt(page[q], j) # q
           /\ \A q, r \in Inners :
                 \A j \in 1 .. Count(page[q]) + 1, k \in 1 .. Count(page[r]) + 1 :
                    ChildAt(page[q], j) = ChildAt(page[r], k) => q = r /\ j = k
<1>1. \A q \in Pages : page[q] \in Page /\ Count(page[q]) \in Nat
  BY PageFacts DEF PageType
<1> QED BY <1>1 DEF TreeOK, ChildFences, OneParent

(* Changing the slots of a leaf changes no pointer.                        *)
LEMMA LeafKeepsReach ==
    ASSUME Reached, NEW x \in Leaves, NEW n, IsLeaf(n),
           page' = [page EXCEPT ![x] = n], root' = root
    PROVE  Reached'
<1>1. Pages' = Pages
  BY DEF Pages
<1>2. Inners' = Inners /\ \A q \in Inners : page'[q] = page[q]
  BY DEF Inners, Leaves, Pages
<1>3. ASSUME NEW S \in SUBSET Pages, Closed(S)'
      PROVE  S = Pages
  <2>1. Closed(S)
    BY <1>2, <1>3 DEF Closed
  <2> QED BY <2>1 DEF Reached
<1>4. (\A S \in SUBSET Pages : Closed(S) => S = Pages)'
  BY <1>1, <1>3
<1> QED BY <1>4 DEF Reached

(* One page, which is the root.                                            *)
LEMMA SinglePageReached ==
    ASSUME page = [p \in {root} |-> EmptyLeaf]
    PROVE  Reached
<1>1. Pages = {root}
  BY DEF Pages
<1> QED BY <1>1 DEF Reached, Closed

LEMMA RootKeepsReach ==
    ASSUME PageType, TreeOK, Reached, NEW p, p \notin Pages,
           page' = [q \in DOMAIN page \cup {p} |->
                       IF q = p THEN Inner(<< >>, << >>, << >>, root) ELSE page[q]],
           root' = p
    PROVE  Reached'
<1>1. /\ Pages' = Pages \cup {p} /\ page'[p] = Inner(<< >>, << >>, << >>, root)
      /\ \A q \in Pages : page'[q] = page[q]
  BY DEF Pages
<1>2. p \in Inners' /\ 1 \in 1 .. Count(page'[p]) + 1 /\ ChildAt(page'[p], 1) = root
  BY <1>1 DEF Inners, Inner, IsLeaf, Count, ChildAt
<1>3. Inners \subseteq Inners' /\ Inners \subseteq Pages
  BY <1>1 DEF Inners
<1>4. ASSUME NEW S \in SUBSET (Pages \cup {p}), Closed(S)'
      PROVE  S = Pages \cup {p}
  <2> DEFINE T == S \ {p}
  <2>1. p \in S /\ root \in S
    BY <1>2, <1>4 DEF Closed
  <2>2. \A q \in T \cap Inners : \A j \in 1 .. Count(page[q]) + 1 : ChildAt(page[q], j) \in T
    <3> SUFFICES ASSUME NEW q \in T \cap Inners, NEW j \in 1 .. Count(page[q]) + 1
                 PROVE  ChildAt(page[q], j) \in T
      OBVIOUS
    <3>1. q \in S \cap Inners' /\ page'[q] = page[q]
      BY <1>1, <1>3
    <3>2. ChildAt(page[q], j) \in S
      BY <1>4, <3>1 DEF Closed
    <3>3. ChildAt(page[q], j) \in Pages
      BY Pointers
    <3> QED BY <3>2, <3>3
  <2>3. root \in T
    BY <2>1, Pointers
  <2>4. T = Pages
    BY <2>2, <2>3 DEF Closed, Reached
  <2> QED BY <2>1, <2>4
<1>5. (\A S \in SUBSET Pages : Closed(S) => S = Pages)'
  BY <1>1, <1>4
<1> QED BY <1>5 DEF Reached

(* Of the two halves, the parent gets a pointer to the new one.            *)
LEMMA SplitKeepsReach ==
    ASSUME PageType, TreeOK, Reached,
           NEW x \in Pages, NEW p \in Inners, NEW i \in 1 .. Count(page[p]) + 1,
           x = ChildAt(page[p], i),
           NEW left \in PageId, left \notin Pages,
           NEW s, NEW l, NEW r, Halves(page[x], s, l, r),
           page' = [q \in DOMAIN page \cup {left} |->
                       CASE q = left -> l
                         [] q = x    -> r
                         [] q = p    -> InsertSlot(page[p], LowerBound(page[p], s.sep), s.sep, left)
                         [] OTHER    -> page[q]],
           root' = root
    PROVE  Reached'
<1> DEFINE n == page[x]
           m == page[p]
           k == LowerBound(m, s.sep)
           w == InsertSlot(m, k, s.sep, left)
<1>1. /\ p \in Pages /\ ~IsLeaf(m) /\ n \in Page /\ m \in Page /\ PageOK(n) /\ PageOK(m)
      /\ Count(m) \in Nat /\ Count(n) \in Nat /\ Inners \subseteq Pages
  BY Pointers DEF Inners, TreeOK, KeysInFences
<1>2. x # p /\ x # left /\ p # left /\ root # left /\ x # root
  BY <1>1, Pointers
<1>3. s.sep \in Bytes /\ s.at \in Nat /\ (~IsLeaf(n) => s.at \in 1 .. Count(n))
  BY DEF Halves
<1>4. k \in 1 .. Count(m) + 1
  BY <1>1, <1>3, LowerBoundProperties
<1>5. /\ IsLeaf(l) <=> IsLeaf(n)
      /\ IsLeaf(r) <=> IsLeaf(n)
  BY DEF Halves
<1>6. /\ Count(w) = Count(m) + 1 /\ ~IsLeaf(w) /\ ChildAt(w, k) = left
      /\ \A j \in 1 .. (k - 1) : ChildAt(w, j) = ChildAt(m, j)
      /\ \A j \in (k + 1) .. (Count(m) + 2) : ChildAt(w, j) = ChildAt(m, j - 1)
  <2> DEFINE key == s.sep
             v == InsertSlot(m, k, key, left)
  <2>1. key \in Bytes /\ ~IsLeaf(m) /\ m \in Page /\ k \in 1 .. Count(m) + 1
    BY <1>1, <1>3, <1>4
  <2> HIDE DEF key, k, m
  <2>2. /\ Count(v) = Count(m) + 1 /\ ~IsLeaf(v) /\ ChildAt(v, k) = left
        /\ \A j \in 1 .. (k - 1) : ChildAt(v, j) = ChildAt(m, j)
        /\ \A j \in (k + 1) .. (Count(m) + 2) : ChildAt(v, j) = ChildAt(m, j - 1)
    BY <2>1, InsertChild
  <2> QED BY <2>2 DEF key
<1>7. ~IsLeaf(n) =>
         /\ Count(l) + 1 = s.at
         /\ \A j \in 1 .. s.at : ChildAt(l, j) = ChildAt(n, j)
         /\ Count(r) + 1 = Count(n) + 1 - s.at
         /\ \A j \in 1 .. Count(r) + 1 : ChildAt(r, j) = ChildAt(n, s.at + j)
  BY DEF Halves
<1>8. /\ Pages' = Pages \cup {left}
      /\ page'[left] = l /\ page'[x] = r /\ page'[p] = w
      /\ \A q \in Pages : q # x /\ q # p => page'[q] = page[q]
  BY <1>1, <1>2 DEF Pages
<1> HIDE DEF n, m, k, w
<1>9. Inners \subseteq Inners' /\ (~IsLeaf(n) => left \in Inners')
  <2>1. ASSUME NEW q \in Inners PROVE q \in Inners'
    <3>1. q \in Pages' /\ ~IsLeaf(page[q])
      BY <1>8 DEF Inners
    <3>2. ~IsLeaf(page'[q])
      <4>1. CASE q = x
        BY <1>5, <1>8, <3>1, <4>1 DEF n
      <4>2. CASE q = p
        BY <1>6, <1>8, <4>2
      <4>3. CASE q # x /\ q # p
        BY <1>1, <1>8, <3>1, <4>3
      <4> QED BY <4>1, <4>2, <4>3
    <3> QED BY <3>1, <3>2 DEF Inners
  <2>2. ~IsLeaf(n) => left \in Inners'
    BY <1>5, <1>8 DEF Inners
  <2> QED BY <2>1, <2>2
<1>10. ASSUME NEW S \in SUBSET (Pages \cup {left}), Closed(S)'
       PROVE  S = Pages \cup {left}
  <2> DEFINE T == {q \in S \cap Pages : q = x => left \in S}
  <2>1. root \in T
    BY <1>2, <1>10, Pointers DEF Closed
  <2>2. ASSUME NEW q \in S \cap Inners', NEW j \in 1 .. Count(page'[q]) + 1
        PROVE  ChildAt(page'[q], j) \in S
    BY <1>10, <2>2 DEF Closed
  <2>3. ASSUME NEW q \in T \cap Inners, NEW j \in 1 .. Count(page[q]) + 1
        PROVE  ChildAt(page[q], j) \in T
    <3> DEFINE c == ChildAt(page[q], j)
    <3>1. q \in S \cap Inners' /\ c \in Pages /\ c # q
      BY <1>9, Pointers
    <3>2. CASE q = p
      <4>1. j \in 1 .. Count(m) + 1 /\ c = ChildAt(m, j)
        BY <3>2 DEF m
      <4>2. c \in S
        <5>1. CASE j < k
          <6>1. j \in 1 .. (k - 1) /\ j \in 1 .. Count(w) + 1
            BY <1>1, <1>4, <1>6, <4>1, <5>1
          <6> QED BY <1>6, <1>8, <2>2, <3>1, <3>2, <4>1, <6>1
        <5>2. CASE j >= k
          <6>1. /\ j + 1 \in (k + 1) .. (Count(m) + 2) /\ j + 1 \in 1 .. Count(w) + 1
                /\ (j + 1) - 1 = j
            BY <1>1, <1>4, <1>6, <4>1, <5>2
          <6>2. ChildAt(w, j + 1) = ChildAt(m, j)
            BY <1>6, <6>1
          <6> QED BY <1>8, <2>2, <3>1, <3>2, <4>1, <6>1, <6>2
        <5> QED BY <1>4, <4>1, <5>1, <5>2
      <4>3. left \in S
        <5>1. k \in 1 .. Count(w) + 1
          BY <1>1, <1>4, <1>6
        <5> QED BY <1>6, <1>8, <2>2, <3>1, <3>2, <5>1
      <4> QED BY <3>1, <4>2, <4>3
    <3>3. CASE q = x
      <4>1. ~IsLeaf(n) /\ left \in S /\ j \in 1 .. Count(n) + 1 /\ c = ChildAt(n, j)
        BY <3>3 DEF n, Inners
      <4>2. c \in S
        <5>1. CASE j <= s.at
          <6>1. j \in 1 .. s.at /\ left \in S \cap Inners' /\ j \in 1 .. Count(l) + 1
            BY <1>3, <1>7, <1>9, <4>1, <5>1
          <6>2. page'[left] = l /\ ChildAt(l, j) = c
            BY <1>7, <1>8, <4>1, <6>1
          <6>3. ChildAt(page'[left], j) \in S
            BY <2>2, <6>1, <6>2
          <6> QED BY <6>2, <6>3
        <5>2. CASE j > s.at
          <6>1. /\ j - s.at \in 1 .. Count(r) + 1 /\ s.at + (j - s.at) = j
            BY <1>1, <1>3, <1>7, <4>1, <5>2
          <6>2. ChildAt(r, j - s.at) = c
            BY <1>7, <4>1, <6>1
          <6>3. page'[x] = r /\ x \in S \cap Inners'
            BY <1>8, <3>1, <3>3
          <6>4. ChildAt(page'[x], j - s.at) \in S
            BY <2>2, <6>1, <6>3
          <6> QED BY <6>2, <6>3, <6>4
        <5> QED BY <1>3, <4>1, <5>1, <5>2
      <4> QED BY <3>1, <3>3, <4>2
    <3>4. CASE q # p /\ q # x
      <4>1. page'[q] = page[q]
        BY <1>1, <1>8, <3>4
      <4>2. c \in S
        BY <2>2, <3>1, <4>1
      <4>3. c # x
        BY <3>4, Pointers
      <4> QED BY <3>1, <4>2, <4>3
    <3> QED BY <3>2, <3>3, <3>4
  <2>4. T = Pages
    <3>1. T \in SUBSET Pages
      OBVIOUS
    <3> HIDE DEF T
    <3> QED BY <2>1, <2>3, <3>1 DEF Closed, Reached
  <2> QED BY <2>4
<1>11. (\A S \in SUBSET Pages : Closed(S) => S = Pages)'
  BY <1>8, <1>10
<1> QED BY <1>11 DEF Reached

(* The page that mergeNodes empties is the one that is freed.              *)
LEMMA MergeKeepsReach ==
    ASSUME PageType, TreeOK, Reached,
           NEW x \in Leaves, NEW p \in Inners, NEW i \in 1 .. Count(page[p]),
           i + 1 <= Count(page[p]), x = ChildAt(page[p], i),
           NEW y, y = ChildAt(page[p], i + 1), IsLeaf(page[y]), NEW g, IsLeaf(g),
           page' = [q \in DOMAIN page \ {x} |->
                       CASE q = p -> RemoveSlot(page[p], i)
                         [] q = y -> g
                         [] OTHER -> page[q]],
           root' = root
    PROVE  Reached'
<1> DEFINE m == page[p]
           w == RemoveSlot(m, i)
<1>1. /\ p \in Pages /\ x \in Pages /\ ~IsLeaf(m) /\ m \in Page /\ Count(m) \in Nat
      /\ Inners \subseteq Pages /\ x \notin Inners /\ y \notin Inners
  BY Pointers DEF Inners, Leaves
<1>2. /\ Count(w) = Count(m) - 1 /\ ~IsLeaf(w)
      /\ \A j \in 1 .. (i - 1) : ChildAt(w, j) = ChildAt(m, j)
      /\ \A j \in i .. Count(m) : ChildAt(w, j) = ChildAt(m, j + 1)
  <2> HIDE DEF m
  <2>1. i \in 1 .. Count(m)
    BY DEF m
  <2> QED BY <1>1, <2>1, RemoveChild
<1>3. x # p /\ x # root
  BY <1>1, Pointers
<1>4. /\ Pages' = Pages \ {x} /\ page'[p] = w
      /\ \A q \in Inners : q # p => page'[q] = page[q]
  BY <1>1, <1>3 DEF Pages
<1> HIDE DEF m, w
<1>5. Inners \subseteq Inners'
  <2>1. ASSUME NEW q \in Inners PROVE q \in Pages' /\ ~IsLeaf(page'[q])
    <3>1. q \in Pages' /\ ~IsLeaf(page[q])
      BY <1>1, <1>4 DEF Inners
    <3> QED BY <1>2, <1>4, <3>1
  <2> QED BY <2>1 DEF Inners
<1>6. ASSUME NEW S \in SUBSET (Pages \ {x}), Closed(S)'
      PROVE  S = Pages \ {x}
  <2> DEFINE T == S \cup {x}
  <2>1. root \in T
    BY <1>6 DEF Closed
  <2>2. ASSUME NEW q \in S \cap Inners', NEW j \in 1 .. Count(page'[q]) + 1
        PROVE  ChildAt(page'[q], j) \in S
    BY <1>6, <2>2 DEF Closed
  <2>3. ASSUME NEW q \in T \cap Inners, NEW j \in 1 .. Count(page[q]) + 1
        PROVE  ChildAt(page[q], j) \in T
    <3>1. q \in S \cap Inners'
      BY <1>1, <1>5
    <3>2. CASE q # p
      BY <1>4, <2>2, <3>1, <3>2
    <3>3. CASE q = p
      <4>1. j \in 1 .. Count(m) + 1 /\ page[q] = m /\ page'[q] = w /\ i \in 1 .. Count(m)
        BY <1>4, <3>3 DEF m
      <4>2. CASE j < i
        <5>1. j \in 1 .. (i - 1) /\ j \in 1 .. Count(w) + 1
          BY <1>1, <1>2, <4>1, <4>2
        <5> QED BY <1>2, <2>2, <3>1, <4>1, <5>1
      <4>3. CASE j = i
        BY <3>3, <4>3
      <4>4. CASE j > i
        <5>1. j - 1 \in i .. Count(m) /\ j - 1 \in 1 .. Count(w) + 1 /\ (j - 1) + 1 = j
          BY <1>1, <1>2, <4>1, <4>4
        <5>2. ChildAt(w, j - 1) = ChildAt(m, j)
          BY <1>2, <5>1
        <5> QED BY <2>2, <3>1, <4>1, <5>1, <5>2
      <4> QED BY <4>1, <4>2, <4>3, <4>4
    <3> QED BY <3>2, <3>3
  <2>4. T = Pages
    <3>1. T \in SUBSET Pages
      BY <1>1
    <3> HIDE DEF T
    <3> QED BY <2>1, <2>3, <3>1 DEF Closed, Reached
  <2> QED BY <2>4
<1>7. (\A S \in SUBSET Pages : Closed(S) => S = Pages)'
  BY <1>4, <1>6
<1> QED BY <1>7 DEF Reached

LEMMA NextKeepsReach ==
    ASSUME IInv, Reached, [Next]_vars
    PROVE  Reached'
<1>0. PageType /\ TreeOK
  BY TypeParts DEF IInv
<1>1. CASE LeafInsert
  <2> DEFINE n == page[node]
             m == InsertSlot(n, LowerBound(n, skey), op.key, op.val)
  <2>1. AtLeaf("insert") /\ page' = [page EXCEPT ![node] = m] /\ root' = root
    BY <1>1 DEF LeafInsert
  <2>2. node \in Leaves /\ IsLeaf(n)
    BY <2>1, AtLeafFacts
  <2>3. IsLeaf(m)
    BY <2>2 DEF IsLeaf, InsertSlot
  <2> HIDE DEF m
  <2> QED BY <2>1, <2>2, <2>3, LeafKeepsReach
<1>2. CASE RemoveOnly
  <2> DEFINE n == Removed(page[node])
  <2>1. Removing /\ page' = [page EXCEPT ![node] = n] /\ root' = root
    BY <1>2 DEF RemoveOnly
  <2>2. IsLeaf(n) /\ node \in Leaves
    BY <2>1, RemovedOK, AtLeafFacts DEF Removing
  <2> HIDE DEF n
  <2> QED BY <2>1, <2>2, LeafKeepsReach
<1>3. CASE RemoveAndMerge
  <2> DEFINE n == Removed(page[node])
             y == RightNeighbour
             g == Merged(n, page[y])
  <2>1. /\ Removing /\ CanMerge(n) /\ root' = root
        /\ page' = [q \in DOMAIN page \ {node} |->
                       CASE q = parent -> RemoveSlot(page[parent], pos)
                         [] q = y      -> g
                         [] OTHER      -> page[q]]
    BY <1>3 DEF RemoveAndMerge, PagesAfterMerge
  <2>2. AtLeaf("remove") /\ node \in Leaves
    BY <2>1, AtLeafFacts DEF Removing
  <2>3. /\ parent # NoPage /\ pos + 1 <= Count(page[parent]) /\ IsLeaf(page[y])
        /\ y = ChildAt(page[parent], pos + 1)
    BY <2>1 DEF CanMerge, RightNeighbour
  <2>4. /\ parent \in Inners /\ parent \in Pages /\ pos \in 1 .. Count(page[parent]) + 1
        /\ node = ChildAt(page[parent], pos)
    BY <2>2, <2>3 DEF IInv, CursorOnPath, Walking, AtLeaf, Inners
  <2>5. pos \in 1 .. Count(page[parent])
    BY <1>0, <2>3, <2>4, Pointers
  <2>6. IsLeaf(g)
    BY DEF Merged, Leaf, IsLeaf
  <2> HIDE DEF n, y, g
  <2> QED BY <1>0, <2>1, <2>2, <2>3, <2>4, <2>5, <2>6, MergeKeepsReach
<1>4. CASE SplitNode
  <2> DEFINE n == page[node]
             p == page[parent]
             s == FindSeparator(n)
             left == NewPage
  <2>1. /\ pc = "split" /\ parent # NoPage /\ FreePages # {} /\ root' = root
        /\ page' = [q \in DOMAIN page \cup {left} |->
                       CASE q = left   -> SplitLeft(n, s)
                         [] q = node   -> SplitRight(n, s)
                         [] q = parent -> InsertSlot(p, LowerBound(p, s.sep), s.sep, left)
                         [] OTHER      -> page[q]]
    BY <1>4 DEF SplitNode, Splitting
  <2>2. /\ node \in Pages /\ parent \in Inners /\ pos \in 1 .. Count(p) + 1
        /\ node = ChildAt(p, pos)
    BY <2>1 DEF IInv, CursorOnPath, Walking
  <2>3. Count(n) > 1 /\ s.at >= 2
    BY <1>4, SplitCounts
  <2>4. left \in PageId /\ left \notin Pages
    BY <2>1, NewPageFacts
  <2> DEFINE l == SplitLeft(n, s)
             r == SplitRight(n, s)
  <2> HIDE DEF left
  <2>5. Halves(n, s, l, r)
    <3> HIDE DEF n
    <3>1. n \in Page /\ PageOK(n)
      BY <1>0, <2>2, Pointers DEF TreeOK, KeysInFences, n
    <3> HIDE DEF s
    <3>2. s = FindSeparator(n)
      BY DEF s
    <3> QED BY <2>3, <3>1, <3>2, SplitMakesHalves
  <2>6. page' = [q \in DOMAIN page \cup {left} |->
                    CASE q = left   -> l
                      [] q = node   -> r
                      [] q = parent -> InsertSlot(p, LowerBound(p, s.sep), s.sep, left)
                      [] OTHER      -> page[q]]
    BY <2>1
  <2> HIDE DEF s, l, r
  <2> QED BY <1>0, <2>1, <2>2, <2>4, <2>5, <2>6, SplitKeepsReach
<1>5. CASE MakeRoot
  <2> DEFINE p == NewPage
  <2>1. /\ page' = [q \in DOMAIN page \cup {p} |->
                       IF q = p THEN Inner(<< >>, << >>, << >>, node) ELSE page[q]]
        /\ pc = "split" /\ parent = NoPage /\ root' = p /\ FreePages # {}
    BY <1>5 DEF MakeRoot
  <2>2. node = root
    BY <2>1 DEF IInv, CursorOnPath, Walking
  <2>3. p \notin Pages
    BY <2>1, NewPageFacts
  <2> HIDE DEF p
  <2> QED BY <1>0, <2>1, <2>2, <2>3, RootKeepsReach
<1>6. CASE Clear
  <2>1. Pages' = {root'}
    BY <1>6 DEF Clear, Pages
  <2>2. (\A S \in SUBSET Pages : Closed(S) => S = Pages)'
    BY <2>1 DEF Closed
  <2> QED BY <2>2 DEF Reached
<1>7. CASE UNCHANGED tree
  BY <1>7 DEF tree, Reached, Closed, Inners, Pages
<1> QED BY <1>1, <1>2, <1>3, <1>4, <1>5, <1>6, <1>7, StepsOfTree

LEMMA ReachedPagesHaveParents ==
    ASSUME Reached, PageType, TreeOK
    PROVE  NoLeak
<1>1. root \in Pages /\ Inners \subseteq Pages
  BY Pointers DEF Inners
<1>2. ASSUME NEW q \in Pages \ {root} PROVE \E p \in Inners : PointsTo(p, q)
  <2>1. Closed(Pages \ {q}) => Pages \ {q} = Pages
    BY DEF Reached
  <2> QED BY <1>1, <2>1, Pointers DEF Closed, PointsTo
<1>3. ASSUME NEW S \in SUBSET (Inners \ {root}), S # {}
      PROVE  \E p \in Inners \ S, q \in S : PointsTo(p, q)
  <2>1. Closed(Pages \ S) => Pages \ S = Pages
    BY DEF Reached
  <2> QED BY <1>1, <1>3, <2>1, Pointers DEF Closed, PointsTo
<1> QED BY <1>2, <1>3 DEF NoLeak

(* Every page that is allocated can be reached from the root, so that      *)
(* destroy, which walks down from it, frees all of them: splitNode hangs   *)
(* the new page into the parent before anything else can happen, and a     *)
(* removal frees the page that mergeNodes has taken out of its parent.     *)
THEOREM NothingLeaks == Spec => []NoLeak
<1>1. Init => Reached
  BY SinglePageReached DEF Init
<1>2. IInv /\ Reached /\ [Next]_vars => Reached'
  BY NextKeepsReach
<1>3. IInv /\ Reached => NoLeak
  BY ReachedPagesHaveParents, TypeParts DEF IInv
<1> QED BY <1>1, <1>2, <1>3, InductiveInvariant, PTL DEF Spec

=============================================================================
