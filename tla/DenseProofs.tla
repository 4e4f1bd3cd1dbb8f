---------------------------- MODULE DenseProofs -----------------------------
(***************************************************************************)
(* Proofs about DenseTree: the B-tree whose leaves may keep their records  *)
(* in an array (libbtree/src/dense.cpp, btree2020.cpp). A dense page       *)
(* stands for the basic leaf with the same fences and records, and V is    *)
(* the tree of basic pages that stands for the dense one. The lemmas and   *)
(* the invariant of BTreeSpace are used for V; what is proved here is that *)
(* dense pages are sound in themselves and that each operation does to the *)
(* tree of basic pages what keeps that invariant.                          *)
(***************************************************************************)
EXTENDS DenseTree, BTreeSpace, FiniteSetTheorems

(* The tree of basic pages.                                                *)
V == INSTANCE BTreeSpace WITH page <- ShownPages

(* The assumptions of BTreeSpace hold of the view.                         *)
LEMMA ViewMaxByte == V!MaxByteAssumption
BY MaxByteAssumption DEF V!MaxByteAssumption

LEMMA ViewConstants == V!BTreeAssumption
BY BTreeAssumption DEF V!BTreeAssumption, V!Bytes, Bytes, V!Byte, Byte

(* The order of keys does not depend on the pages.                         *)
LEMMA SameOrder ==
    /\ V!Bytes = Bytes
    /\ \A a, b : V!Less(a, b) <=> Less(a, b)
    /\ \A a, b : V!Leq(a, b) <=> Leq(a, b)
    /\ \A k, a, b : V!InFences(k, a, b) <=> InFences(k, a, b)
    /\ \A a, n : V!Take(a, n) = Take(a, n)
    /\ \A a : V!Successor(a) = Successor(a)
    /\ \A a, b : V!CommonPrefixLen(a, b) = CommonPrefixLen(a, b)
<1>1. V!Bytes = Bytes
  BY DEF V!Bytes, Bytes, V!Byte, Byte
<1>2. \A a, b : V!Less(a, b) <=> Less(a, b)
  BY DEF V!Less, Less, V!LessAt, LessAt
<1>3. \A a, b : V!Leq(a, b) <=> Leq(a, b)
  BY <1>2 DEF V!Leq, Leq
<1>4. \A k, a, b : V!InFences(k, a, b) <=> InFences(k, a, b)
  BY <1>2, <1>3 DEF V!InFences, InFences, V!AboveFence, AboveFence, V!BelowFence, BelowFence
<1>5. /\ \A a, n : V!Take(a, n) = Take(a, n)
      /\ \A a : V!Successor(a) = Successor(a)
  BY DEF V!Take, Take, V!Successor, Successor
<1>6. \A a, b : V!CommonPrefixLen(a, b) = CommonPrefixLen(a, b)
  BY DEF V!CommonPrefixLen, CommonPrefixLen, V!SharePrefix, SharePrefix
<1> QED BY <1>1, <1>2, <1>3, <1>4, <1>5, <1>6

(* Pages, their layout and their fences mean the same in both.             *)
LEMMA SamePages ==
    /\ V!Page = Page /\ V!LeafSlot = LeafSlot
    /\ \A n : V!IsLeaf(n) <=> IsLeaf(n)
    /\ \A n : V!Count(n) = Count(n)
    /\ \A n, i : V!ChildAt(n, i) = ChildAt(n, i)
    /\ \A n, i : V!SepAt(n, i) = SepAt(n, i)
    /\ \A n : V!PageOK(n) <=> PageOK(n)
    /\ \A n, k : V!LowerBound(n, k) = LowerBound(n, k)
    /\ \A n, k, i : V!FoundAt(n, k, i) <=> FoundAt(n, k, i)
    /\ \A n, i, k, v : V!InsertSlot(n, i, k, v) = InsertSlot(n, i, k, v)
    /\ \A n, i : V!RemoveSlot(n, i) = RemoveSlot(n, i)
    /\ \A a, b, s : V!Leaf(a, b, s) = Leaf(a, b, s)
    /\ \A a, b, s, u : V!Inner(a, b, s, u) = Inner(a, b, s, u)
<1>1. V!Page = Page /\ V!LeafSlot = LeafSlot
  BY SameOrder DEF V!Page, Page, V!LeafPage, LeafPage, V!InnerPage, InnerPage, V!LeafSlot, LeafSlot,
        V!InnerSlot, InnerSlot
<1>2. \A n : (V!IsLeaf(n) <=> IsLeaf(n)) /\ V!Count(n) = Count(n)
  BY DEF V!IsLeaf, IsLeaf, V!Count, Count
<1>3. \A n, i : V!ChildAt(n, i) = ChildAt(n, i) /\ V!SepAt(n, i) = SepAt(n, i)
  BY <1>2 DEF V!ChildAt, ChildAt, V!SepAt, SepAt
<1>4. \A n : V!PageOK(n) <=> PageOK(n)
  BY <1>2, SameOrder DEF V!PageOK, PageOK
<1>5. \A n, k : V!LowerBound(n, k) = LowerBound(n, k)
  BY <1>2, SameOrder DEF V!LowerBound, LowerBound
<1>6. \A n, k, i : V!FoundAt(n, k, i) <=> FoundAt(n, k, i)
  BY <1>2 DEF V!FoundAt, FoundAt
<1>7. /\ \A n, i, k, v : V!InsertSlot(n, i, k, v) = InsertSlot(n, i, k, v)
      /\ \A n, i : V!RemoveSlot(n, i) = RemoveSlot(n, i)
  BY DEF V!InsertSlot, InsertSlot, V!RemoveSlot, RemoveSlot, V!InsertAt, InsertAt, V!RemoveAt, RemoveAt
<1>8. /\ \A a, b, s : V!Leaf(a, b, s) = Leaf(a, b, s)
      /\ \A a, b, s, u : V!Inner(a, b, s, u) = Inner(a, b, s, u)
  BY DEF V!Leaf, Leaf, V!Inner, Inner
<1> QED BY <1>1, <1>2, <1>3, <1>4, <1>5, <1>6, <1>7, <1>8

(* So do separators and where a page may be cut.                           *)
LEMMA SameSeparators ==
    /\ \A n : V!FindSeparator(n) = FindSeparator(n)
    /\ \A n, s : V!SplitLeft(n, s) = SplitLeft(n, s)
    /\ \A n, s : V!SplitRight(n, s) = SplitRight(n, s)
    /\ \A l, r : V!Merged(l, r) = Merged(l, r)
<1>1. \A n : V!FindLeafSeparator(n) = FindLeafSeparator(n)
  <2>1. \A n : V!WindowLow(n) = WindowLow(n) /\ V!WindowHigh(n) = WindowHigh(n)
    BY SamePages DEF V!WindowLow, WindowLow, V!WindowHigh, WindowHigh
  <2> SUFFICES ASSUME NEW n PROVE V!FindLeafSeparator(n) = FindLeafSeparator(n)
    OBVIOUS
  <2> DEFINE
        first(lo, hi, common) ==
            CHOOSE i \in (lo + 1) .. hi :
                /\ n.slot[i].key[common + 1] # n.slot[lo].key[common + 1]
                /\ \A j \in (lo + 1) .. (i - 1) :
                       n.slot[j].key[common + 1] = n.slot[lo].key[common + 1]
        sep(lo, hi, common, i) ==
            IF Len(n.slot[lo].key) = common
            THEN [sep |-> n.slot[lo].key, at |-> lo]
            ELSE IF Len(n.slot[i].key) = common + 1
            THEN [sep |-> n.slot[i].key, at |-> i]
            ELSE [sep |-> Take(n.slot[i].key, common + 1), at |-> i - 1]
        both(lo, hi, common) == sep(lo, hi, common, first(lo, hi, common))
  <2>2. V!FindLeafSeparator(n) =
            both(V!WindowLow(n), V!WindowHigh(n),
                 V!CommonPrefixLen(n.slot[V!WindowLow(n)].key, n.slot[V!WindowHigh(n)].key))
    BY SameOrder DEF V!FindLeafSeparator
  <2>3. FindLeafSeparator(n) =
            both(WindowLow(n), WindowHigh(n),
                 CommonPrefixLen(n.slot[WindowLow(n)].key, n.slot[WindowHigh(n)].key))
    BY DEF FindLeafSeparator
  <2> HIDE DEF both
  <2> QED BY <2>1, <2>2, <2>3, SameOrder
<1>2. \A n : V!FindSeparator(n) = FindSeparator(n)
  BY <1>1, SamePages DEF V!FindSeparator, FindSeparator
<1> QED BY <1>2, SamePages DEF V!SplitLeft, SplitLeft, V!SplitRight, SplitRight, V!Merged, Merged

(* So does the space that is asked of a page.                              *)
LEMMA SameSpace ==
    /\ \A n : V!PrefixLen(n) = PrefixLen(n)
    /\ \A n : V!Fits(n) <=> Fits(n)
    /\ \A n : V!UnderFull(n) <=> UnderFull(n)
    /\ \A n, k, l : V!RequestSpaceFor(n, k, l) <=> RequestSpaceFor(n, k, l)
    /\ \A l, r : V!MergeFits(l, r) <=> MergeFits(l, r)
<1>1. \A n : V!PrefixLen(n) = PrefixLen(n)
  BY SameOrder DEF V!PrefixLen, PrefixLen
<1>2. \A n, s : V!EntryLen(n, s) = EntryLen(n, s)
  BY <1>1, SamePages DEF V!EntryLen, EntryLen
<1>3. \A n : V!SlotBytes(n) = SlotBytes(n)
  BY <1>2, SamePages DEF V!SlotBytes, SlotBytes
<1>4. \A n : V!SpaceUsed(n) = SpaceUsed(n)
  BY <1>3, SamePages DEF V!SpaceUsed, SpaceUsed
<1>5. \A n : V!FreeSpaceAfterCompaction(n) = FreeSpaceAfterCompaction(n)
  BY <1>4, SamePages DEF V!FreeSpaceAfterCompaction, FreeSpaceAfterCompaction, V!PageSize, PageSize
<1> QED BY <1>1, <1>4, <1>5, SamePages, SameSeparators DEF V!Fits, Fits, V!UnderFull, UnderFull, V!RequestSpaceFor,
           RequestSpaceFor, V!SpaceNeeded, SpaceNeeded, V!MergeFits, MergeFits

(***************************************************************************)
(* Numeric parts.                                                          *)
(***************************************************************************)
LEMMA NumericConstants ==
    /\ NumericLen \in Nat \ {0}
    /\ Base \in Nat \ {0}
    /\ Base = MaxByte + 1
BY DenseAssumption, MaxByteAssumption DEF Base

(* Division with remainder by a positive number.                           *)
LEMMA DivMod ==
    ASSUME NEW q \in Nat, NEW b \in Nat \ {0}, NEW r \in 0 .. (b - 1)
    PROVE  /\ (q * b + r) \div b = q
           /\ (q * b + r) % b = r
           /\ q * b \in Nat
OBVIOUS

LEMMA DivFacts ==
    ASSUME NEW x \in Nat, NEW b \in Nat \ {0}
    PROVE  /\ x \div b \in Nat
           /\ x % b \in 0 .. (b - 1)
           /\ x = (x \div b) * b + (x % b)
OBVIOUS

(* If x has one digit too many for p numbers, its quotient has not.        *)
LEMMA DivBelow ==
    ASSUME NEW x \in Nat, NEW b \in Nat \ {0}, NEW p \in Nat, x < p * b
    PROVE  x \div b < p
<1>1. PICK q \in Nat : q = x \div b /\ q * b <= x
  BY DivFacts
<1>2. CASE q >= p
  <2>1. PICK d \in Nat : q = p + d
    BY <1>2
  <2>2. q * b = p * b + d * b /\ d * b \in Nat /\ p * b \in Nat
    BY <2>1
  <2> QED BY <1>1, <2>2
<1> QED BY <1>1, <1>2

(* Powers is what its recursive definition says.                           *)
LEMMA PowersStep ==
    /\ Powers[0] = 1
    /\ \A i \in 1 .. NumericLen : Powers[i] = Powers[i - 1] * Base
    /\ \A i \in 0 .. NumericLen : Powers[i] \in Nat \ {0}
<1> DEFINE c == NumericLen
           f == [p \in (1 .. c) \X Nat |-> p[2] * Base]
<1>1. c \in Nat /\ Base \in Nat \ {0}
  BY NumericConstants
<1>2. f \in [(1 .. c) \X Nat -> Nat]
  BY <1>1
<1> HIDE DEF c, f
<1>3. PICK g \in [0 .. c -> Nat] : IsStepwise(g, f, 1, c)
  BY <1>1, <1>2, Stepwise
<1>4. g[0] = 1 /\ \A i \in 1 .. c : g[i] = f[<<i, g[i - 1]>>]
  BY <1>3 DEF IsStepwise
<1>5. \A i \in 1 .. c : i - 1 \in 0 .. c /\ g[i - 1] \in Nat /\ g[i] = g[i - 1] * Base
  <2> TAKE i \in 1 .. c
  <2>1. i - 1 \in 0 .. c
    BY <1>1
  <2>2. g[i - 1] \in Nat
    BY <1>3, <2>1
  <2>3. <<i, g[i - 1]>> \in (1 .. c) \X Nat
    BY <2>2
  <2> QED BY <1>4, <2>1, <2>2, <2>3 DEF f
<1>6. g = [i \in 0 .. c |-> IF i = 0 THEN 1 ELSE g[i - 1] * Base]
  BY <1>3, <1>4, <1>5, <1>1
<1>7. Powers = [i \in 0 .. c |-> IF i = 0 THEN 1 ELSE Powers[i - 1] * Base]
  BY <1>6 DEF Powers, c
<1>8. Powers[0] = 1
  BY <1>1, <1>7
<1>9. \A i \in 1 .. c : Powers[i] = Powers[i - 1] * Base
  BY <1>1, <1>7
<1> DEFINE T == {i \in 0 .. c : Powers[i] \in Nat \ {0}}
<1>10. 0 .. c \subseteq T
  <2>1. 0 \in T
    BY <1>1, <1>8
  <2>2. ASSUME NEW i \in 1 .. c, i - 1 \in T PROVE i \in T
    <3>1. \A x, y \in Nat \ {0} : x * y \in Nat \ {0}
      OBVIOUS
    <3> QED BY <1>1, <1>9, <2>2, <3>1
  <2> HIDE DEF T
  <2> QED BY <1>1, <2>1, <2>2, UpTo
<1> QED BY <1>8, <1>9, <1>10 DEF c

LEMMA PowersGrow ==
    ASSUME NEW len \in 0 .. NumericLen
    PROVE  Powers[len] <= NumericLimit /\ NumericLimit \in Nat \ {0}
<1> DEFINE c == NumericLen - len
           T == {i \in 0 .. c : Powers[len] <= Powers[len + i]}
<1>1. c \in Nat /\ len \in Nat /\ Base \in Nat \ {0} /\ NumericLen \in Nat
  BY NumericConstants
<1>2. 0 \in T
  BY <1>1, PowersStep
<1>3. ASSUME NEW i \in 1 .. c, i - 1 \in T PROVE i \in T
  <2>1. len + i \in 1 .. NumericLen /\ (len + i) - 1 = len + (i - 1) /\ len + (i - 1) \in 0 .. NumericLen
    BY <1>1
  <2>2. Powers[len + i] = Powers[len + (i - 1)] * Base /\ Powers[len + (i - 1)] \in Nat
        /\ Powers[len] \in Nat
    BY <2>1, PowersStep
  <2>3. \A x \in Nat : x <= x * Base /\ x * Base \in Nat
    BY <1>1
  <2> QED BY <1>3, <2>2, <2>3
<1> HIDE DEF T
<1>4. 0 .. c \subseteq T
  BY <1>1, <1>2, <1>3, UpTo
<1>5. c \in T
  BY <1>1, <1>4
<1> QED BY <1>1, <1>5, PowersStep DEF T, NumericLimit

(* A key length is split into a prefix and a numeric part of at most       *)
(* NumericLen bytes (computeNumericPartLen, computeNumericPrefixLength).   *)
LEMMA PartLen ==
    ASSUME NEW t \in Nat
    PROVE  /\ ComputeNumericPartLen(t) \in 0 .. NumericLen
           /\ ComputeNumericPartLen(t) <= t
           /\ ComputeNumericPrefixLength(t) \in Nat /\ ComputeNumericPrefixLength(t) <= t
           /\ ComputeNumericPrefixLength(t) + ComputeNumericPartLen(t) = t
           /\ ComputeNumericPrefixLength(t) = IF t <= NumericLen THEN 0 ELSE t - NumericLen
<1> DEFINE l == ComputeNumericPartLen(t)
<1>1. NumericLen \in Nat
  BY NumericConstants
<1>2. l = IF t <= NumericLen THEN t ELSE NumericLen
  <2>1. \E x \in {NumericLen, t} : \A y \in {NumericLen, t} : x <= y
    BY <1>1
  <2> QED BY <1>1, <2>1 DEF ComputeNumericPartLen, Min
<1> QED BY <1>1, <1>2 DEF ComputeNumericPrefixLength

(* The number that some bytes of a key make, byte by byte.                 *)
LEMMA DigitsStep ==
    ASSUME NEW k \in Bytes, NEW from \in Nat, NEW len \in Nat
    PROVE  /\ \A i \in 0 .. len : Digits(k, from, len)[i] \in Nat
           /\ Digits(k, from, len)[0] = 0
           /\ \A i \in 1 .. len :
                 Digits(k, from, len)[i] = Digits(k, from, len)[i - 1] * Base + PaddedByte(k, from + i)
<1> DEFINE d == Digits(k, from, len)
<1>1. Base \in Nat \ {0} /\ Base = MaxByte + 1 /\ MaxByte \in Nat
  BY NumericConstants, MaxByteAssumption
<1>2. /\ \A i \in 0 .. len : d[i] \in Nat
      /\ d[0] = 0
      /\ \A i \in 1 .. len : d[i] = d[i - 1] * Base + PaddedByte(k, from + i)
  BY <1>1, DigitSteps
<1> QED BY <1>2

(* A number of len bytes is below the power of Base for len.               *)
LEMMA NumberBound ==
    ASSUME NEW k \in Bytes, NEW from \in Nat, NEW len \in 0 .. NumericLen
    PROVE  NumberOf(k, from, len) \in 0 .. (Powers[len] - 1)
<1> DEFINE d == Digits(k, from, len)
           T == {i \in 0 .. len : d[i] < Powers[i]}
<1>1. len \in Nat /\ Base \in Nat \ {0} /\ NumericLen \in Nat /\ Base = MaxByte + 1 /\ MaxByte \in Nat
  BY NumericConstants, MaxByteAssumption
<1>2. /\ \A i \in 0 .. len : d[i] \in Nat
      /\ d[0] = 0
      /\ \A i \in 1 .. len : d[i] = d[i - 1] * Base + PaddedByte(k, from + i)
  BY <1>1, DigitsStep
<1>3. 0 \in T
  BY <1>1, <1>2, PowersStep
<1>4. ASSUME NEW i \in 1 .. len, i - 1 \in T PROVE i \in T
  <2>1. i \in 1 .. NumericLen /\ i - 1 \in 0 .. NumericLen /\ i - 1 \in 0 .. len /\ i \in 0 .. len
        /\ from + i \in Nat \ {0}
    BY <1>1
  <2>2. Powers[i] = Powers[i - 1] * Base /\ Powers[i - 1] \in Nat
    BY <2>1, PowersStep
  <2>3. PaddedByte(k, from + i) \in 0 .. (Base - 1)
    BY <1>1, <2>1, PaddedByteType
  <2>4. \A x, y \in Nat : x < y => x * Base + Base <= y * Base /\ x * Base \in Nat /\ y * Base \in Nat
    <3> SUFFICES ASSUME NEW x \in Nat, NEW y \in Nat, x < y
                 PROVE  x * Base + Base <= y * Base /\ x * Base \in Nat /\ y * Base \in Nat
      OBVIOUS
    <3>1. PICK e \in Nat : y = x + 1 + e
      BY y - x - 1 \in Nat
    <3>2. y * Base = x * Base + Base + e * Base /\ e * Base \in Nat /\ x * Base \in Nat
      BY <1>1, <3>1
    <3> QED BY <1>1, <3>2
  <2>5. d[i] = d[i - 1] * Base + PaddedByte(k, from + i) /\ d[i - 1] \in Nat /\ d[i - 1] < Powers[i - 1]
    BY <1>2, <1>4, <2>1
  <2> HIDE DEF d
  <2> QED BY <1>1, <2>1, <2>2, <2>3, <2>4, <2>5
<1> HIDE DEF T
<1>5. len \in T
  BY <1>1, <1>3, <1>4, UpTo
<1> QED BY <1>1, <1>2, <1>5, PowersStep DEF T, NumberOf

(* What restoreKey's shifts leave of a number, byte by byte.               *)
LEMMA ShiftedSteps ==
    ASSUME NEW x \in Nat, NEW len \in Nat
    PROVE  /\ \A i \in 0 .. len : Shifted(x, len)[i] \in Nat
           /\ Shifted(x, len)[0] = x
           /\ \A i \in 1 .. len : Shifted(x, len)[i] = Shifted(x, len)[i - 1] \div Base
<1> DEFINE f == [p \in (1 .. len) \X Nat |-> p[2] \div Base]
           s == Shifted(x, len)
<1>1. Base \in Nat \ {0}
  BY NumericConstants
<1>2. f \in [(1 .. len) \X Nat -> Nat]
  BY <1>1
<1> HIDE DEF f
<1>3. PICK g \in [0 .. len -> Nat] : IsStepwise(g, f, x, len)
  BY <1>2, Stepwise
<1>4. g[0] = x /\ \A i \in 1 .. len : g[i] = f[<<i, g[i - 1]>>]
  BY <1>3 DEF IsStepwise
<1>5. \A i \in 1 .. len : i - 1 \in 0 .. len /\ g[i - 1] \in Nat /\ g[i] = g[i - 1] \div Base
  <2> TAKE i \in 1 .. len
  <2>1. i - 1 \in 0 .. len
    OBVIOUS
  <2>2. g[i - 1] \in Nat
    BY <1>3, <2>1
  <2>3. <<i, g[i - 1]>> \in (1 .. len) \X Nat
    BY <2>2
  <2> QED BY <1>4, <2>1, <2>2, <2>3 DEF f
<1>6. g = [i \in 0 .. len |-> IF i = 0 THEN x ELSE g[i - 1] \div Base]
  BY <1>3, <1>4, <1>5
<1>7. s = [i \in 0 .. len |-> IF i = 0 THEN x ELSE s[i - 1] \div Base]
  BY <1>6 DEF Shifted
<1> HIDE DEF s
<1>8. s[0] = x
  BY <1>7
<1>9. \A i \in 1 .. len : s[i] = s[i - 1] \div Base
  BY <1>7
<1> DEFINE T == {i \in 0 .. len : s[i] \in Nat}
<1>10. 0 .. len \subseteq T
  <2>1. 0 \in T
    BY <1>8
  <2>2. ASSUME NEW i \in 1 .. len, i - 1 \in T PROVE i \in T
    <3>1. s[i - 1] \div Base \in Nat
      BY <1>1, <2>2, DivFacts
    <3> QED BY <1>9, <3>1
  <2> HIDE DEF T
  <2> QED BY <2>1, <2>2, UpTo
<1> QED BY <1>8, <1>9, <1>10 DEF s

LEMMA ToBytesType ==
    ASSUME NEW x \in Nat, NEW len \in Nat
    PROVE  /\ ToBytes(x, len) \in Bytes
           /\ Len(ToBytes(x, len)) = len
<1> DEFINE b == ToBytes(x, len)
<1>1. \A i \in 1 .. len : Shifted(x, len)[len - i] % Base \in Byte
  <2> TAKE i \in 1 .. len
  <2>1. len - i \in 0 .. len
    OBVIOUS
  <2>2. Shifted(x, len)[len - i] \in Nat
    BY <2>1, ShiftedSteps
  <2>3. Shifted(x, len)[len - i] % Base \in 0 .. (Base - 1)
    BY <2>2, DivFacts, NumericConstants
  <2>4. Base - 1 = MaxByte
    BY NumericConstants, MaxByteAssumption
  <2> QED BY <2>3, <2>4 DEF Byte
<1>2. b \in [1 .. len -> Byte]
  BY <1>1 DEF ToBytes
<1> QED BY <1>2 DEF Bytes

(* The bytes of the number that some bytes of a key make are those bytes.  *)
LEMMA BytesOfNumber ==
    ASSUME NEW k \in Bytes, NEW from \in Nat, NEW len \in Nat, from + len <= Len(k)
    PROVE  \A i \in 1 .. len : ToBytes(NumberOf(k, from, len), len)[i] = k[from + i]
<1> DEFINE d == Digits(k, from, len)
           x == NumberOf(k, from, len)
           s == Shifted(x, len)
           T == {j \in 0 .. len : s[j] = d[len - j]}
<1>1. Base \in Nat \ {0} /\ Base = MaxByte + 1 /\ MaxByte \in Nat /\ x \in Nat
  BY NumericConstants, MaxByteAssumption, NumberType
<1>2. /\ \A i \in 0 .. len : d[i] \in Nat
      /\ \A i \in 1 .. len : d[i] = d[i - 1] * Base + PaddedByte(k, from + i)
  BY DigitsStep
<1>3. s[0] = x /\ \A i \in 1 .. len : s[i] = s[i - 1] \div Base
  BY <1>1, ShiftedSteps
<1>4. \A i \in 1 .. len : PaddedByte(k, from + i) = k[from + i] /\ k[from + i] \in 0 .. (Base - 1)
  <2> TAKE i \in 1 .. len
  <2>1. from + i \in Nat \ {0} /\ from + i <= Len(k)
    BY BytesType
  <2>2. PaddedByte(k, from + i) = k[from + i]
    BY <2>1 DEF PaddedByte
  <2> QED BY <1>1, <2>1, <2>2, PaddedByteType
<1>5. \A i \in 1 .. len : d[i] \div Base = d[i - 1] /\ d[i] % Base = k[from + i]
  <2> TAKE i \in 1 .. len
  <2>1. i - 1 \in 0 .. len
    OBVIOUS
  <2>2. d[i] = d[i - 1] * Base + k[from + i] /\ d[i - 1] \in Nat
    BY <1>2, <1>4, <2>1
  <2>3. k[from + i] \in 0 .. (Base - 1)
    BY <1>4
  <2>4. (d[i - 1] * Base + k[from + i]) \div Base = d[i - 1]
        /\ (d[i - 1] * Base + k[from + i]) % Base = k[from + i]
    BY <1>1, <2>2, <2>3, DivMod
  <2> QED BY <2>2, <2>4
<1>6. 0 \in T
  BY <1>3 DEF NumberOf
<1>7. ASSUME NEW j \in 1 .. len, j - 1 \in T PROVE j \in T
  <2>1. len - (j - 1) \in 1 .. len /\ (len - (j - 1)) - 1 = len - j
    OBVIOUS
  <2> QED BY <1>3, <1>5, <1>7, <2>1
<1> HIDE DEF T
<1>8. 0 .. len \subseteq T
  BY <1>6, <1>7, UpTo
<1>9. \A i \in 1 .. len : len - i \in 0 .. len /\ len - (len - i) = i
  OBVIOUS
<1>10. \A i \in 1 .. len : s[len - i] = d[i]
  BY <1>8, <1>9 DEF T
<1> QED BY <1>5, <1>10 DEF ToBytes

(* The number that the bytes of a number make is the number.               *)
LEMMA NumberOfBytes ==
    ASSUME NEW a \in Bytes, NEW len \in 0 .. NumericLen, NEW x \in 0 .. (Powers[len] - 1)
    PROVE  NumberOf(a \o ToBytes(x, len), Len(a), len) = x
<1> DEFINE k == a \o ToBytes(x, len)
           from == Len(a)
           d == Digits(k, from, len)
           s == Shifted(x, len)
<1>1. /\ Base \in Nat \ {0} /\ Base = MaxByte + 1 /\ MaxByte \in Nat
      /\ x \in Nat /\ len \in Nat /\ from \in Nat /\ NumericLen \in Nat
  BY NumericConstants, MaxByteAssumption, BytesType, PowersStep
<1>2. /\ k \in Bytes /\ Len(k) = from + len
      /\ \A i \in 1 .. len : k[from + i] = s[len - i] % Base
  <2>1. ToBytes(x, len) \in Bytes /\ Len(ToBytes(x, len)) = len
    BY <1>1, ToBytesType
  <2>2. k \in Bytes /\ Len(k) = from + len /\ \A i \in 1 .. len : k[from + i] = ToBytes(x, len)[i]
    BY <1>1, <2>1 DEF Bytes
  <2> QED BY <2>2 DEF ToBytes
<1>3. /\ \A i \in 0 .. len : d[i] \in Nat
      /\ d[0] = 0
      /\ \A i \in 1 .. len : d[i] = d[i - 1] * Base + PaddedByte(k, from + i)
  <2>1. k \in Bytes /\ from \in Nat /\ len \in Nat /\ len \in 0 .. NumericLen
    BY <1>1, <1>2
  <2> HIDE DEF k, from
  <2> QED BY <2>1, DigitsStep
<1>4. \A i \in 1 .. len : PaddedByte(k, from + i) = s[len - i] % Base
  <2> TAKE i \in 1 .. len
  <2>1. from + i <= Len(k)
    BY <1>1, <1>2
  <2> QED BY <1>2, <2>1 DEF PaddedByte
<1>5. /\ \A i \in 0 .. len : s[i] \in Nat
      /\ s[0] = x
      /\ \A i \in 1 .. len : s[i] = s[i - 1] \div Base
  BY <1>1, ShiftedSteps
<1> DEFINE R == {i \in 0 .. len : s[i] < Powers[len - i]}
<1>6. 0 .. len \subseteq R
  <2>1. 0 \in R
    BY <1>1, <1>5, PowersStep
  <2>2. ASSUME NEW i \in 1 .. len, i - 1 \in R PROVE i \in R
    <3>1. len - (i - 1) \in 1 .. NumericLen /\ (len - (i - 1)) - 1 = len - i /\ len - i \in 0 .. NumericLen
          /\ i - 1 \in 0 .. len
      BY <1>1
    <3>2. Powers[len - (i - 1)] = Powers[len - i] * Base /\ Powers[len - i] \in Nat
      BY <3>1, PowersStep
    <3>3. s[i - 1] < Powers[len - i] * Base /\ s[i - 1] \in Nat
      BY <1>5, <2>2, <3>1, <3>2
    <3> HIDE DEF s
    <3>4. s[i - 1] \div Base < Powers[len - i]
      BY <1>1, <3>2, <3>3, DivBelow
    <3> QED BY <1>5, <3>4
  <2> HIDE DEF R
  <2> QED BY <1>1, <2>1, <2>2, UpTo
<1>7. s[len] = 0
  <2>1. s[len] < Powers[0] /\ s[len] \in Nat
    BY <1>1, <1>5, <1>6
  <2> QED BY <2>1, PowersStep
<1> DEFINE T == {i \in 0 .. len : d[i] = s[len - i]}
<1>8. 0 .. len \subseteq T
  <2>1. 0 \in T
    BY <1>1, <1>3, <1>7
  <2>2. ASSUME NEW i \in 1 .. len, i - 1 \in T PROVE i \in T
    <3>1. /\ len - i \in 0 .. len /\ (len - i) + 1 \in 1 .. len /\ len - (i - 1) = (len - i) + 1
          /\ ((len - i) + 1) - 1 = len - i
      BY <1>1
    <3>2. d[i - 1] = s[(len - i) + 1] /\ s[(len - i) + 1] = s[len - i] \div Base /\ s[len - i] \in Nat
      BY <1>5, <2>2, <3>1
    <3>3. d[i] = (s[len - i] \div Base) * Base + (s[len - i] % Base)
      BY <1>3, <1>4, <3>2
    <3>4. s[len - i] = (s[len - i] \div Base) * Base + (s[len - i] % Base)
      BY <1>1, <3>2, DivFacts
    <3>5. i \in 0 .. len /\ d[i] = s[len - i]
      BY <3>3, <3>4
    <3> QED BY <3>5
  <2> HIDE DEF T
  <2> QED BY <1>1, <2>1, <2>2, UpTo
<1> QED BY <1>1, <1>5, <1>8 DEF NumberOf

(***************************************************************************)
(* Keys and their numeric parts.                                           *)
(***************************************************************************)
(* Keys of len bytes that begin with the first bytes of a: only their      *)
(* numeric parts tell them apart.                                          *)
LikeFence(k, a, len) ==
    /\ k \in Bytes
    /\ Len(k) = len
    /\ \A j \in 1 .. ComputeNumericPrefixLength(len) : k[j] = a[j]

(* getNumericPart returns a number of the key's numeric bytes.             *)
LEMMA NumericPartBound ==
    ASSUME NEW k \in Bytes, NEW len \in Nat
    PROVE  /\ GetNumericPart(k, len) \in Nat
           /\ GetNumericPart(k, len) < Powers[ComputeNumericPartLen(len)]
           /\ GetNumericPart(k, len) < NumericLimit
<1> DEFINE part == ComputeNumericPartLen(len)
           x == GetNumericPart(k, len)
<1>1. part \in 0 .. NumericLen /\ ComputeNumericPrefixLength(len) \in Nat
      /\ ComputeNumericPrefixLength(len) = len - part
  BY PartLen DEF ComputeNumericPrefixLength
<1>2. x = NumberOf(k, ComputeNumericPrefixLength(len), part)
  BY <1>1 DEF GetNumericPart
<1> HIDE DEF x, part
<1>3. x \in 0 .. (Powers[part] - 1) /\ Powers[part] \in Nat \ {0} /\ Powers[part] <= NumericLimit
      /\ NumericLimit \in Nat
  BY <1>1, <1>2, NumberBound, PowersStep, PowersGrow
<1> QED BY <1>3 DEF x, part

(* What is known of such a key.                                            *)
LEMMA LikeFenceParts ==
    ASSUME NEW a \in Bytes, NEW len \in Nat, NEW k, LikeFence(k, a, len),
           Len(a) >= ComputeNumericPrefixLength(len)
    PROVE  LET p == ComputeNumericPrefixLength(len)
               c == ComputeNumericPartLen(len)
           IN  /\ p \in Nat /\ c \in Nat /\ p + c = len /\ c \in 0 .. NumericLen
               /\ k \in Bytes /\ Len(k) = len /\ len \in Nat
               /\ GetNumericPart(k, len) = NumberOf(k, p, c)
               /\ \A j \in 1 .. p : k[j] = a[j]
               /\ \A j \in 1 .. p : PaddedByte(k, j) = a[j] /\ PaddedByte(a, j) = a[j]
               /\ \A i \in 1 .. c : k[p + i] = ToBytes(GetNumericPart(k, len), c)[i]
<1> DEFINE p == ComputeNumericPrefixLength(len)
           c == ComputeNumericPartLen(len)
<1>1. /\ p \in Nat /\ c \in Nat /\ p + c = len /\ c \in 0 .. NumericLen /\ p = len - c
      /\ k \in Bytes /\ Len(k) = len
      /\ \A j \in 1 .. p : k[j] = a[j]
  BY PartLen, NumericConstants DEF LikeFence, ComputeNumericPrefixLength
<1>2. GetNumericPart(k, len) = NumberOf(k, p, c)
  BY <1>1 DEF GetNumericPart
<1>3. \A j \in 1 .. p : PaddedByte(k, j) = a[j] /\ PaddedByte(a, j) = a[j]
  <2> TAKE j \in 1 .. p
  <2>1. j <= Len(k) /\ j <= Len(a)
    BY <1>1, BytesType
  <2> QED BY <1>1, <2>1 DEF PaddedByte
<1>4. \A i \in 1 .. c : ToBytes(NumberOf(k, p, c), c)[i] = k[p + i]
  <2>1. p + c <= Len(k)
    BY <1>1
  <2> HIDE DEF p, c
  <2> QED BY <1>1, <2>1, BytesOfNumber
<1> QED BY <1>1, <1>2, <1>3, <1>4

(* The numeric part tells such keys apart: two keys never share a place.   *)
LEMMA SameNumberSameKey ==
    ASSUME NEW a \in Bytes, NEW len \in Nat, Len(a) >= ComputeNumericPrefixLength(len),
           NEW k, LikeFence(k, a, len), NEW l, LikeFence(l, a, len),
           GetNumericPart(k, len) = GetNumericPart(l, len)
    PROVE  k = l
<1> DEFINE p == ComputeNumericPrefixLength(len)
           c == ComputeNumericPartLen(len)
<1>1. /\ p \in Nat /\ c \in Nat /\ p + c = len
      /\ k \in Bytes /\ Len(k) = len /\ l \in Bytes /\ Len(l) = len
      /\ \A j \in 1 .. p : k[j] = a[j] /\ l[j] = a[j]
      /\ \A i \in 1 .. c : k[p + i] = ToBytes(GetNumericPart(k, len), c)[i]
      /\ \A i \in 1 .. c : l[p + i] = ToBytes(GetNumericPart(l, len), c)[i]
  BY LikeFenceParts
<1>2. ASSUME NEW j \in 1 .. len PROVE k[j] = l[j]
  <2>1. CASE j <= p
    BY <1>1, <2>1
  <2>2. CASE j > p
    <3>1. j - p \in 1 .. c /\ p + (j - p) = j
      BY <1>1, <2>2
    <3>2. k[p + (j - p)] = ToBytes(GetNumericPart(k, len), c)[j - p]
      BY <1>1, <3>1
    <3>3. l[p + (j - p)] = ToBytes(GetNumericPart(l, len), c)[j - p]
      BY <1>1, <3>1
    <3> QED BY <3>1, <3>2, <3>3
  <2> QED BY <1>1, <2>1, <2>2
<1> QED BY <1>1, <1>2, BytesEqual

(* The order of such keys is the order of their numeric parts.             *)
LEMMA NumericOrder ==
    ASSUME NEW a \in Bytes, NEW len \in Nat, Len(a) >= ComputeNumericPrefixLength(len),
           NEW k, LikeFence(k, a, len), NEW l, LikeFence(l, a, len)
    PROVE  /\ GetNumericPart(k, len) < GetNumericPart(l, len) <=> Less(k, l)
           /\ GetNumericPart(k, len) <= GetNumericPart(l, len) <=> Leq(k, l)
<1> DEFINE p == ComputeNumericPrefixLength(len)
           c == ComputeNumericPartLen(len)
           x == GetNumericPart(k, len)
           y == GetNumericPart(l, len)
<1>1. /\ p \in Nat /\ c \in Nat /\ k \in Bytes /\ l \in Bytes
      /\ x = NumberOf(k, p, c) /\ y = NumberOf(l, p, c)
      /\ \A j \in 1 .. p : PaddedByte(k, j) = PaddedByte(l, j)
      /\ \A j \in 1 .. p : PaddedByte(l, j) = PaddedByte(k, j)
  <2>1. /\ p \in Nat /\ c \in Nat /\ k \in Bytes /\ x = NumberOf(k, p, c)
        /\ \A j \in 1 .. p : PaddedByte(k, j) = a[j]
    BY LikeFenceParts
  <2>2. /\ l \in Bytes /\ y = NumberOf(l, p, c)
        /\ \A j \in 1 .. p : PaddedByte(l, j) = a[j]
    BY LikeFenceParts
  <2> QED BY <2>1, <2>2
<1>2. x \in Nat /\ y \in Nat
  BY <1>1, NumericPartBound
<1>3. x < y => Less(k, l)
  BY <1>1, NumbersDecide
<1>4. y < x => Less(l, k)
  BY <1>1, NumbersDecide
<1>5. x = y => k = l
  BY SameNumberSameKey
<1>6. k = l => x = y
  OBVIOUS
<1>7. ~ (Less(k, l) /\ Less(l, k)) /\ ~ Less(k, k)
  BY <1>1, LessIrreflexive, NotBoth DEF Leq
<1> HIDE DEF x, y
<1> QED BY <1>2, <1>3, <1>4, <1>5, <1>6, <1>7 DEF Leq, x, y

(* leastGreaterKey: no key above the fence has a smaller numeric part.     *)
LEMMA ArrayStartsBelow ==
    ASSUME NEW a \in Bytes, NEW len \in Nat \ {0}, Len(a) >= ComputeNumericPrefixLength(len),
           NEW k, LikeFence(k, a, len), AboveFence(k, a)
    PROVE  /\ GetNumericPart(k, len) >= LeastGreaterKey(a, len)
           /\ LeastGreaterKey(a, len) \in Nat
<1> DEFINE p == ComputeNumericPrefixLength(len)
           c == ComputeNumericPartLen(len)
           x == GetNumericPart(k, len)
           y == GetNumericPart(a, len)
<1>1. /\ p \in Nat /\ c \in Nat /\ p + c = len /\ k \in Bytes /\ Len(k) = len
      /\ x = NumberOf(k, p, c)
      /\ \A j \in 1 .. p : k[j] = a[j]
      /\ \A j \in 1 .. p : PaddedByte(k, j) = PaddedByte(a, j)
      /\ \A i \in 1 .. c : k[p + i] = ToBytes(x, c)[i]
  <2>1. len \in Nat
    OBVIOUS
  <2>2. /\ p \in Nat /\ c \in Nat /\ p + c = len /\ k \in Bytes /\ Len(k) = len
        /\ x = NumberOf(k, p, c)
        /\ \A j \in 1 .. p : k[j] = a[j]
        /\ \A j \in 1 .. p : PaddedByte(k, j) = a[j] /\ PaddedByte(a, j) = a[j]
        /\ \A i \in 1 .. c : k[p + i] = ToBytes(x, c)[i]
    BY <2>1, LikeFenceParts
  <2> QED BY <2>2
<1>2. y = NumberOf(a, p, c)
  BY DEF GetNumericPart, ComputeNumericPrefixLength
<1>3. x \in Nat /\ y \in Nat /\ Len(a) \in Nat
  BY <1>1, NumericPartBound, BytesType
<1>4. ~ Less(k, a)
  <2>1. a = << >> => ~ Less(k, a)
    BY <1>1, EmptyLess
  <2>2. Less(a, k) => ~ Less(k, a)
    BY <1>1, NotBoth DEF Leq
  <2> QED BY <2>1, <2>2 DEF AboveFence
<1>5. x >= y
  <2>1. x < y => Less(k, a)
    BY <1>1, <1>2, NumbersDecide
  <2> QED BY <1>3, <1>4, <2>1
<1>6. CASE Len(a) < len
  <2>1. LeastGreaterKey(a, len) = y
    BY <1>3, <1>6 DEF LeastGreaterKey
  <2> QED BY <1>3, <1>5, <2>1
<1>7. CASE Len(a) >= len
  <2>1. LeastGreaterKey(a, len) = y + 1
    BY <1>3, <1>7 DEF LeastGreaterKey
  <2>2. x # y
    <3>1. SUFFICES ASSUME x = y PROVE FALSE
      OBVIOUS
    <3>2. \A i \in 1 .. c : ToBytes(NumberOf(a, p, c), c)[i] = a[p + i]
      <4>1. p + c <= Len(a)
        BY <1>1, <1>7
      <4> HIDE DEF p, c
      <4> QED BY <1>1, <4>1, BytesOfNumber
    <3>3. \A j \in 1 .. len : k[j] = a[j]
      <4> TAKE j \in 1 .. len
      <4>1. CASE j <= p
        BY <1>1, <4>1
      <4>2. CASE j > p
        <5>1. j - p \in 1 .. c /\ p + (j - p) = j
          BY <1>1, <4>2
        <5>2. k[p + (j - p)] = ToBytes(x, c)[j - p] /\ a[p + (j - p)] = ToBytes(y, c)[j - p]
          BY <1>1, <1>2, <3>2, <5>1
        <5> HIDE DEF p, c
        <5> QED BY <3>1, <5>1, <5>2
      <4> QED BY <1>1, <4>1, <4>2
    <3>4. len \in 0 .. Len(a)
      BY <1>3, <1>7
    <3>5. /\ Take(a, len) \in Bytes /\ Len(Take(a, len)) = len
          /\ \A j \in 1 .. len : Take(a, len)[j] = a[j]
          /\ len < Len(a) => Less(Take(a, len), a)
      BY <3>4, TakeProperties
    <3>6. k = Take(a, len)
      <4> DEFINE t == Take(a, len)
      <4>1. t \in Bytes /\ Len(t) = Len(k) /\ \A j \in 1 .. Len(k) : k[j] = t[j]
        BY <1>1, <3>3, <3>5
      <4> HIDE DEF t
      <4>2. k = t
        BY <1>1, <4>1, BytesEqual
      <4> QED BY <4>2 DEF t
    <3>7. len = Len(a) => k = a
      BY <1>1, <3>3, BytesEqual
    <3>8. a # << >>
      BY <1>7, <1>3
    <3>9. Less(a, k)
      BY <3>8 DEF AboveFence
    <3>10. k # a
      BY <1>1, <3>9, LessIrreflexive
    <3> QED BY <1>3, <1>4, <1>7, <3>5, <3>6, <3>7, <3>10
  <2> QED BY <1>3, <1>5, <2>1, <2>2
<1> QED BY <1>3, <1>6, <1>7

(* A key between the fences of a page begins with the page's prefix.       *)
LEMMA SharesPagePrefix ==
    ASSUME NEW a \in Bytes, NEW b \in Bytes, NEW k \in Bytes, InFences(k, a, b)
    PROVE  /\ CommonPrefixLen(a, b) \in 0 .. Len(a)
           /\ SharePrefix(k, a, CommonPrefixLen(a, b))
<1> DEFINE n == CommonPrefixLen(a, b)
<1>1. n \in 0 .. Len(a) /\ SharePrefix(a, b, n)
  BY CommonPrefixProperties
<1>2. Len(a) \in Nat /\ Len(b) \in Nat /\ Len(k) \in Nat
  BY BytesType
<1>3. CASE a = << >> \/ b = << >>
  <2>1. n = 0
    BY <1>1, <1>2, <1>3 DEF SharePrefix
  <2> QED BY <1>1, <1>2, <2>1 DEF SharePrefix
<1>4. CASE a # << >> /\ b # << >>
  <2>1. Less(a, k) /\ Leq(k, b)
    BY <1>4 DEF InFences, AboveFence, BelowFence
  <2>2. SharePrefix(k, a, n)
    BY <1>1, <1>2, <2>1, BetweenSharesPrefix
  <2> QED BY <1>1, <2>2
<1> QED BY <1>3, <1>4

(***************************************************************************)
(* Dense pages.                                                            *)
(***************************************************************************)
Arrays == UNION {[0 .. (c - 1) -> Val \cup {NoVal}] : c \in Nat}

DensePage == [tag : {"dense"}, lower : Bytes, upper : Bytes, fullKeyLen : Nat, valLen : Nat,
              arrayStart : Nat, slotCount : Nat, occupiedCount : Nat, arr : Arrays]

(* Key k belongs into slot i of page n.                                    *)
HasPlace(n, k, i) ==
    /\ LikeFence(k, n.lower, n.fullKeyLen)
    /\ InFences(k, n.lower, n.upper)
    /\ GetNumericPart(k, n.fullKeyLen) = n.arrayStart + i

(* A page on which the code finds what was stored: the array begins with   *)
(* the first key above the fence, and every payload in it was stored for   *)
(* a key that belongs there.                                               *)
ValidDense(n) ==
    /\ n \in DensePage
    /\ n.arr \in [Indices(n) -> Val \cup {NoVal}]
    /\ n.fullKeyLen >= 1 /\ n.slotCount >= 1
    /\ Len(n.lower) >= ComputeNumericPrefixLength(n.fullKeyLen)
    /\ n.arrayStart = LeastGreaterKey(n.lower, n.fullKeyLen)
    /\ \A i \in Occupied(n) :
          /\ PayloadLen[n.arr[i]] = n.valLen
          /\ \E k \in Key : HasPlace(n, k, i)

(* ... and that does not overflow and counts its records.                  *)
DenseOK(n) ==
    /\ ValidDense(n)
    /\ n.occupiedCount = Cardinality(Occupied(n))
    /\ ArrayEnd(n.slotCount, n.valLen) <= FencesOffset(n.lower, n.upper, n.fullKeyLen)

(* What is known of a sound dense page.                                    *)
LEMMA DenseFacts ==
    ASSUME NEW n, ValidDense(n)
    PROVE  /\ n.lower \in Bytes /\ n.upper \in Bytes
           /\ n.fullKeyLen \in Nat \ {0} /\ n.fullKeyLen \in Nat
           /\ n.slotCount \in Nat \ {0}
           /\ n.valLen \in Nat /\ n.arrayStart \in Nat
           /\ Len(n.lower) >= ComputeNumericPrefixLength(n.fullKeyLen)
           /\ n.arrayStart = LeastGreaterKey(n.lower, n.fullKeyLen)
           /\ \A i \in Indices(n) : i \in Nat /\ n.arr[i] \in Val \cup {NoVal}
           /\ Occupied(n) \subseteq Indices(n)
           /\ \A i \in Occupied(n) : n.arr[i] \in Val
           /\ IsDense(n)
<1>1. /\ n.lower \in Bytes /\ n.upper \in Bytes /\ n.tag = "dense"
      /\ n.fullKeyLen \in Nat /\ n.slotCount \in Nat /\ n.valLen \in Nat /\ n.arrayStart \in Nat
      /\ n.fullKeyLen >= 1 /\ n.slotCount >= 1
  BY DEF ValidDense, DensePage
<1>2. /\ Len(n.lower) >= ComputeNumericPrefixLength(n.fullKeyLen)
      /\ n.arrayStart = LeastGreaterKey(n.lower, n.fullKeyLen)
      /\ n.arr \in [Indices(n) -> Val \cup {NoVal}]
  BY DEF ValidDense
<1>3. \A i \in Indices(n) : i \in Nat /\ n.arr[i] \in Val \cup {NoVal}
  <2>1. \A i \in Indices(n) : i \in Nat
    BY <1>1 DEF Indices
  <2> QED BY <1>2, <2>1
<1>4. Occupied(n) \subseteq Indices(n) /\ \A i \in Occupied(n) : n.arr[i] \in Val
  BY <1>3 DEF Occupied
<1> QED BY <1>1, <1>2, <1>3, <1>4 DEF IsDense

(* restoreKey returns the key whose place is i: inserting a key and        *)
(* reading it back agree.                                                  *)
LEMMA PlacedKey ==
    ASSUME NEW n, ValidDense(n), NEW k, NEW i \in Nat, HasPlace(n, k, i)
    PROVE  RestoreKey(n, i) = k
<1> DEFINE p == ComputeNumericPrefixLength(n.fullKeyLen)
           c == ComputeNumericPartLen(n.fullKeyLen)
           x == GetNumericPart(k, n.fullKeyLen)
           a == Take(n.lower, p)
           b == ToBytes(x, c)
<1>1. /\ n.lower \in Bytes /\ n.fullKeyLen \in Nat /\ Len(n.lower) >= p /\ n.arrayStart \in Nat
      /\ LikeFence(k, n.lower, n.fullKeyLen) /\ x = n.arrayStart + i
  BY DenseFacts DEF HasPlace
<1>2. /\ p \in Nat /\ c \in Nat /\ p + c = n.fullKeyLen
      /\ k \in Bytes /\ Len(k) = n.fullKeyLen
      /\ \A j \in 1 .. p : k[j] = n.lower[j]
      /\ \A j \in 1 .. c : k[p + j] = b[j]
  BY <1>1, LikeFenceParts
<1>3. x \in Nat /\ x < NumericLimit /\ NumericLimit \in Nat
  <2>1. 0 \in 0 .. NumericLen
    BY NumericConstants
  <2> QED BY <1>1, <1>2, <2>1, NumericPartBound, PowersGrow
<1>4. (n.arrayStart + i) % NumericLimit = x
  <2>1. n.arrayStart + i = x
    BY <1>1
  <2> HIDE DEF x
  <2>2. x % NumericLimit = x
    BY <1>3
  <2> QED BY <2>1, <2>2
<1>5. a \in Bytes /\ Len(a) = p /\ \A j \in 1 .. p : a[j] = n.lower[j]
  <2>1. p \in 0 .. Len(n.lower)
    BY <1>1, <1>2, BytesType
  <2> HIDE DEF p
  <2> QED BY <1>1, <2>1, TakeProperties
<1>6. b \in Bytes /\ Len(b) = c
  BY <1>2, <1>3, ToBytesType
<1>7. RestoreKey(n, i) = a \o b
  BY <1>4 DEF RestoreKey
<1> DEFINE r == a \o b
<1> HIDE DEF a, b, p, c
<1>8. /\ r \in Bytes /\ Len(r) = p + c
      /\ \A j \in 1 .. (p + c) : r[j] = IF j <= p THEN a[j] ELSE b[j - p]
  <2>1. a \in Seq(Byte) /\ b \in Seq(Byte)
    BY <1>5, <1>6 DEF Bytes
  <2>2. /\ r \in Seq(Byte) /\ Len(r) = Len(a) + Len(b)
        /\ \A j \in 1 .. (Len(a) + Len(b)) : r[j] = IF j <= Len(a) THEN a[j] ELSE b[j - Len(a)]
    BY <2>1, ConcatProperties
  <2> QED BY <1>5, <1>6, <2>2 DEF Bytes
<1> HIDE DEF r
<1>9. \A j \in 1 .. Len(k) : k[j] = r[j]
  <2> TAKE j \in 1 .. Len(k)
  <2>1. CASE j <= p
    <3>1. j \in 1 .. p /\ j \in 1 .. (p + c)
      BY <1>2, <2>1
    <3>2. k[j] = n.lower[j] /\ a[j] = n.lower[j]
      BY <1>2, <1>5, <3>1
    <3>3. r[j] = a[j]
      BY <1>8, <2>1, <3>1
    <3> QED BY <3>2, <3>3
  <2>2. CASE j > p
    <3>1. j - p \in 1 .. c /\ p + (j - p) = j
      BY <1>2, <2>2
    <3>2. k[p + (j - p)] = b[j - p]
      BY <1>2, <3>1
    <3> QED BY <1>2, <1>8, <2>2, <3>1, <3>2
  <2> QED BY <1>2, <2>1, <2>2
<1>10. r \in Bytes /\ Len(k) = Len(r) /\ \A j \in 1 .. Len(k) : k[j] = r[j]
  BY <1>2, <1>8, <1>9
<1>11. k = r
  BY <1>2, <1>10, BytesEqual
<1> QED BY <1>7, <1>11 DEF r

(* keyToIndex finds the place of a key that the page is responsible for.   *)
LEMMA IndexOfKey ==
    ASSUME NEW n, ValidDense(n), NEW k \in Bytes, InFences(k, n.lower, n.upper)
    PROVE  /\ KeyToIndex(n, k) >= 0 =>
                 KeyToIndex(n, k) \in Indices(n) /\ HasPlace(n, k, KeyToIndex(n, k))
           /\ LikeFence(k, n.lower, n.fullKeyLen) =>
                 /\ GetNumericPart(k, n.fullKeyLen) - n.arrayStart \in Nat
                 /\ GetNumericPart(k, n.fullKeyLen) - n.arrayStart < n.slotCount <=> KeyToIndex(n, k) >= 0
           /\ Len(k) = n.fullKeyLen /\ SharesNumericPrefix(n, k) => LikeFence(k, n.lower, n.fullKeyLen)
<1> DEFINE p == ComputeNumericPrefixLength(n.fullKeyLen)
           x == GetNumericPart(k, n.fullKeyLen)
           index == (x - n.arrayStart) % NumericLimit
<1>1. /\ n.lower \in Bytes /\ n.upper \in Bytes /\ n.fullKeyLen \in Nat \ {0} /\ n.fullKeyLen \in Nat
      /\ Len(n.lower) >= p /\ n.arrayStart \in Nat /\ n.slotCount \in Nat
      /\ n.arrayStart = LeastGreaterKey(n.lower, n.fullKeyLen)
  BY DenseFacts
<1>2. p \in Nat /\ p <= n.fullKeyLen
  BY <1>1, PartLen, NumericConstants
<1>3. PrefixLen(n) \in Nat /\ \A j \in 1 .. PrefixLen(n) : k[j] = n.lower[j]
  <2>1. PrefixLen(n) \in 0 .. Len(n.lower) /\ SharePrefix(k, n.lower, PrefixLen(n))
    BY <1>1, SharesPagePrefix DEF PrefixLen
  <2> QED BY <1>1, <2>1, BytesType DEF SharePrefix
<1>4. ASSUME Len(k) = n.fullKeyLen, SharesNumericPrefix(n, k)
      PROVE  LikeFence(k, n.lower, n.fullKeyLen)
  <2>1. \A j \in 1 .. p : k[j] = n.lower[j]
    <3> TAKE j \in 1 .. p
    <3>1. CASE j <= PrefixLen(n)
      BY <1>2, <1>3, <3>1
    <3>2. CASE j > PrefixLen(n)
      <4>1. j \in (PrefixLen(n) + 1) .. p
        BY <1>2, <1>3, <3>2
      <4> QED BY <1>4, <4>1 DEF SharesNumericPrefix
    <3> QED BY <1>2, <1>3, <3>1, <3>2
  <2> QED BY <1>4, <2>1 DEF LikeFence
<1>5. ASSUME LikeFence(k, n.lower, n.fullKeyLen)
      PROVE  /\ x - n.arrayStart \in Nat /\ index = x - n.arrayStart /\ x \in Nat
             /\ Len(k) = n.fullKeyLen /\ SharesNumericPrefix(n, k)
  <2>1. AboveFence(k, n.lower)
    BY DEF InFences
  <2>2. x >= n.arrayStart
    BY <1>1, <1>5, <2>1, ArrayStartsBelow
  <2>3. x \in Nat /\ x < NumericLimit /\ NumericLimit \in Nat
    <3>1. 0 \in 0 .. NumericLen
      BY NumericConstants
    <3> QED BY <1>1, <3>1, NumericPartBound, PowersGrow
  <2>4. Len(k) = n.fullKeyLen /\ SharesNumericPrefix(n, k)
    BY <1>1, <1>2, <1>3, <1>5 DEF LikeFence, SharesNumericPrefix
  <2> HIDE DEF x
  <2> QED BY <1>1, <2>2, <2>3, <2>4
<1>6. ASSUME KeyToIndex(n, k) >= 0
      PROVE  /\ Len(k) = n.fullKeyLen /\ SharesNumericPrefix(n, k)
             /\ KeyToIndex(n, k) = index /\ index < n.slotCount
  <2> HIDE DEF index
  <2> QED BY <1>6 DEF KeyToIndex, index, WrongLen, NotNumericRange, SlightlyTooLarge, FarTooLarge
<1>7. ASSUME KeyToIndex(n, k) >= 0
      PROVE  KeyToIndex(n, k) \in Indices(n) /\ HasPlace(n, k, KeyToIndex(n, k))
  <2>1. LikeFence(k, n.lower, n.fullKeyLen)
    BY <1>4, <1>6, <1>7
  <2>2. x - n.arrayStart \in Nat /\ x \in Nat /\ KeyToIndex(n, k) = x - n.arrayStart
        /\ x - n.arrayStart < n.slotCount
    BY <1>5, <1>6, <1>7, <2>1
  <2> HIDE DEF x
  <2>3. KeyToIndex(n, k) \in Indices(n) /\ x = n.arrayStart + KeyToIndex(n, k)
    BY <1>1, <2>2 DEF Indices
  <2> QED BY <2>1, <2>3 DEF HasPlace, x
<1>8. ASSUME LikeFence(k, n.lower, n.fullKeyLen), x - n.arrayStart < n.slotCount
      PROVE  KeyToIndex(n, k) >= 0
  <2>1. KeyToIndex(n, k) = index
    <3>1. index < n.slotCount
      BY <1>5, <1>8
    <3> QED BY <1>5, <1>8, <3>1 DEF KeyToIndex
  <2> QED BY <1>5, <1>8, <2>1
<1> QED BY <1>4, <1>5, <1>6, <1>7, <1>8

(***************************************************************************)
(* The records of a dense page.                                            *)
(***************************************************************************)
RecordOf(n, i) == [key |-> RestoreKey(n, i), val |-> n.arr[i]]

(* An occupied slot is the record of a key of the tree.                    *)
LEMMA RestoredKey ==
    ASSUME NEW n, ValidDense(n), NEW i \in Occupied(n)
    PROVE  /\ RestoreKey(n, i) \in Key /\ RestoreKey(n, i) \in Bytes
           /\ HasPlace(n, RestoreKey(n, i), i)
           /\ RecordOf(n, i) \in LeafSlot
           /\ i \in Nat
<1>1. PICK k \in Key : HasPlace(n, k, i)
  BY DEF ValidDense
<1>2. i \in Nat /\ n.arr[i] \in Val
  BY DenseFacts
<1>3. RestoreKey(n, i) = k
  BY <1>1, <1>2, PlacedKey
<1> QED BY <1>1, <1>2, <1>3, BTreeAssumption DEF RecordOf, LeafSlot

(* Slots restore keys in the order of the array.                           *)
LEMMA RestoredInOrder ==
    ASSUME NEW n, ValidDense(n), NEW i \in Occupied(n), NEW j \in Occupied(n), i < j
    PROVE  Less(RestoreKey(n, i), RestoreKey(n, j))
<1> DEFINE k == RestoreKey(n, i)
           l == RestoreKey(n, j)
<1>1. HasPlace(n, k, i) /\ HasPlace(n, l, j) /\ i \in Nat /\ j \in Nat
  BY RestoredKey
<1>2. /\ n.lower \in Bytes /\ n.fullKeyLen \in Nat /\ n.arrayStart \in Nat
      /\ Len(n.lower) >= ComputeNumericPrefixLength(n.fullKeyLen)
  BY DenseFacts
<1> HIDE DEF k, l
<1>3. /\ LikeFence(k, n.lower, n.fullKeyLen) /\ LikeFence(l, n.lower, n.fullKeyLen)
      /\ GetNumericPart(k, n.fullKeyLen) = n.arrayStart + i
      /\ GetNumericPart(l, n.fullKeyLen) = n.arrayStart + j
  BY <1>1 DEF HasPlace
<1>4. GetNumericPart(k, n.fullKeyLen) < GetNumericPart(l, n.fullKeyLen)
  BY <1>1, <1>2, <1>3
<1>5. Less(k, l)
  BY <1>2, <1>3, <1>4, NumericOrder
<1> QED BY <1>5 DEF k, l

(* The loop that copies the records, slot by slot.                         *)
LEMMA CopyingSteps ==
    ASSUME NEW n, ValidDense(n)
    PROVE  /\ CopyRecords(n)[0] = << >>
           /\ \A i \in 1 .. n.slotCount :
                 CopyRecords(n)[i] =
                    IF n.arr[i - 1] = NoVal THEN CopyRecords(n)[i - 1]
                    ELSE Append(CopyRecords(n)[i - 1], RecordOf(n, i - 1))
<1> DEFINE X == Seq(LeafSlot)
           c == n.slotCount
           next(i, s) == IF n.arr[i - 1] = NoVal THEN s ELSE Append(s, RecordOf(n, i - 1))
           f == [p \in (1 .. c) \X X |-> next(p[1], p[2])]
           copied == CopyRecords(n)
<1>1. c \in Nat /\ << >> \in X
  BY DenseFacts
<1>2. ASSUME NEW i \in 1 .. c, NEW s \in X PROVE next(i, s) \in X
  <2>1. CASE n.arr[i - 1] = NoVal
    BY <2>1
  <2>2. CASE n.arr[i - 1] # NoVal
    <3>1. i - 1 \in Occupied(n)
      BY <1>1, <2>2 DEF Occupied, Indices
    <3>2. RecordOf(n, i - 1) \in LeafSlot
      BY <3>1, RestoredKey
    <3> HIDE DEF RecordOf
    <3> QED BY <2>2, <3>2
  <2> QED BY <2>1, <2>2
<1>3. f \in [(1 .. c) \X X -> X]
  <2> HIDE DEF X, next
  <2> QED BY <1>2
<1> HIDE DEF f, X, c
<1>4. PICK g \in [0 .. c -> X] : IsStepwise(g, f, << >>, c)
  BY <1>1, <1>3, Stepwise
<1>5. g[0] = << >> /\ \A i \in 1 .. c : g[i] = f[<<i, g[i - 1]>>]
  BY <1>4 DEF IsStepwise
<1>6. \A i \in 1 .. c : g[i] = next(i, g[i - 1])
  <2> TAKE i \in 1 .. c
  <2>1. i - 1 \in 0 .. c
    BY <1>1
  <2>2. g[i - 1] \in X
    BY <1>4, <2>1
  <2> HIDE DEF next
  <2> QED BY <1>5, <2>2 DEF f
<1>7. g = [i \in 0 .. c |-> IF i = 0 THEN << >> ELSE next(i, g[i - 1])]
  <2> HIDE DEF next
  <2> QED BY <1>1, <1>4, <1>5, <1>6
<1>8. copied = [i \in 0 .. c |-> IF i = 0 THEN << >> ELSE next(i, copied[i - 1])]
  BY <1>7 DEF CopyRecords, RecordOf, c
<1> HIDE DEF copied, next
<1>9. copied[0] = << >> /\ \A i \in 1 .. c : copied[i] = next(i, copied[i - 1])
  BY <1>1, <1>8
<1> QED BY <1>9 DEF c, copied, next

(* What the loop has copied after i slots.                                 *)
Copied(n, i, s) ==
    /\ s \in Seq(LeafSlot)
    /\ \A m \in 1 .. Len(s) : \E j \in Occupied(n) : j < i /\ s[m] = RecordOf(n, j)
    /\ \A m, o \in 1 .. Len(s) : m < o => Less(s[m].key, s[o].key)
    /\ Len(s) = Cardinality({j \in Occupied(n) : j < i})

(* One more slot: the records copied so far stay ordered, and stand for    *)
(* the occupied slots passed so far.                                       *)
LEMMA CopiedNext ==
    ASSUME NEW n, ValidDense(n), NEW i \in 1 .. n.slotCount, NEW s, Copied(n, i - 1, s)
    PROVE  Copied(n, i, IF n.arr[i - 1] = NoVal THEN s ELSE Append(s, RecordOf(n, i - 1)))
<1> DEFINE T(c) == {j \in Occupied(n) : j < c}
<1>1. n.slotCount \in Nat /\ Occupied(n) \subseteq 0 .. (n.slotCount - 1) /\ i - 1 \in 0 .. (n.slotCount - 1)
  BY DenseFacts DEF Indices
<1>2. /\ s \in Seq(LeafSlot) /\ Len(s) \in Nat
      /\ \A m \in 1 .. Len(s) : \E j \in Occupied(n) : j < i - 1 /\ s[m] = RecordOf(n, j)
      /\ \A m, o \in 1 .. Len(s) : m < o => Less(s[m].key, s[o].key)
      /\ Len(s) = Cardinality(T(i - 1))
  BY DEF Copied
<1>3. CASE n.arr[i - 1] = NoVal
  <2>1. i - 1 \notin Occupied(n)
    BY <1>3 DEF Occupied
  <2>2. T(i) = T(i - 1)
    BY <1>1, <2>1
  <2>3. \A m \in 1 .. Len(s) : \E j \in Occupied(n) : j < i /\ s[m] = RecordOf(n, j)
    BY <1>1, <1>2
  <2> QED BY <1>2, <1>3, <2>2, <2>3 DEF Copied
<1>4. CASE n.arr[i - 1] # NoVal
  <2> DEFINE e == RecordOf(n, i - 1)
             t == Append(s, e)
  <2>1. i - 1 \in Occupied(n)
    BY <1>1, <1>4 DEF Occupied, Indices
  <2>2. T(i) = T(i - 1) \cup {i - 1} /\ i - 1 \notin T(i - 1)
    BY <1>1, <2>1
  <2>3. IsFiniteSet(T(i - 1))
    <3>1. T(i - 1) \in SUBSET (0 .. (n.slotCount - 1))
      BY <1>1
    <3>2. 0 \in Int /\ n.slotCount - 1 \in Int
      BY <1>1
    <3>3. IsFiniteSet(0 .. (n.slotCount - 1))
      BY <3>2, FS_Interval
    <3> QED BY <3>1, <3>3, FS_Subset
  <2>4. Cardinality(T(i)) = Len(s) + 1
    <3> HIDE DEF T
    <3>1. Cardinality(T(i - 1) \cup {i - 1}) = Cardinality(T(i - 1)) + 1
      BY <2>2, <2>3, FS_AddElement
    <3>2. Len(s) = Cardinality(T(i - 1))
      BY <1>2
    <3> QED BY <2>2, <3>1, <3>2
  <2>5. e \in LeafSlot /\ e.key = RestoreKey(n, i - 1)
    BY <2>1, RestoredKey DEF RecordOf
  <2> HIDE DEF e
  <2>6. /\ t \in Seq(LeafSlot) /\ Len(t) = Len(s) + 1
        /\ \A m \in 1 .. Len(s) : t[m] = s[m]
        /\ t[Len(s) + 1] = e
    <3>1. s \in Seq(LeafSlot) /\ e \in LeafSlot
      BY <1>2, <2>5
    <3> QED BY <3>1, AppendProperties
  <2> HIDE DEF t
  <2>7. ASSUME NEW m \in 1 .. Len(t)
        PROVE  \E j \in Occupied(n) : j < i /\ t[m] = RecordOf(n, j)
    <3>1. CASE m \in 1 .. Len(s)
      <4>1. PICK j \in Occupied(n) : j < i - 1 /\ s[m] = RecordOf(n, j)
        BY <1>2, <3>1
      <4> QED BY <1>1, <2>6, <3>1, <4>1
    <3>2. CASE m = Len(s) + 1
      <4>1. i - 1 < i /\ t[m] = RecordOf(n, i - 1)
        BY <2>6, <3>2 DEF e
      <4> QED BY <2>1, <4>1
    <3> QED BY <1>2, <2>6, <3>1, <3>2
  <2>8. ASSUME NEW m \in 1 .. Len(t), NEW o \in 1 .. Len(t), m < o
        PROVE  Less(t[m].key, t[o].key)
    <3>1. CASE o \in 1 .. Len(s)
      <4>1. m \in 1 .. Len(s)
        BY <1>2, <2>8, <3>1
      <4> QED BY <1>2, <2>6, <2>8, <3>1, <4>1
    <3>2. CASE o = Len(s) + 1
      <4>1. m \in 1 .. Len(s)
        BY <1>2, <2>8, <3>2
      <4>2. PICK j \in Occupied(n) : j < i - 1 /\ s[m] = RecordOf(n, j)
        BY <1>2, <4>1
      <4>3. t[m].key = RestoreKey(n, j)
        BY <2>6, <4>1, <4>2 DEF RecordOf
      <4>4. Less(RestoreKey(n, j), RestoreKey(n, i - 1))
        BY <2>1, <4>2, RestoredInOrder
      <4> QED BY <2>5, <2>6, <3>2, <4>3, <4>4
    <3> QED BY <1>2, <2>6, <3>1, <3>2
  <2>9. Copied(n, i, t)
    BY <2>4, <2>6, <2>7, <2>8 DEF Copied
  <2> QED BY <1>4, <2>9 DEF t, e
<1> QED BY <1>3, <1>4

(* The records of a dense page are ordered, lie between its fences, and    *)
(* are as many as its occupied slots.                                      *)
LEMMA RecordsOK ==
    ASSUME NEW n, ValidDense(n)
    PROVE  /\ Records(n) \in Seq(LeafSlot)
           /\ \A m \in 1 .. Len(Records(n)) : \E j \in Occupied(n) : Records(n)[m] = RecordOf(n, j)
           /\ \A m, o \in 1 .. Len(Records(n)) : m < o => Less(Records(n)[m].key, Records(n)[o].key)
           /\ Len(Records(n)) = Cardinality(Occupied(n))
<1> DEFINE c == n.slotCount
           T == {i \in 0 .. c : Copied(n, i, CopyRecords(n)[i])}
<1>1. c \in Nat /\ Occupied(n) \subseteq 0 .. (c - 1)
  BY DenseFacts DEF Indices
<1>2. 0 \in T
  <2>1. {j \in Occupied(n) : j < 0} = {}
    BY <1>1
  <2>2. Copied(n, 0, << >>)
    BY <2>1, FS_EmptySet DEF Copied
  <2> QED BY <1>1, <2>2, CopyingSteps
<1>3. ASSUME NEW i \in 1 .. c, i - 1 \in T PROVE i \in T
  <2>1. Copied(n, i - 1, CopyRecords(n)[i - 1])
    BY <1>3
  <2>2. Copied(n, i, IF n.arr[i - 1] = NoVal THEN CopyRecords(n)[i - 1]
                     ELSE Append(CopyRecords(n)[i - 1], RecordOf(n, i - 1)))
    BY <2>1, CopiedNext
  <2>3. Copied(n, i, CopyRecords(n)[i])
    BY <2>2, CopyingSteps
  <2> QED BY <2>3
<1> HIDE DEF T
<1>4. c \in T
  BY <1>1, <1>2, <1>3, UpTo
<1>5. Copied(n, c, Records(n))
  BY <1>4 DEF T, Records
<1>6. {j \in Occupied(n) : j < c} = Occupied(n)
  BY <1>1
<1> QED BY <1>5, <1>6 DEF Copied

(* The basic leaf that a dense page stands for is one that lowerBound can  *)
(* search.                                                                 *)
LEMMA ShownDenseOK ==
    ASSUME NEW n, ValidDense(n), NEW b, b = ConvertToBasic(n)
    PROVE  /\ b \in Page /\ PageOK(b) /\ IsLeaf(b) /\ ~IsDense(b)
           /\ b.lower = n.lower /\ b.upper = n.upper
           /\ Count(b) = Cardinality(Occupied(n))
           /\ \A m \in 1 .. Count(b) :
                 /\ b.slot[m] \in LeafSlot
                 /\ Len(b.slot[m].key) = n.fullKeyLen
                 /\ PayloadLen[b.slot[m].val] = n.valLen
<1> DEFINE s == Records(n)
<1>1. /\ s \in Seq(LeafSlot)
      /\ \A m \in 1 .. Len(s) : \E j \in Occupied(n) : s[m] = RecordOf(n, j)
      /\ \A m, o \in 1 .. Len(s) : m < o => Less(s[m].key, s[o].key)
      /\ Len(s) = Cardinality(Occupied(n))
  BY RecordsOK
<1>2. n.lower \in Bytes /\ n.upper \in Bytes
  BY DenseFacts
<1>3. b = Leaf(n.lower, n.upper, s)
  BY DEF ConvertToBasic
<1> HIDE DEF s
<1>4. /\ b \in Page /\ IsLeaf(b) /\ b.lower = n.lower /\ b.upper = n.upper /\ b.slot = s
  BY <1>1, <1>2, <1>3, LeafFields
<1>5. ASSUME NEW m \in 1 .. Len(s)
      PROVE  /\ s[m] \in LeafSlot /\ InFences(s[m].key, n.lower, n.upper)
             /\ Len(s[m].key) = n.fullKeyLen /\ PayloadLen[s[m].val] = n.valLen
  <2>1. PICK j \in Occupied(n) : s[m] = RecordOf(n, j)
    BY <1>1
  <2>2. s[m].key = RestoreKey(n, j) /\ s[m].val = n.arr[j]
    BY <2>1 DEF RecordOf
  <2>3. HasPlace(n, RestoreKey(n, j), j) /\ RecordOf(n, j) \in LeafSlot /\ PayloadLen[n.arr[j]] = n.valLen
    BY RestoredKey DEF ValidDense
  <2> QED BY <2>1, <2>2, <2>3 DEF HasPlace, LikeFence
<1>6. PageOK(b)
  BY <1>1, <1>4, <1>5 DEF PageOK, Count
<1>7. ~IsDense(b)
  BY <1>4 DEF IsLeaf, IsDense
<1> QED BY <1>1, <1>4, <1>5, <1>6, <1>7 DEF Count

(***************************************************************************)
(* Sizes of dense pages.                                                   *)
(***************************************************************************)
LEMMA MaxExists ==
    ASSUME NEW S \in SUBSET Nat, S # {}, NEW b \in Nat, \A x \in S : x <= b
    PROVE  Max(S) \in S /\ \A x \in S : x <= Max(S)
<1> DEFINE T == {b - x : x \in S}
<1>1. T \in SUBSET Nat /\ T # {}
  OBVIOUS
<1> HIDE DEF T
<1>2. PICK m \in T : \A t \in T : m <= t
  BY <1>1, NatMin
<1>3. PICK x \in S : m = b - x
  BY <1>2 DEF T
<1>4. \A y \in S : y <= x
  <2> TAKE y \in S
  <2>1. b - y \in T
    BY DEF T
  <2>2. m <= b - y /\ y \in Nat /\ x \in Nat
    BY <1>2, <2>1
  <2> QED BY <1>3, <2>2
<1>5. \E z \in S : \A y \in S : z >= y
  BY <1>4
<1>6. Max(S) \in S /\ \A y \in S : Max(S) >= y
  BY <1>5 DEF Max
<1> QED BY <1>6

(* The larger of two numbers.                                              *)
LEMMA MaxOfTwo ==
    ASSUME NEW a \in Nat, NEW b \in Nat
    PROVE  Max({a, b}) = IF a >= b THEN a ELSE b
<1>1. \E z \in {a, b} : \A y \in {a, b} : z >= y
  OBVIOUS
<1>2. Max({a, b}) \in {a, b} /\ \A y \in {a, b} : Max({a, b}) >= y
  BY <1>1 DEF Max
<1> QED BY <1>2

(* The words that a bit mask for slotCount slots takes.                    *)
LEMMA MaskFacts ==
    /\ MaskBits \in Nat \ {0} /\ MaskBytes \in Nat \ {0} /\ DenseHeader \in Nat
    /\ MaskBits \div MaskBytes \in Nat \ {0}
    /\ DenseHeader + MaskBytes <= HeaderSize + 2 * SlotSize
    /\ MaskWordCount(0) = 0 /\ MaskWordCount(1) = 1
    /\ \A c \in Nat : MaskWordCount(c) \in Nat
<1>1. /\ MaskBits \in Nat \ {0} /\ MaskBytes \in Nat \ {0} /\ DenseHeader \in Nat
      /\ MaskBits % MaskBytes = 0
      /\ DenseHeader + MaskBytes <= HeaderSize + 2 * SlotSize
  BY DenseAssumption
<1>2. MaskBits \div MaskBytes \in Nat \ {0}
  <2>1. /\ MaskBits \div MaskBytes \in Nat
        /\ MaskBits = (MaskBits \div MaskBytes) * MaskBytes + (MaskBits % MaskBytes)
    BY <1>1, DivFacts
  <2> QED BY <1>1, <2>1
<1>3. MaskWordCount(0) = 0
  <2>1. (0 * MaskBits + (MaskBits - 1)) \div MaskBits = 0
    BY <1>1, DivMod
  <2> QED BY <1>1, <2>1 DEF MaskWordCount
<1>4. MaskWordCount(1) = 1
  <2>1. (1 * MaskBits + 0) \div MaskBits = 1
    BY <1>1, DivMod
  <2> QED BY <1>1, <2>1 DEF MaskWordCount
<1>5. \A c \in Nat : MaskWordCount(c) \in Nat
  <2> TAKE c \in Nat
  <2>1. c + MaskBits - 1 \in Nat
    BY <1>1
  <2> QED BY <1>1, <2>1, DivFacts DEF MaskWordCount
<1> QED BY <1>1, <1>2, <1>3, <1>4, <1>5

(* The array begins in front of the fences if one payload has room.        *)
LEMMA SlotCountFits ==
    ASSUME NEW v \in Nat, NEW f \in Nat, DenseHeader + MaskBytes + v <= f
    PROVE  /\ ComputeSlotCount(v, f) \in Nat \ {0}
           /\ ArrayEnd(ComputeSlotCount(v, f), v) <= f
<1> DEFINE bits  == MaskBits \div MaskBytes
           start == (f * bits) \div (v * bits + 1)
           S     == {c \in 0 .. start : ArrayEnd(c, v) <= f}
<1>1. bits \in Nat \ {0} /\ DenseHeader \in Nat /\ MaskBytes \in Nat \ {0}
  BY MaskFacts
<1>2. start \in Nat \ {0}
  <2>1. f * bits \in Nat /\ v * bits \in Nat /\ f * bits >= v * bits + 1
    <3> HIDE DEF bits
    <3>1. PICK e \in Nat : f = v + 1 + e
      BY <1>1, f - v - 1 \in Nat
    <3>2. f * bits = v * bits + bits + e * bits /\ e * bits \in Nat /\ v * bits \in Nat
      BY <1>1, <3>1
    <3> QED BY <1>1, <3>2
  <2> DEFINE x == f * bits
             y == v * bits + 1
  <2>2. x \in Nat /\ y \in Nat \ {0} /\ x >= y
    BY <2>1
  <2> HIDE DEF x, y
  <2>3. x \div y \in Nat /\ x = (x \div y) * y + (x % y) /\ x % y \in 0 .. (y - 1)
    BY <2>2, DivFacts
  <2>4. x \div y # 0
    BY <2>2, <2>3
  <2> QED BY <2>3, <2>4 DEF x, y
<1>3. ArrayEnd(1, v) = DenseHeader + MaskBytes + v
  BY <1>1, MaskFacts DEF ArrayEnd
<1>4. 1 \in S
  BY <1>2, <1>3
<1>5. ComputeSlotCount(v, f) = Max(S)
  BY DEF ComputeSlotCount
<1> HIDE DEF start
<1>6. S \in SUBSET Nat /\ \A c \in S : c <= start
  BY <1>2
<1> HIDE DEF S
<1>7. Max(S) \in S /\ 1 <= Max(S)
  BY <1>2, <1>4, <1>6, MaxExists
<1> QED BY <1>2, <1>5, <1>7 DEF S

(* A fence that is a key, a prefix of one, or none.                        *)
ShortFence(f) == f = << >> \/ Len(f) <= MaxKVSize

(* MaxKVSize is a number.                                                  *)
LEMMA KVBound ==
    /\ MaxKVSize \in Int
    /\ MaxKVSize >= 0 => 3 * MaxKVSize + HeaderSize + 2 * SlotSize <= PageSizeLeaf
<1> DEFINE smaller == IF PageSizeLeaf < PageSizeInner THEN PageSizeLeaf ELSE PageSizeInner
           x == smaller - HeaderSize - 2 * SlotSize
<1>1. PageSizeLeaf \in Nat /\ PageSizeInner \in Nat /\ HeaderSize \in Nat /\ SlotSize \in Nat
  BY BTreeAssumption
<1>2. x \in Int /\ x <= PageSizeLeaf - HeaderSize - 2 * SlotSize
  BY <1>1
<1>3. MaxKVSize = x \div 3
  BY DEF MaxKVSize
<1> HIDE DEF x
<1>4. x \div 3 \in Int /\ 3 * (x \div 3) <= x
  BY <1>2
<1> QED BY <1>1, <1>2, <1>3, <1>4

(* A short fence has a length below the page's size.                       *)
LEMMA ShortFenceLen ==
    ASSUME NEW f \in Bytes, ShortFence(f), MaxKVSize >= 0
    PROVE  Len(f) \in Nat /\ Len(f) <= MaxKVSize
BY BytesType DEF ShortFence

(* init of a dense page: the new page is sound, has a slot, and its array  *)
(* ends before its fences.                                                 *)
LEMMA EmptyDenseOK ==
    ASSUME NEW lower \in Bytes, NEW upper \in Bytes, NEW len \in Nat \ {0}, NEW v \in Nat,
           len + v <= MaxKVSize, ShortFence(lower), ShortFence(upper),
           Len(lower) >= ComputeNumericPrefixLength(len),
           NEW d, d = EmptyDense(lower, upper, len, v)
    PROVE  /\ DenseOK(d)
           /\ d.lower = lower /\ d.upper = upper /\ d.fullKeyLen = len /\ d.valLen = v
           /\ d.occupiedCount = 0
           /\ Occupied(d) = {}
<1> DEFINE f == FencesOffset(lower, upper, len)
           c == ComputeSlotCount(v, f)
           arr == [i \in 0 .. (c - 1) |-> NoVal]
<1>1. /\ MaxKVSize \in Int /\ 3 * MaxKVSize + HeaderSize + 2 * SlotSize <= PageSizeLeaf
      /\ MaxKVSize >= 0
  BY KVBound
<1>2. Len(lower) \in Nat /\ Len(lower) <= MaxKVSize /\ Len(upper) \in Nat /\ Len(upper) <= MaxKVSize
  BY <1>1, ShortFenceLen
<1>3. f \in Nat /\ DenseHeader + MaskBytes + v <= f
  <2>1. Max({Len(upper), len}) \in Nat /\ Max({Len(upper), len}) <= MaxKVSize
    BY <1>1, <1>2, MaxOfTwo
  <2>2. PageSizeLeaf \in Nat /\ HeaderSize \in Nat /\ SlotSize \in Nat
    BY BTreeAssumption
  <2>3. DenseHeader \in Nat /\ MaskBytes \in Nat /\ DenseHeader + MaskBytes <= HeaderSize + 2 * SlotSize
    BY MaskFacts
  <2> QED BY <1>1, <1>2, <2>1, <2>2, <2>3 DEF FencesOffset
<1> HIDE DEF f
<1>4. c \in Nat \ {0} /\ ArrayEnd(c, v) <= f
  BY <1>3, SlotCountFits
<1> HIDE DEF c
<1>5. LeastGreaterKey(lower, len) \in Nat
  <2>1. len \in Nat
    OBVIOUS
  <2>2. GetNumericPart(lower, len) \in Nat
    BY <2>1, NumericPartBound
  <2> QED BY <2>2 DEF LeastGreaterKey
<1>6. arr \in [0 .. (c - 1) -> Val \cup {NoVal}] /\ arr \in Arrays
  BY <1>4 DEF Arrays
<1>7. d = [tag |-> "dense", lower |-> lower, upper |-> upper,
           fullKeyLen |-> len, valLen |-> v,
           arrayStart |-> LeastGreaterKey(lower, len),
           slotCount |-> c, occupiedCount |-> 0, arr |-> arr]
  BY DEF EmptyDense, c, f
<1>8. /\ d.lower = lower /\ d.upper = upper /\ d.fullKeyLen = len /\ d.valLen = v
      /\ d.arrayStart = LeastGreaterKey(lower, len) /\ d.slotCount = c /\ d.occupiedCount = 0
      /\ d.arr = arr
  BY <1>7
<1>9. d \in DensePage
  <2> HIDE DEF arr
  <2> QED BY <1>4, <1>5, <1>6, <1>7 DEF DensePage
<1>10. Indices(d) = 0 .. (c - 1) /\ Occupied(d) = {}
  BY <1>8 DEF Indices, Occupied
<1> HIDE DEF arr
<1>11. ValidDense(d)
  BY <1>4, <1>6, <1>8, <1>9, <1>10 DEF ValidDense
<1>12. DenseOK(d)
  BY <1>4, <1>8, <1>10, <1>11, FS_EmptySet DEF DenseOK, f
<1> QED BY <1>8, <1>10, <1>12

(***************************************************************************)
(* What the operations make of a dense page.                               *)
(***************************************************************************)
(* Pages with the same fences and lengths give a key the same place.       *)
LEMMA SamePlaces ==
    ASSUME NEW n, NEW m, m.lower = n.lower, m.upper = n.upper, m.fullKeyLen = n.fullKeyLen,
           m.arrayStart = n.arrayStart
    PROVE  \A k, i : HasPlace(m, k, i) <=> HasPlace(n, k, i)
BY DEF HasPlace

(* A dense page has finitely many occupied slots.                          *)
LEMMA OccupiedFinite ==
    ASSUME NEW n, ValidDense(n)
    PROVE  IsFiniteSet(Occupied(n)) /\ Cardinality(Occupied(n)) \in Nat
<1>1. Occupied(n) \in SUBSET (0 .. (n.slotCount - 1)) /\ n.slotCount \in Nat
  BY DenseFacts DEF Indices
<1>2. IsFiniteSet(0 .. (n.slotCount - 1))
  BY <1>1, FS_Interval
<1>3. IsFiniteSet(Occupied(n))
  BY <1>1, <1>2, FS_Subset
<1> QED BY <1>3, FS_CardinalityType

(* A page whose array is replaced.                                         *)
Filled(n, a, c) == [n EXCEPT !.arr = a, !.occupiedCount = c]

(* A page that differs only in its array keeps its places.                 *)
LEMMA WithArray ==
    ASSUME NEW n, ValidDense(n), NEW a \in [Indices(n) -> Val \cup {NoVal}], NEW c \in Nat,
           NEW m, m = Filled(n, a, c),
           \A i \in Indices(n) : a[i] # NoVal =>
               /\ PayloadLen[a[i]] = n.valLen
               /\ \E k \in Key : HasPlace(n, k, i)
    PROVE  /\ ValidDense(m)
           /\ m.lower = n.lower /\ m.upper = n.upper /\ m.fullKeyLen = n.fullKeyLen
           /\ m.valLen = n.valLen /\ m.slotCount = n.slotCount /\ m.arr = a /\ m.occupiedCount = c
           /\ Indices(m) = Indices(n)
           /\ Occupied(m) = {i \in Indices(n) : a[i] # NoVal}
<1>1. n \in DensePage /\ n.slotCount \in Nat
  BY DEF ValidDense, DensePage
<1>2. /\ m.lower = n.lower /\ m.upper = n.upper /\ m.fullKeyLen = n.fullKeyLen
      /\ m.valLen = n.valLen /\ m.slotCount = n.slotCount /\ m.arr = a /\ m.occupiedCount = c
      /\ m.arrayStart = n.arrayStart /\ m.tag = n.tag
  BY <1>1 DEF DensePage, Filled
<1>3. a \in Arrays
  BY <1>1 DEF Arrays, Indices
<1>4. m \in DensePage
  <2> HIDE DEF Arrays
  <2> QED BY <1>1, <1>3 DEF DensePage, Filled
<1>5. Indices(m) = Indices(n) /\ Occupied(m) = {i \in Indices(n) : a[i] # NoVal}
  BY <1>2 DEF Indices, Occupied
<1>6. \A k, i : HasPlace(m, k, i) <=> HasPlace(n, k, i)
  BY <1>2, SamePlaces
<1>7. \A i \in Occupied(m) : PayloadLen[m.arr[i]] = m.valLen /\ \E k \in Key : HasPlace(m, k, i)
  BY <1>2, <1>5, <1>6
<1>8. /\ n.fullKeyLen >= 1 /\ n.slotCount >= 1
      /\ Len(n.lower) >= ComputeNumericPrefixLength(n.fullKeyLen)
      /\ n.arrayStart = LeastGreaterKey(n.lower, n.fullKeyLen)
  BY DEF ValidDense
<1> QED BY <1>2, <1>4, <1>5, <1>7, <1>8 DEF ValidDense

(* insert into a slot keeps the page sound and its count of occupied slots *)
(* right.                                                                  *)
LEMMA SetSlotOK ==
    ASSUME NEW n, DenseOK(n), NEW k \in Key, NEW i \in Indices(n), HasPlace(n, k, i),
           NEW v \in Val, PayloadLen[v] = n.valLen, NEW m, m = SetSlot(n, i, v)
    PROVE  /\ DenseOK(m)
           /\ m.lower = n.lower /\ m.upper = n.upper /\ m.fullKeyLen = n.fullKeyLen
           /\ m.valLen = n.valLen
<1> DEFINE a == [n.arr EXCEPT ![i] = v]
           c == IF n.arr[i] = NoVal THEN n.occupiedCount + 1 ELSE n.occupiedCount
<1>1. ValidDense(n) /\ n.occupiedCount = Cardinality(Occupied(n)) /\ v # NoVal
  BY BTreeAssumption DEF DenseOK
<1>2. n.occupiedCount \in Nat /\ IsFiniteSet(Occupied(n))
  BY <1>1, OccupiedFinite
<1>3. n.arr \in [Indices(n) -> Val \cup {NoVal}]
  BY <1>1 DEF ValidDense
<1>4. a \in [Indices(n) -> Val \cup {NoVal}] /\ c \in Nat
  BY <1>2, <1>3
<1>5. m = Filled(n, a, c)
  BY DEF SetSlot, Filled
<1>6. \A j \in Indices(n) : a[j] = IF j = i THEN v ELSE n.arr[j]
  BY <1>3
<1> HIDE DEF a
<1>7. \A j \in Indices(n) : a[j] # NoVal =>
          /\ PayloadLen[a[j]] = n.valLen
          /\ \E l \in Key : HasPlace(n, l, j)
  <2> SUFFICES ASSUME NEW j \in Indices(n), a[j] # NoVal
               PROVE  /\ PayloadLen[a[j]] = n.valLen
                      /\ \E l \in Key : HasPlace(n, l, j)
    OBVIOUS
  <2>1. CASE j = i
    BY <1>6, <2>1
  <2>2. CASE j # i
    <3>1. a[j] = n.arr[j] /\ j \in Occupied(n)
      BY <1>6, <2>2 DEF Occupied
    <3> QED BY <1>1, <3>1 DEF ValidDense
  <2> QED BY <2>1, <2>2
<1>8. {j \in Indices(n) : a[j] # NoVal} = Occupied(n) \cup {i}
  BY <1>1, <1>6 DEF Occupied
<1>9. c = Cardinality(Occupied(n) \cup {i})
  <2>1. n.arr[i] = NoVal <=> i \notin Occupied(n)
    BY DEF Occupied
  <2> QED BY <1>1, <1>2, <2>1, FS_AddElement
<1> HIDE DEF c
<1>10. /\ ValidDense(m)
       /\ m.lower = n.lower /\ m.upper = n.upper /\ m.fullKeyLen = n.fullKeyLen
       /\ m.valLen = n.valLen /\ m.slotCount = n.slotCount /\ m.occupiedCount = c
       /\ Occupied(m) = {j \in Indices(n) : a[j] # NoVal}
  BY <1>1, <1>4, <1>5, <1>7, WithArray
<1>11. DenseOK(m)
  BY <1>8, <1>9, <1>10 DEF DenseOK
<1> QED BY <1>10, <1>11

(* remove of an occupied slot keeps the page sound and its count right.    *)
LEMMA UnsetSlotOK ==
    ASSUME NEW n, DenseOK(n), NEW i \in Occupied(n), NEW m, m = UnsetSlot(n, i)
    PROVE  /\ DenseOK(m)
           /\ m.lower = n.lower /\ m.upper = n.upper /\ m.fullKeyLen = n.fullKeyLen
           /\ m.valLen = n.valLen
<1> DEFINE a == [n.arr EXCEPT ![i] = NoVal]
           c == n.occupiedCount - 1
<1>1. ValidDense(n) /\ n.occupiedCount = Cardinality(Occupied(n)) /\ i \in Indices(n)
  BY DEF DenseOK, Occupied
<1>2. n.occupiedCount \in Nat /\ IsFiniteSet(Occupied(n))
  BY <1>1, OccupiedFinite
<1>3. n.arr \in [Indices(n) -> Val \cup {NoVal}]
  BY <1>1 DEF ValidDense
<1>4. c = Cardinality(Occupied(n) \ {i}) /\ IsFiniteSet(Occupied(n) \ {i})
  BY <1>1, <1>2, FS_RemoveElement
<1>5. c \in Nat /\ a \in [Indices(n) -> Val \cup {NoVal}]
  BY <1>3, <1>4, FS_CardinalityType
<1>6. m = Filled(n, a, c)
  BY DEF UnsetSlot, Filled
<1>7. \A j \in Indices(n) : a[j] = IF j = i THEN NoVal ELSE n.arr[j]
  BY <1>3
<1> HIDE DEF a, c
<1>8. {j \in Indices(n) : a[j] # NoVal} = Occupied(n) \ {i}
  BY <1>7 DEF Occupied
<1>9. \A j \in Indices(n) : a[j] # NoVal =>
          /\ PayloadLen[a[j]] = n.valLen
          /\ \E l \in Key : HasPlace(n, l, j)
  <2> SUFFICES ASSUME NEW j \in Indices(n), a[j] # NoVal
               PROVE  /\ PayloadLen[a[j]] = n.valLen
                      /\ \E l \in Key : HasPlace(n, l, j)
    OBVIOUS
  <2>1. a[j] = n.arr[j] /\ j \in Occupied(n)
    BY <1>7 DEF Occupied
  <2> QED BY <1>1, <2>1 DEF ValidDense
<1>10. /\ ValidDense(m)
       /\ m.lower = n.lower /\ m.upper = n.upper /\ m.fullKeyLen = n.fullKeyLen
       /\ m.valLen = n.valLen /\ m.slotCount = n.slotCount /\ m.occupiedCount = c
       /\ Occupied(m) = {j \in Indices(n) : a[j] # NoVal}
  BY <1>1, <1>5, <1>6, <1>9, WithArray
<1>11. DenseOK(m)
  BY <1>4, <1>8, <1>10 DEF DenseOK
<1> QED BY <1>10, <1>11

(* The records that a scan passes on are records of the page.              *)
LEMMA UpwardsType ==
    ASSUME NEW n, ValidDense(n)
    PROVE  DenseUpwards(n) \in Seq(LeafSlot)
<1> DEFINE a == [i \in Indices(n) |-> IF i < FirstIndex(n) THEN NoVal ELSE n.arr[i]]
           m == [n EXCEPT !.arr = a]
<1>1. n \in DensePage /\ n.arr \in [Indices(n) -> Val \cup {NoVal}] /\ n.occupiedCount \in Nat
  BY DEF ValidDense, DensePage
<1>2. a \in [Indices(n) -> Val \cup {NoVal}]
  BY <1>1
<1>3. \A i \in Indices(n) : a[i] # NoVal => a[i] = n.arr[i] /\ i \in Occupied(n)
  BY DEF Occupied
<1> HIDE DEF a
<1>4. m = Filled(n, a, n.occupiedCount)
  BY <1>1 DEF DensePage, Filled
<1>5. \A i \in Indices(n) : a[i] # NoVal =>
          /\ PayloadLen[a[i]] = n.valLen
          /\ \E k \in Key : HasPlace(n, k, i)
  BY <1>3 DEF ValidDense
<1> HIDE DEF m
<1>6. ValidDense(m)
  BY <1>1, <1>2, <1>4, <1>5, WithArray
<1>7. Records(m) \in Seq(LeafSlot)
  BY <1>6, RecordsOK
<1>8. DenseUpwards(n) = IF IsNumericRangeAnyLen(n) THEN Records(m) ELSE << >>
  BY DEF DenseUpwards, m, a
<1> QED BY <1>7, <1>8

(***************************************************************************)
(* The split behind the array.                                             *)
(***************************************************************************)
(* The numeric part of the boundary does not wrap around.                  *)
InsideNumbers(n) == n.arrayStart + n.slotCount <= Powers[ComputeNumericPartLen(n.fullKeyLen)]

(* If it does not, the boundary is a key of the page's lengths, and its    *)
(* place is the array's last.                                              *)
LEMMA BoundaryKey ==
    ASSUME NEW n, ValidDense(n), InsideNumbers(n), NEW b, b = Boundary(n)
    PROVE  /\ b \in Bytes /\ Len(b) = n.fullKeyLen /\ b # << >>
           /\ LikeFence(b, n.lower, n.fullKeyLen)
           /\ GetNumericPart(b, n.fullKeyLen) = n.arrayStart + n.slotCount - 1
<1> DEFINE p == ComputeNumericPrefixLength(n.fullKeyLen)
           c == ComputeNumericPartLen(n.fullKeyLen)
           x == n.arrayStart + (n.slotCount - 1)
           a == Take(n.lower, p)
           t == ToBytes(x, c)
<1>1. /\ n.lower \in Bytes /\ n.fullKeyLen \in Nat \ {0} /\ n.fullKeyLen \in Nat /\ Len(n.lower) >= p
      /\ n.arrayStart \in Nat /\ n.slotCount \in Nat \ {0}
  BY DenseFacts
<1>2. p \in Nat /\ c \in Nat /\ p + c = n.fullKeyLen /\ c \in 0 .. NumericLen
  <2> DEFINE u == n.fullKeyLen
  <2>1. u \in Nat
    BY <1>1
  <2> SUFFICES /\ ComputeNumericPrefixLength(u) \in Nat
               /\ ComputeNumericPartLen(u) \in Nat
               /\ ComputeNumericPrefixLength(u) + ComputeNumericPartLen(u) = u
               /\ ComputeNumericPartLen(u) \in 0 .. NumericLen
    OBVIOUS
  <2> HIDE DEF u, p, c
  <2>2. NumericLen \in Nat
    BY NumericConstants
  <2> QED BY <2>1, <2>2, PartLen
<1>3. Powers[c] \in Nat /\ Powers[c] <= NumericLimit /\ NumericLimit \in Nat
  BY <1>2, PowersStep, PowersGrow
<1>4. x \in 0 .. (Powers[c] - 1) /\ x \in Nat /\ x % NumericLimit = x
  <2>1. n.arrayStart + n.slotCount <= Powers[c]
    BY DEF InsideNumbers
  <2>2. x = n.arrayStart + (n.slotCount - 1)
    OBVIOUS
  <2> HIDE DEF c, x
  <2>3. x \in Nat /\ x <= Powers[c] - 1
    <3>1. n.arrayStart \in Nat /\ n.slotCount \in Nat \ {0} /\ Powers[c] \in Nat
      BY <1>1, <1>3
    <3> QED BY <2>1, <2>2, <3>1
  <2>4. x < NumericLimit
    BY <1>3, <2>3
  <2>5. x % NumericLimit = x
    BY <1>3, <2>3, <2>4
  <2> QED BY <1>3, <2>3, <2>5
<1>5. a \in Bytes /\ Len(a) = p /\ \A j \in 1 .. p : a[j] = n.lower[j]
  <2>1. p \in 0 .. Len(n.lower)
    BY <1>1, <1>2, BytesType
  <2> HIDE DEF p
  <2> QED BY <1>1, <2>1, TakeProperties
<1>6. t \in Bytes /\ Len(t) = c
  BY <1>2, <1>4, ToBytesType
<1>7. b = a \o t
  BY <1>4 DEF Boundary, RestoreKey
<1>8. GetNumericPart(b, n.fullKeyLen) = NumberOf(b, p, c)
  BY DEF GetNumericPart, ComputeNumericPrefixLength
<1>9. NumberOf(a \o t, Len(a), c) = x
  <2> HIDE DEF a, c, x
  <2> QED BY <1>2, <1>4, <1>5, NumberOfBytes
<1> HIDE DEF a, t, p, c, x
<1>10. /\ b \in Bytes /\ Len(b) = p + c
       /\ \A j \in 1 .. p : b[j] = a[j]
  <2>1. a \in Seq(Byte) /\ t \in Seq(Byte)
    BY <1>5, <1>6 DEF Bytes
  <2>2. /\ b \in Seq(Byte) /\ Len(b) = Len(a) + Len(t)
        /\ \A j \in 1 .. (Len(a) + Len(t)) : b[j] = IF j <= Len(a) THEN a[j] ELSE t[j - Len(a)]
    BY <1>7, <2>1, ConcatProperties
  <2> QED BY <1>2, <1>5, <1>6, <2>2 DEF Bytes
<1>11. GetNumericPart(b, n.fullKeyLen) = n.arrayStart + n.slotCount - 1
  <2>1. NumberOf(b, p, c) = x
    BY <1>5, <1>7, <1>9
  <2> QED BY <1>1, <1>8, <2>1 DEF x
<1>12. LikeFence(b, n.lower, n.fullKeyLen)
  BY <1>2, <1>5, <1>10 DEF LikeFence, p
<1>13. b # << >>
  BY <1>1, <1>2, <1>10
<1> QED BY <1>2, <1>10, <1>11, <1>12, <1>13

(* The left page of a split keeps the array: it is sound between the old   *)
(* lower fence and the boundary.                                           *)
LEMMA DenseLeftOK ==
    ASSUME NEW n, DenseOK(n), InsideNumbers(n), InFences(Boundary(n), n.lower, n.upper),
           NEW l, l = DenseLeft(n)
    PROVE  /\ DenseOK(l)
           /\ l.lower = n.lower /\ l.upper = Boundary(n)
           /\ l.fullKeyLen = n.fullKeyLen /\ l.valLen = n.valLen
<1> DEFINE b == Boundary(n)
<1>1. ValidDense(n)
  BY DEF DenseOK
<1>2. /\ b \in Bytes /\ Len(b) = n.fullKeyLen /\ b # << >>
      /\ LikeFence(b, n.lower, n.fullKeyLen)
      /\ GetNumericPart(b, n.fullKeyLen) = n.arrayStart + n.slotCount - 1
  BY <1>1, BoundaryKey
<1>3. /\ n.lower \in Bytes /\ n.upper \in Bytes /\ n.fullKeyLen \in Nat /\ n.arrayStart \in Nat
      /\ n.slotCount \in Nat /\ Len(n.lower) >= ComputeNumericPrefixLength(n.fullKeyLen)
  BY <1>1, DenseFacts
<1>4. n \in DensePage
  BY <1>1 DEF ValidDense
<1>5. l = [n EXCEPT !.upper = b]
  BY DEF DenseLeft
<1> HIDE DEF b
<1>6. /\ l \in DensePage
      /\ l.lower = n.lower /\ l.upper = b
      /\ l.fullKeyLen = n.fullKeyLen /\ l.valLen = n.valLen /\ l.arrayStart = n.arrayStart
      /\ l.slotCount = n.slotCount /\ l.occupiedCount = n.occupiedCount /\ l.arr = n.arr
  <2> DEFINE A == Arrays
  <2>1. DensePage = [tag : {"dense"}, lower : Bytes, upper : Bytes, fullKeyLen : Nat, valLen : Nat,
                     arrayStart : Nat, slotCount : Nat, occupiedCount : Nat, arr : A]
    BY DEF DensePage
  <2> HIDE DEF A
  <2> QED BY <1>2, <1>4, <1>5, <2>1
<1>7. Indices(l) = Indices(n) /\ Occupied(l) = Occupied(n)
  BY <1>6 DEF Indices, Occupied
<1>8. ASSUME NEW i \in Occupied(n), NEW k \in Key, HasPlace(n, k, i)
      PROVE  HasPlace(l, k, i)
  <2>1. /\ LikeFence(k, n.lower, n.fullKeyLen) /\ InFences(k, n.lower, n.upper)
        /\ GetNumericPart(k, n.fullKeyLen) = n.arrayStart + i
    BY <1>8 DEF HasPlace
  <2>2. i \in 0 .. (n.slotCount - 1)
    BY <1>1, DenseFacts DEF Indices
  <2>3. GetNumericPart(k, n.fullKeyLen) <= GetNumericPart(b, n.fullKeyLen)
    BY <1>2, <1>3, <2>1, <2>2
  <2>4. Leq(k, b)
    BY <1>2, <1>3, <2>1, <2>3, NumericOrder
  <2>5. InFences(k, n.lower, b)
    BY <2>1, <2>4 DEF InFences, BelowFence
  <2> QED BY <1>6, <2>1, <2>5 DEF HasPlace
<1>9. ValidDense(l)
  BY <1>1, <1>6, <1>7, <1>8 DEF ValidDense
<1>10. FencesOffset(n.lower, n.upper, n.fullKeyLen) <= FencesOffset(l.lower, l.upper, l.fullKeyLen)
       /\ FencesOffset(n.lower, n.upper, n.fullKeyLen) \in Int
       /\ FencesOffset(l.lower, l.upper, l.fullKeyLen) \in Int
  <2>1. Len(n.upper) \in Nat /\ Len(n.lower) \in Nat /\ PageSizeLeaf \in Nat
    BY <1>3, BytesType, BTreeAssumption
  <2>2. Max({Len(n.upper), n.fullKeyLen}) \in Nat /\ Max({Len(n.upper), n.fullKeyLen}) >= n.fullKeyLen
        /\ Max({Len(b), n.fullKeyLen}) = n.fullKeyLen
    <3>1. n.fullKeyLen \in Nat /\ Len(b) \in Nat /\ Len(b) <= n.fullKeyLen
      BY <1>2, <1>3, BytesType
    <3> QED BY <2>1, <3>1, MaxOfTwo
  <2>3. /\ FencesOffset(n.lower, n.upper, n.fullKeyLen) = PageSizeLeaf - Len(n.lower) - Max({Len(n.upper), n.fullKeyLen})
        /\ FencesOffset(l.lower, l.upper, l.fullKeyLen) = PageSizeLeaf - Len(n.lower) - Max({Len(b), n.fullKeyLen})
    BY <1>6 DEF FencesOffset
  <2> QED BY <1>3, <2>1, <2>2, <2>3
<1>11. ArrayEnd(n.slotCount, n.valLen) <= FencesOffset(n.lower, n.upper, n.fullKeyLen)
       /\ ArrayEnd(n.slotCount, n.valLen) \in Int
  <2>1. n.valLen \in Nat /\ MaskWordCount(n.slotCount) \in Nat /\ MaskBytes \in Nat /\ DenseHeader \in Nat
    BY <1>1, <1>3, DenseFacts, MaskFacts
  <2>2. \A x, y \in Nat : x * y \in Nat
    OBVIOUS
  <2> QED BY <1>3, <2>1, <2>2 DEF DenseOK, ArrayEnd
<1>12. DenseOK(l)
  BY <1>6, <1>7, <1>9, <1>10, <1>11 DEF DenseOK
<1> QED BY <1>6, <1>12 DEF b

(* The empty page behind the boundary.                                     *)
LEMMA DenseRightOK ==
    ASSUME NEW n, DenseOK(n), InsideNumbers(n), ShortFence(n.upper),
           n.fullKeyLen + n.valLen <= MaxKVSize,
           NEW dense \in BOOLEAN, NEW r, r = DenseRight(n, dense)
    PROVE  /\ dense => DenseOK(r) /\ r.fullKeyLen = n.fullKeyLen /\ r.valLen = n.valLen /\ IsDense(r)
           /\ ~dense => r \in Page /\ PageOK(r) /\ IsLeaf(r) /\ Count(r) = 0 /\ Fits(r) /\ ~IsDense(r)
           /\ r.lower = Boundary(n) /\ r.upper = n.upper
           /\ ShortFence(Boundary(n))
<1> DEFINE b == Boundary(n)
<1>1. ValidDense(n)
  BY DEF DenseOK
<1>2. /\ b \in Bytes /\ Len(b) = n.fullKeyLen
  BY <1>1, BoundaryKey
<1>3. /\ n.upper \in Bytes /\ n.fullKeyLen \in Nat \ {0} /\ n.valLen \in Nat
  BY <1>1, DenseFacts
<1>4. /\ MaxKVSize \in Int /\ MaxKVSize >= 0
      /\ 3 * MaxKVSize + HeaderSize + 2 * SlotSize <= PageSizeLeaf
  BY <1>3, KVBound
<1>5. ShortFence(b) /\ Len(b) <= MaxKVSize
  BY <1>2, <1>3, <1>4 DEF ShortFence
<1>6. CASE dense
  <2>1. r = EmptyDense(b, n.upper, n.fullKeyLen, n.valLen)
    BY <1>6 DEF DenseRight
  <2>2. Len(b) >= ComputeNumericPrefixLength(n.fullKeyLen)
    BY <1>2, <1>3, PartLen
  <2> HIDE DEF b
  <2>3. DenseOK(r) /\ r.lower = b /\ r.upper = n.upper /\ r.fullKeyLen = n.fullKeyLen /\ r.valLen = n.valLen
    BY <1>2, <1>3, <1>5, <2>1, <2>2, EmptyDenseOK
  <2>4. IsDense(r)
    BY <2>3, DenseFacts DEF DenseOK
  <2> QED BY <1>5, <1>6, <2>3, <2>4 DEF b
<1>7. CASE ~dense
  <2>1. r = Leaf(b, n.upper, << >>)
    BY <1>7 DEF DenseRight
  <2>2. << >> \in Seq(LeafSlot)
    OBVIOUS
  <2>3. r \in Page /\ IsLeaf(r) /\ r.lower = b /\ r.upper = n.upper /\ r.slot = << >>
    <3> DEFINE u == n.upper
               s == << >>
    <3>1. b \in Bytes /\ u \in Bytes /\ r = Leaf(b, u, s) /\ s \in Seq(LeafSlot)
      BY <1>2, <1>3, <2>1, <2>2
    <3> SUFFICES r \in Page /\ IsLeaf(r) /\ r.lower = b /\ r.upper = u /\ r.slot = s
      OBVIOUS
    <3> HIDE DEF b, u, s
    <3> QED BY <3>1, LeafFields
  <2> HIDE DEF b
  <2>4. Count(r) = 0
    BY <2>3 DEF Count
  <2>5. PageOK(r)
    BY <2>3, <2>4 DEF PageOK
  <2>6. Fits(r)
    <3>1. Len(n.upper) \in Nat /\ Len(n.upper) <= MaxKVSize /\ Len(b) \in Nat
      BY <1>2, <1>3, <1>4, ShortFenceLen
    <3>2. SpaceUsed(r) = Len(b) + Len(n.upper)
      <4>1. SlotBytes(r)[0] = 0
        BY <2>3, SlotBytesSum
      <4> QED BY <2>3, <2>4, <3>1, <4>1 DEF SpaceUsed
    <3>3. PageSize(r) = PageSizeLeaf
      BY <2>3 DEF PageSize
    <3>4. PageSizeLeaf \in Nat /\ HeaderSize \in Nat /\ SlotSize \in Nat /\ SlotSize * Count(r) = 0
      BY <2>4, BTreeAssumption
    <3> QED BY <1>4, <1>5, <3>1, <3>2, <3>3, <3>4 DEF Fits, FreeSpaceAfterCompaction
  <2>7. ~IsDense(r)
    BY <2>3 DEF IsLeaf, IsDense
  <2> QED BY <1>5, <1>7, <2>3, <2>4, <2>5, <2>6, <2>7 DEF b
<1> QED BY <1>6, <1>7

(***************************************************************************)
(* A basic leaf becomes dense.                                             *)
(***************************************************************************)
(* A dense page that has a place for each record of a sequence, in that    *)
(* order, and nothing else, stands for that sequence.                      *)
InPlaces(m, s, idx) ==
    /\ \A j \in 1 .. Len(s) :
          idx[j] \in Indices(m) /\ HasPlace(m, s[j].key, idx[j]) /\ m.arr[idx[j]] = s[j].val
    /\ \A j, k \in 1 .. Len(s) : j < k => idx[j] < idx[k]
    /\ \A i \in Occupied(m) : \E j \in 1 .. Len(s) : idx[j] = i

(* Such a page's records are that sequence.                                *)
LEMMA CopiedInOrder ==
    ASSUME NEW m, ValidDense(m), NEW s \in Seq(LeafSlot), NEW idx, InPlaces(m, s, idx)
    PROVE  Records(m) = s
<1>0. /\ \A j \in 1 .. Len(s) :
            idx[j] \in Indices(m) /\ HasPlace(m, s[j].key, idx[j]) /\ m.arr[idx[j]] = s[j].val
      /\ \A j, k \in 1 .. Len(s) : j < k => idx[j] < idx[k]
      /\ \A i \in Occupied(m) : \E j \in 1 .. Len(s) : idx[j] = i
  BY DEF InPlaces
<1> DEFINE c == m.slotCount
           Upto(i, b) == /\ CopyRecords(m)[i] = SubSeq(s, 1, b)
                         /\ \A j \in 1 .. Len(s) : idx[j] < i <=> j <= b
           T == {i \in 0 .. c : \E b \in 0 .. Len(s) : Upto(i, b)}
<1>1. /\ c \in Nat \ {0} /\ Len(s) \in Nat
      /\ \A j \in 1 .. Len(s) : idx[j] \in 0 .. (c - 1)
  BY <1>0, DenseFacts DEF Indices
<1>2. 0 \in T
  <2>1. CopyRecords(m)[0] = SubSeq(s, 1, 0)
    <3>1. SubSeq(s, 1, 0) = << >>
      BY SubSeqEmpty
    <3> QED BY <3>1, CopyingSteps
  <2>2. \A j \in 1 .. Len(s) : ~ (idx[j] < 0) /\ ~ (j <= 0)
    BY <1>1
  <2>3. Upto(0, 0)
    BY <2>1, <2>2
  <2> HIDE DEF Upto
  <2> QED BY <1>1, <2>3
<1>3. ASSUME NEW i \in 1 .. c, i - 1 \in T PROVE i \in T
  <2>1. PICK b \in 0 .. Len(s) : Upto(i - 1, b)
    BY <1>3
  <2>2. /\ CopyRecords(m)[i - 1] = SubSeq(s, 1, b)
        /\ \A j \in 1 .. Len(s) : idx[j] < i - 1 <=> j <= b
    BY <2>1
  <2>3. CASE m.arr[i - 1] = NoVal
    <3>1. \A j \in 1 .. Len(s) : idx[j] # i - 1
      <4> TAKE j \in 1 .. Len(s)
      <4>1. s[j] \in LeafSlot
        OBVIOUS
      <4>2. s[j].val # NoVal
        BY <4>1, BTreeAssumption DEF LeafSlot
      <4> QED BY <1>0, <2>3, <4>2
    <3>2. \A j \in 1 .. Len(s) : idx[j] < i <=> j <= b
      <4> TAKE j \in 1 .. Len(s)
      <4>1. idx[j] \in Int /\ i \in Int /\ idx[j] # i - 1
        BY <1>1, <3>1
      <4>2. idx[j] < i <=> idx[j] < i - 1
        BY <4>1
      <4> QED BY <2>2, <4>2
    <3>3. CopyRecords(m)[i] = SubSeq(s, 1, b)
      BY <2>2, <2>3, CopyingSteps
    <3>4. Upto(i, b)
      BY <3>2, <3>3
    <3> HIDE DEF Upto
    <3> QED BY <3>4
  <2>4. CASE m.arr[i - 1] # NoVal
    <3>1. i - 1 \in Occupied(m)
      BY <1>1, <2>4 DEF Occupied, Indices
    <3>2. PICK j \in 1 .. Len(s) : idx[j] = i - 1
      BY <1>0, <3>1
    <3>3. j = b + 1
      <4>1. ~ (idx[j] < i - 1) /\ i \in Int
        BY <3>2
      <4>2. ~ (j <= b)
        BY <2>2, <4>1
      <4>3. ASSUME j > b + 1 PROVE FALSE
        <5>1. b + 1 \in 1 .. Len(s) /\ b + 1 < j
          BY <1>1, <4>3
        <5>2. idx[b + 1] < i - 1
          BY <1>0, <3>2, <5>1
        <5>3. b + 1 <= b
          BY <2>2, <5>1, <5>2
        <5> QED BY <5>3
      <4> QED BY <1>1, <4>2, <4>3
    <3>4. RecordOf(m, i - 1) = s[j]
      <4>1. s[j] \in LeafSlot /\ HasPlace(m, s[j].key, i - 1) /\ m.arr[i - 1] = s[j].val /\ i - 1 \in Nat
        BY <1>0, <1>1, <3>2
      <4>2. RestoreKey(m, i - 1) = s[j].key
        BY <4>1, PlacedKey
      <4> QED BY <4>1, <4>2 DEF RecordOf, LeafSlot
    <3>5. CopyRecords(m)[i] = Append(SubSeq(s, 1, b), s[b + 1])
      <4>1. CopyRecords(m)[i] = Append(CopyRecords(m)[i - 1], RecordOf(m, i - 1))
        BY <2>4, CopyingSteps
      <4> QED BY <2>2, <3>3, <3>4, <4>1
    <3>6. Append(SubSeq(s, 1, b), s[b + 1]) = SubSeq(s, 1, b + 1)
      <4>1. b + 1 \in 1 .. Len(s) /\ b = (b + 1) - 1
        BY <1>1, <3>3
      <4>2. SubSeq(s, 1, b + 1) = SubSeq(s, 1, (b + 1) - 1) \o << s[b + 1] >>
        <5>1. 1 \in 1 .. Len(s) /\ b + 1 \in 1 .. Len(s)
          BY <1>1, <4>1
        <5> QED BY <5>1, SubSeqRecursiveSecond
      <4>3. SubSeq(s, 1, b) \in Seq(LeafSlot) /\ s[b + 1] \in LeafSlot
        <5>1. \A x \in 1 .. b : s[x] \in LeafSlot
          BY <1>1, <4>1
        <5> QED BY <4>1, <5>1, SubSeqProperties
      <4>4. Append(SubSeq(s, 1, b), s[b + 1]) = SubSeq(s, 1, b) \o << s[b + 1] >>
        BY <4>3, AppendIsConcat
      <4> QED BY <4>1, <4>2, <4>4
    <3>7. \A k \in 1 .. Len(s) : idx[k] < i <=> k <= b + 1
      <4> TAKE k \in 1 .. Len(s)
      <4>1. idx[k] \in Int /\ idx[j] \in Int /\ i \in Int /\ b \in Int
        BY <1>1
      <4>2. CASE k = j
        BY <3>2, <3>3, <4>1, <4>2
      <4>3. CASE k < j
        <5>1. idx[k] < idx[j]
          BY <1>0, <4>3
        <5> QED BY <3>2, <3>3, <4>1, <4>3, <5>1
      <4>4. CASE k > j
        <5>1. idx[j] < idx[k]
          BY <1>0, <4>4
        <5> QED BY <3>2, <3>3, <4>1, <4>4, <5>1
      <4> QED BY <1>1, <4>2, <4>3, <4>4
    <3>8. Upto(i, b + 1) /\ b + 1 \in 0 .. Len(s)
      BY <1>1, <3>3, <3>5, <3>6, <3>7
    <3> HIDE DEF Upto
    <3> QED BY <3>8
  <2> QED BY <2>3, <2>4
<1>4. c \in T
  <2> HIDE DEF T, c
  <2>1. 0 .. c \subseteq T
    BY <1>1, <1>2, <1>3, UpTo
  <2> QED BY <1>1, <2>1
<1> HIDE DEF T
<1>5. PICK b \in 0 .. Len(s) : Upto(c, b)
  BY <1>4 DEF T
<1>6. b = Len(s)
  <2>1. CASE Len(s) = 0
    BY <1>1, <2>1
  <2>2. CASE Len(s) # 0
    <3>1. Len(s) \in 1 .. Len(s) /\ idx[Len(s)] < c
      BY <1>1, <2>2
    <3>2. Len(s) <= b
      BY <1>5, <3>1
    <3> QED BY <1>1, <3>2
  <2> QED BY <2>1, <2>2
<1>7. CopyRecords(m)[c] = SubSeq(s, 1, Len(s))
  BY <1>5, <1>6
<1>8. SubSeq(s, 1, Len(s)) = s
  BY SubSeqFull
<1> QED BY <1>7, <1>8 DEF Records

(* densify1: a leaf that passes its tests becomes a sound dense page that  *)
(* stands for the same records.                                            *)
LEMMA DensifiedOK ==
    ASSUME NEW n \in Page, IsLeaf(n), PageOK(n), Count(n) >= 1, SameLengths(n), LastKeyInArray(n),
           NEW len, len = Len(n.slot[1].key), len >= 1,
           NEW v, v = PayloadLen[n.slot[1].val], len + v <= MaxKVSize,
           ShortFence(n.lower), ShortFence(n.upper), NEW m, m = Densified(n)
    PROVE  /\ DenseOK(m)
           /\ m.lower = n.lower /\ m.upper = n.upper /\ m.fullKeyLen = len /\ m.valLen = v
           /\ ConvertToBasic(m) = n
           /\ LikeFence(n.slot[1].key, n.lower, len)
<1> DEFINE d == DenseOf(n)
           s == n.slot
           c == Count(n)
           idx == [j \in 1 .. c |-> KeyToIndex(d, s[j].key)]
           slotOf(i) == {j \in 1 .. c : KeyToIndex(d, s[j].key) = i}
           a == [i \in Indices(d) |-> IF slotOf(i) = {} THEN NoVal ELSE s[Max(slotOf(i))].val]
<1>1. /\ n.lower \in Bytes /\ n.upper \in Bytes /\ s \in Seq(LeafSlot) /\ c = Len(s) /\ c \in Nat \ {0}
      /\ \A j \in 1 .. c : /\ s[j] \in LeafSlot /\ s[j].key \in Key /\ s[j].key \in Bytes
                           /\ s[j].val \in Val /\ s[j].val # NoVal
  <2>1. /\ n.lower \in Bytes /\ n.upper \in Bytes /\ s \in Seq(LeafSlot) /\ c \in Nat
        /\ \A j \in 1 .. c : s[j] \in LeafSlot /\ s[j].key \in Bytes
    BY PageFacts
  <2>2. \A j \in 1 .. c : s[j].key \in Key /\ s[j].val \in Val /\ s[j].val # NoVal
    BY <2>1, BTreeAssumption DEF LeafSlot
  <2> QED BY <2>1, <2>2 DEF Count
<1>2. len \in Nat \ {0} /\ v \in Nat /\ len \in Nat
  BY <1>1, BytesType, BTreeAssumption
<1>3. \A j \in 1 .. c : Len(s[j].key) = len /\ PayloadLen[s[j].val] = v
  BY <1>1 DEF SameLengths
<1>4. Len(n.lower) >= ComputeNumericPrefixLength(len)
  <2>1. Len(n.lower) + NumericLen >= len /\ Len(n.lower) \in Nat /\ NumericLen \in Nat
    BY <1>1, BytesType, NumericConstants DEF SameLengths
  <2>2. ComputeNumericPrefixLength(len) = IF len <= NumericLen THEN 0 ELSE len - NumericLen
    BY <1>2, PartLen
  <2> DEFINE l == Len(n.lower)
             q == ComputeNumericPrefixLength(len)
  <2> HIDE DEF l, q
  <2>3. l + NumericLen >= len /\ l \in Nat /\ q = IF len <= NumericLen THEN 0 ELSE len - NumericLen
    BY <2>1, <2>2 DEF l, q
  <2>4. l >= q
    BY <1>2, <2>1, <2>3
  <2> QED BY <2>4 DEF l, q
<1>5. /\ DenseOK(d) /\ ValidDense(d)
      /\ d.lower = n.lower /\ d.upper = n.upper /\ d.fullKeyLen = len /\ d.valLen = v
  <2>1. d = EmptyDense(n.lower, n.upper, len, v)
    BY DEF DenseOf
  <2> HIDE DEF d
  <2>2. DenseOK(d) /\ d.lower = n.lower /\ d.upper = n.upper /\ d.fullKeyLen = len /\ d.valLen = v
    <3> DEFINE lo == n.lower
               up == n.upper
    <3>1. lo \in Bytes /\ up \in Bytes /\ ShortFence(lo) /\ ShortFence(up) /\ d = EmptyDense(lo, up, len, v)
          /\ Len(lo) >= ComputeNumericPrefixLength(len)
      BY <1>1, <1>4, <2>1
    <3> SUFFICES DenseOK(d) /\ d.lower = lo /\ d.upper = up /\ d.fullKeyLen = len /\ d.valLen = v
      OBVIOUS
    <3> HIDE DEF lo, up
    <3>2. len \in Nat /\ v \in Nat
      BY <1>2
    <3> QED BY <1>2, <3>1, <3>2, EmptyDenseOK, SMTT(30)
  <2> QED BY <2>2 DEF DenseOK
<1>6. \A j \in 1 .. c : InFences(s[j].key, n.lower, n.upper)
  BY DEF PageOK
<1> DEFINE last == s[c].key
           p == ComputeNumericPrefixLength(len)
<1>7. /\ last \in Bytes /\ Len(last) = len /\ InFences(last, n.lower, n.upper)
      /\ LikeFence(last, n.lower, len) /\ KeyToIndex(d, last) \in Indices(d)
      /\ HasPlace(d, last, KeyToIndex(d, last))
  <2>1. last \in Bytes /\ Len(last) = len /\ InFences(last, n.lower, n.upper)
    BY <1>1, <1>3, <1>6
  <2>2. KeyToIndex(d, last) >= 0
    BY DEF LastKeyInArray
  <2> HIDE DEF last, d
  <2>3. KeyToIndex(d, last) \in Indices(d) /\ HasPlace(d, last, KeyToIndex(d, last))
    BY <1>5, <2>1, <2>2, IndexOfKey
  <2> QED BY <1>5, <2>1, <2>3 DEF HasPlace
<1> HIDE DEF d, a, idx, last
<1>8. ASSUME NEW j \in 1 .. c
      PROVE  /\ LikeFence(s[j].key, n.lower, len)
             /\ Leq(s[j].key, last)
  <2> DEFINE k == s[j].key
  <2>1. k \in Bytes /\ Len(k) = len /\ InFences(k, n.lower, n.upper)
    BY <1>1, <1>3, <1>6
  <2>2. Leq(k, last)
    <3>1. CASE j = c
      BY <3>1 DEF Leq, last
    <3>2. CASE j < c
      BY <1>1, <3>2 DEF PageOK, Leq, last
    <3> QED BY <1>1, <3>1, <3>2
  <2>3. p \in Nat /\ p <= len
    BY <1>2, PartLen
  <2>4. \A i \in 1 .. p : k[i] = n.lower[i]
    <3>1. CASE p = 0
      BY <3>1
    <3>2. CASE p # 0
      <4>1. n.lower # << >>
        BY <1>1, <1>4, <2>3, <3>2
      <4>2. Less(n.lower, k)
        BY <2>1, <4>1 DEF InFences, AboveFence
      <4>3. SharePrefix(n.lower, last, p)
        <5>1. \A i \in 1 .. p : last[i] = n.lower[i]
          BY <1>7 DEF LikeFence
        <5> QED BY <1>1, <1>4, <1>7, <2>3, <5>1, BytesType DEF SharePrefix
      <4>4. SharePrefix(k, n.lower, p)
        <5> DEFINE lo == n.lower
        <5>1. lo \in Bytes /\ SharePrefix(lo, last, p) /\ Less(lo, k)
          BY <1>1, <4>2, <4>3
        <5> SUFFICES SharePrefix(k, lo, p)
          OBVIOUS
        <5> HIDE DEF lo, k, p
        <5> QED BY <1>7, <2>1, <2>2, <2>3, <5>1, BetweenSharesPrefix
      <4> QED BY <4>4 DEF SharePrefix
    <3> QED BY <3>1, <3>2
  <2> QED BY <2>1, <2>2, <2>4 DEF LikeFence
<1>9. ASSUME NEW j \in 1 .. c
      PROVE  idx[j] \in Indices(d) /\ HasPlace(d, s[j].key, idx[j])
  <2> DEFINE k == s[j].key
  <2>1. k \in Bytes /\ InFences(k, d.lower, d.upper) /\ LikeFence(k, d.lower, d.fullKeyLen)
    BY <1>1, <1>5, <1>6, <1>8
  <2>2. GetNumericPart(k, len) <= GetNumericPart(last, len)
    <3> DEFINE lo == n.lower
    <3>1. lo \in Bytes /\ LikeFence(k, lo, len) /\ LikeFence(last, lo, len) /\ Leq(k, last)
          /\ Len(lo) >= ComputeNumericPrefixLength(len)
      BY <1>1, <1>4, <1>7, <1>8
    <3> HIDE DEF lo, k
    <3> QED BY <1>2, <3>1, NumericOrder
  <2>3. /\ GetNumericPart(last, len) = d.arrayStart + KeyToIndex(d, last)
        /\ KeyToIndex(d, last) < d.slotCount /\ KeyToIndex(d, last) \in Nat
        /\ d.slotCount \in Nat /\ d.arrayStart \in Nat
    BY <1>5, <1>7, DenseFacts DEF HasPlace, Indices
  <2>4. GetNumericPart(k, len) \in Nat
    BY <1>2, <2>1, NumericPartBound
  <2> HIDE DEF k
  <2>5. GetNumericPart(k, d.fullKeyLen) - d.arrayStart < d.slotCount
    <3> DEFINE x == GetNumericPart(k, len)
               y == GetNumericPart(last, len)
    <3>1. x = GetNumericPart(k, d.fullKeyLen)
      BY <1>5
    <3> HIDE DEF x, y
    <3>2. x - d.arrayStart < d.slotCount
      BY <2>2, <2>3, <2>4 DEF x, y
    <3> QED BY <3>1, <3>2
  <2>6. KeyToIndex(d, k) >= 0
    BY <1>5, <2>1, <2>5, IndexOfKey
  <2>7. KeyToIndex(d, k) \in Indices(d) /\ HasPlace(d, k, KeyToIndex(d, k))
    BY <1>5, <2>1, <2>6, IndexOfKey
  <2> QED BY <2>7 DEF idx, k
<1>10. ASSUME NEW j \in 1 .. c, NEW k \in 1 .. c, j < k
       PROVE  idx[j] < idx[k]
  <2> DEFINE x == GetNumericPart(s[j].key, len)
             y == GetNumericPart(s[k].key, len)
  <2>1. x = d.arrayStart + idx[j] /\ y = d.arrayStart + idx[k]
    BY <1>5, <1>9 DEF HasPlace
  <2>2. d.arrayStart \in Nat /\ idx[j] \in Int /\ idx[k] \in Int
    BY <1>5, <1>9, DenseFacts
  <2>3. Less(s[j].key, s[k].key)
    BY <1>10 DEF PageOK
  <2>4. x < y
    <3> DEFINE lo == n.lower
               e == s[j].key
               f == s[k].key
    <3>1. lo \in Bytes /\ LikeFence(e, lo, len) /\ LikeFence(f, lo, len) /\ Less(e, f)
          /\ Len(lo) >= ComputeNumericPrefixLength(len)
      BY <1>1, <1>4, <1>8, <2>3
    <3> HIDE DEF lo, e, f
    <3>2. GetNumericPart(e, len) < GetNumericPart(f, len)
      BY <1>2, <3>1, NumericOrder
    <3> QED BY <3>2 DEF e, f
  <2> HIDE DEF x, y
  <2> QED BY <2>1, <2>2, <2>4
<1>11. \A j \in 1 .. c : slotOf(idx[j]) = {j}
  <2> TAKE j \in 1 .. c
  <2>1. \A k \in 1 .. c : KeyToIndex(d, s[k].key) = idx[k]
    BY DEF idx
  <2>2. \A k \in 1 .. c : idx[k] = idx[j] => k = j
    <3> TAKE k \in 1 .. c
    <3>1. idx[j] \in Int /\ idx[k] \in Int
      BY <1>5, <1>9, DenseFacts
    <3>2. k < j => idx[k] < idx[j]
      BY <1>10
    <3>3. j < k => idx[j] < idx[k]
      BY <1>10
    <3> QED BY <1>1, <3>1, <3>2, <3>3
  <2> QED BY <2>1, <2>2
<1>12. \A j \in 1 .. c : a[idx[j]] = s[j].val
  <2> TAKE j \in 1 .. c
  <2>1. Max({j}) = j
    <3>1. \E x \in {j} : \A y \in {j} : x >= y
      OBVIOUS
    <3> QED BY <3>1 DEF Max
  <2>2. slotOf(idx[j]) = {j} /\ slotOf(idx[j]) # {} /\ idx[j] \in Indices(d)
    BY <1>9, <1>11
  <2> HIDE DEF slotOf
  <2> QED BY <2>1, <2>2 DEF a
<1>13. \A i \in Indices(d) : a[i] # NoVal => \E j \in 1 .. c : idx[j] = i
  <2> TAKE i \in Indices(d)
  <2> HAVE a[i] # NoVal
  <2>1. slotOf(i) # {}
    BY DEF a
  <2>2. \E j \in 1 .. c : KeyToIndex(d, s[j].key) = i
    BY <2>1
  <2> QED BY <2>2 DEF idx
<1>14. a \in [Indices(d) -> Val \cup {NoVal}]
  <2>1. \A i \in Indices(d) : a[i] \in Val \cup {NoVal}
    <3> TAKE i \in Indices(d)
    <3>1. CASE a[i] = NoVal
      BY <3>1
    <3>2. CASE a[i] # NoVal
      <4>1. PICK j \in 1 .. c : idx[j] = i
        BY <1>13, <3>2
      <4>2. a[i] = s[j].val
        BY <1>12, <4>1
      <4> QED BY <1>1, <4>2
    <3> QED BY <3>1, <3>2
  <2> QED BY <2>1 DEF a
<1>15. m = Filled(d, a, c)
  <2>1. d \in DensePage
    BY <1>5 DEF ValidDense
  <2>2. m = [d EXCEPT !.occupiedCount = c, !.arr = a]
    BY DEF Densified, d, a
  <2> QED BY <2>1, <2>2 DEF Filled, DensePage
<1>16. \A i \in Indices(d) : a[i] # NoVal =>
          /\ PayloadLen[a[i]] = d.valLen
          /\ \E k \in Key : HasPlace(d, k, i)
  <2> TAKE i \in Indices(d)
  <2> HAVE a[i] # NoVal
  <2>1. PICK j \in 1 .. c : idx[j] = i
    BY <1>13
  <2>2. a[i] = s[j].val /\ HasPlace(d, s[j].key, i)
    BY <1>9, <1>12, <2>1
  <2> QED BY <1>1, <1>3, <1>5, <2>2
<1>17. /\ ValidDense(m)
       /\ m.lower = n.lower /\ m.upper = n.upper /\ m.fullKeyLen = len /\ m.valLen = v
       /\ m.slotCount = d.slotCount /\ m.arr = a /\ m.occupiedCount = c
       /\ Indices(m) = Indices(d)
       /\ Occupied(m) = {i \in Indices(d) : a[i] # NoVal}
       /\ \A k, i : HasPlace(m, k, i) <=> HasPlace(d, k, i)
  <2>1. c \in Nat
    BY <1>1
  <2> HIDE DEF c
  <2>2. /\ ValidDense(m)
        /\ m.lower = d.lower /\ m.upper = d.upper /\ m.fullKeyLen = d.fullKeyLen
        /\ m.valLen = d.valLen /\ m.slotCount = d.slotCount /\ m.arr = a /\ m.occupiedCount = c
        /\ Indices(m) = Indices(d)
        /\ Occupied(m) = {i \in Indices(d) : a[i] # NoVal}
    BY <1>5, <1>14, <1>15, <1>16, <2>1, WithArray
  <2>3. m.arrayStart = d.arrayStart
    BY <1>5, <2>2 DEF ValidDense
  <2>4. \A k, i : HasPlace(m, k, i) <=> HasPlace(d, k, i)
    BY <2>2, <2>3, SamePlaces
  <2> QED BY <1>5, <2>2, <2>4
<1>18. Records(m) = s
  <2> HIDE DEF s
  <2>1. \A j \in 1 .. Len(s) :
           idx[j] \in Indices(m) /\ HasPlace(m, s[j].key, idx[j]) /\ m.arr[idx[j]] = s[j].val
    BY <1>1, <1>9, <1>12, <1>17
  <2>2. \A j, k \in 1 .. Len(s) : j < k => idx[j] < idx[k]
    BY <1>1, <1>10
  <2>3. \A i \in Occupied(m) : \E j \in 1 .. Len(s) : idx[j] = i
    BY <1>1, <1>13, <1>17
  <2>4. s \in Seq(LeafSlot)
    BY <1>1
  <2>5. ValidDense(m)
    BY <1>17
  <2>6. InPlaces(m, s, idx)
    BY <2>1, <2>2, <2>3 DEF InPlaces
  <2> QED BY <2>4, <2>5, <2>6, CopiedInOrder
<1>19. m.occupiedCount = Cardinality(Occupied(m))
  <2>1. Len(Records(m)) = Cardinality(Occupied(m))
    BY <1>17, RecordsOK
  <2> QED BY <1>1, <1>17, <1>18, <2>1
<1>20. DenseOK(m)
  BY <1>5, <1>17, <1>19 DEF DenseOK
<1>21. ConvertToBasic(m) = n
  <2>1. n \in LeafPage
    BY PageFacts
  <2>2. n = Leaf(n.lower, n.upper, s)
    BY <2>1 DEF LeafPage, Leaf
  <2> QED BY <1>17, <1>18, <2>2 DEF ConvertToBasic
<1>22. LikeFence(n.slot[1].key, n.lower, len)
  <2>1. 1 \in 1 .. c
    BY <1>1
  <2> QED BY <1>8, <2>1
<1> QED BY <1>17, <1>20, <1>21, <1>22

(***************************************************************************)
(* Lengths of keys, fences and pages.                                      *)
(***************************************************************************)
(* A separator of a leaf is not longer than one of its keys.               *)
LEMMA SeparatorLen ==
    ASSUME NEW n \in Page, IsLeaf(n), Count(n) > 1
    PROVE  \E i \in 1 .. Count(n) : Len(FindSeparator(n).sep) <= Len(n.slot[i].key)
<1> DEFINE lo     == WindowLow(n)
           hi     == WindowHigh(n)
           key(i) == n.slot[i].key
           common == CommonPrefixLen(key(lo), key(hi))
           first  == CHOOSE i \in (lo + 1) .. hi :
                         /\ key(i)[common + 1] # key(lo)[common + 1]
                         /\ \A j \in (lo + 1) .. (i - 1) :
                                key(j)[common + 1] = key(lo)[common + 1]
           a == key(lo)
           f == key(first)
           s == FindSeparator(n)
<1>1. lo \in 1 .. Count(n) /\ hi \in 1 .. Count(n)
  <2>1. Count(n) \in Nat
    BY PageFacts
  <2>2. WindowLow(n) \in 1 .. Count(n) /\ WindowHigh(n) \in WindowLow(n) .. Count(n)
    BY <2>1, WindowInPage
  <2> QED BY <2>1, <2>2
<1>2. a \in Bytes /\ common \in 0 .. Len(a) /\ Len(a) \in Nat
  <2>1. key(lo) \in Bytes /\ key(hi) \in Bytes
    BY <1>1, PageFacts
  <2> QED BY <2>1, CommonPrefixProperties, BytesType
<1>3. s = IF Len(a) = common THEN [sep |-> a, at |-> lo]
          ELSE IF Len(f) = common + 1 THEN [sep |-> f, at |-> first]
          ELSE [sep |-> Take(f, common + 1), at |-> first - 1]
  BY DEF FindSeparator, FindLeafSeparator
<1> HIDE DEF a, f, s, first, common
<1>4. Len(Take(f, common + 1)) = common + 1
  <2> DEFINE S == {f[i] : i \in 1 .. common + 1}
  <2>1. \A i \in 1 .. common + 1 : f[i] \in S
    OBVIOUS
  <2> HIDE DEF S
  <2>2. Len(SubSeq(f, 1, common + 1)) = IF 1 <= common + 1 THEN (common + 1) - 1 + 1 ELSE 0
    BY <1>2, <2>1, SubSeqProperties
  <2> QED BY <1>2, <2>2 DEF Take
<1>5. Len(s.sep) <= Len(a)
  <2>1. CASE Len(a) = common
    BY <1>2, <1>3, <2>1
  <2>2. CASE Len(a) # common
    BY <1>2, <1>3, <1>4, <2>2
  <2> QED BY <2>1, <2>2
<1> QED BY <1>1, <1>5 DEF a, s

(* A leaf that has no room for another record of the lengths its records   *)
(* have holds keys that are not empty: one record of an empty key leaves   *)
(* room for a second one.                                                  *)
LEMMA FullLeaf ==
    ASSUME NEW n \in Page, IsLeaf(n), PageOK(n), ShortFence(n.lower), ShortFence(n.upper),
           NEW k \in Key, NEW v \in Val, FitsKV(k, v),
           ~ RequestSpaceFor(n, k, PayloadLen[v])
    PROVE  /\ Count(n) >= 1
           /\ /\ \A i \in 1 .. Count(n) : Len(n.slot[i].key) = Len(k)
              /\ PayloadLen[n.slot[1].val] = PayloadLen[v]
              => Len(k) >= 1
<1> DEFINE l == Len(k)
           x == PayloadLen[v]
           c == Count(n)
           lo == Len(n.lower)
           up == Len(n.upper)
           u == SlotBytes(n)[c]
           p == PrefixLen(n)
<1>1. k \in Bytes /\ l \in Nat /\ x \in Nat /\ MaxKVSize \in Int /\ l + x <= MaxKVSize /\ MaxKVSize >= 0
  BY BytesType, BTreeAssumption, KVBound DEF FitsKV
<1>2. 3 * MaxKVSize + HeaderSize + 2 * SlotSize <= PageSizeLeaf
      /\ HeaderSize \in Nat /\ SlotSize \in Nat /\ PageSizeLeaf \in Nat
  BY <1>1, KVBound, BTreeAssumption
<1>3. /\ lo \in Nat /\ up \in Nat /\ c \in Nat /\ u \in Int
      /\ SpaceUsed(n) = lo + up + u /\ PageSize(n) = PageSizeLeaf
      /\ p \in 0 .. lo
  BY SpaceNumbers, PrefixLenNat
<1>4. lo <= MaxKVSize /\ up <= MaxKVSize
  BY <1>1, ShortFenceLen, PageFacts
<1>5. ~ (SlotSize + (l - p) + x <= PageSizeLeaf - (HeaderSize + SlotSize * c) - (lo + up + u))
  BY <1>3 DEF RequestSpaceFor, SpaceNeeded, FreeSpaceAfterCompaction
<1>6. c >= 1
  <2> SUFFICES ASSUME c = 0 PROVE FALSE
    BY <1>3
  <2>1. u = 0
    BY SlotBytesSum
  <2>2. SlotSize * c = 0
    BY <1>2
  <2> HIDE DEF c, u, p, lo, up, l, x
  <2> QED BY <1>1, <1>2, <1>3, <1>4, <1>5, <2>1, <2>2
<1>7. ASSUME \A i \in 1 .. c : Len(n.slot[i].key) = l, PayloadLen[n.slot[1].val] = x
      PROVE  l >= 1
  <2> DEFINE e == n.slot[1].key
  <2> SUFFICES ASSUME l = 0 PROVE FALSE
    BY <1>1
  <2>1. e \in Bytes /\ Len(e) = 0 /\ InFences(e, n.lower, n.upper) /\ n.slot[1] \in LeafSlot
    BY <1>3, <1>6, <1>7, PageFacts DEF PageOK
  <2>2. lo = 0 /\ p = 0
    <3>1. ~ Less(n.lower, e)
      BY <2>1 DEF Less
    <3>2. n.lower = << >>
      BY <2>1, <3>1 DEF InFences, AboveFence
    <3> QED BY <1>3, <3>2
  <2>3. CASE c = 1
    <3>1. u = EntryLen(n, n.slot[1])
      <4>1. SlotBytes(n)[1] = SlotBytes(n)[1 - 1] + EntryLen(n, n.slot[1]) /\ SlotBytes(n)[0] = 0
        BY <2>3, SlotBytesSum
      <4>2. EntryLen(n, n.slot[1]) \in Int
        BY <2>3, EntryLenInt
      <4> QED BY <2>3, <4>1, <4>2
    <3>2. EntryLen(n, n.slot[1]) = x
      BY <1>1, <1>7, <2>1, <2>2 DEF EntryLen
    <3>3. SlotSize * c = SlotSize
      BY <1>2, <2>3
    <3> HIDE DEF c, u, p, lo, up, l, x
    <3> QED BY <1>1, <1>2, <1>3, <1>4, <1>5, <2>2, <3>1, <3>2, <3>3
  <2>4. CASE c > 1
    <3>1. 1 \in 1 .. c /\ 2 \in 1 .. c
      BY <1>3, <2>4
    <3>2. Less(e, n.slot[2].key) /\ n.slot[2].key \in Bytes
      BY <3>1, PageFacts DEF PageOK
    <3>3. Len(n.slot[2].key) = 0
      BY <1>7, <3>1
    <3> QED BY <3>2, <3>3 DEF Less
  <2> QED BY <1>3, <1>6, <2>3, <2>4
<1> QED BY <1>6, <1>7

(* Arithmetic for the space of the records.                                *)
LEMMA Distribute ==
    ASSUME NEW a \in Int, NEW b \in Int, NEW c \in Int
    PROVE  (a + b) * c = a * c + b * c /\ a * c \in Int /\ b * c \in Int
OBVIOUS

LEMMA TimesGrows ==
    ASSUME NEW a \in Int, NEW b \in Int, NEW c \in Nat, a <= b
    PROVE  a * c <= c * b /\ c * b \in Int
<1>1. (b - a) * c >= 0
  OBVIOUS
<1>2. (b - a) * c = c * b - a * c /\ a * c \in Int /\ c * b \in Int
  OBVIOUS
<1> QED BY <1>1, <1>2

(* The space that a dense page takes as a basic one: its records all have  *)
(* the same length.                                                        *)
LEMMA ConvertedSpace ==
    ASSUME NEW n, DenseOK(n)
    PROVE  LET c == n.occupiedCount
               e == n.fullKeyLen - PrefixLen(n) + n.valLen
               b == ConvertToBasic(n)
           IN  /\ PrefixLen(n) \in Nat /\ c \in Nat /\ e \in Int /\ Len(n.lower) \in Nat /\ Len(n.upper) \in Nat
               /\ HeaderSize \in Nat /\ SlotSize \in Nat /\ PageSizeLeaf \in Nat
               /\ (e + SlotSize) * c = e * c + SlotSize * c
               /\ e * c \in Int /\ SlotSize * c \in Int
               /\ FreeSpaceAfterCompaction(b)
                    = PageSizeLeaf - (HeaderSize + SlotSize * c) - (Len(n.lower) + Len(n.upper) + e * c)
<1> DEFINE c == n.occupiedCount
           e == n.fullKeyLen - PrefixLen(n) + n.valLen
           b == ConvertToBasic(n)
           lo == Len(n.lower)
           up == Len(n.upper)
           u == SlotBytes(b)[c]
           T == {i \in 0 .. c : SlotBytes(b)[i] = e * i}
<1>1. /\ ValidDense(n) /\ c = Cardinality(Occupied(n)) /\ c \in Nat
      /\ n.lower \in Bytes /\ n.upper \in Bytes /\ n.fullKeyLen \in Nat /\ n.valLen \in Nat
  BY DenseFacts, OccupiedFinite DEF DenseOK
<1> HIDE DEF b
<1>2. /\ b \in Page /\ IsLeaf(b) /\ b.lower = n.lower /\ b.upper = n.upper /\ Count(b) = c
      /\ \A m \in 1 .. Count(b) :
            Len(b.slot[m].key) = n.fullKeyLen /\ PayloadLen[b.slot[m].val] = n.valLen
  BY <1>1, ShownDenseOK DEF b
<1>3. PrefixLen(b) = PrefixLen(n) /\ PrefixLen(b) \in Nat
  BY <1>2, PrefixLenNat DEF PrefixLen
<1>4. e \in Int
  BY <1>1, <1>3
<1>5. \A i \in 1 .. c : EntryLen(b, b.slot[i]) = e
  BY <1>2, <1>3 DEF EntryLen
<1>6. /\ SlotBytes(b)[0] = 0
      /\ \A i \in 1 .. c : SlotBytes(b)[i] = SlotBytes(b)[i - 1] + e
  BY <1>2, <1>5, SlotBytesSum
<1> HIDE DEF c, e
<1>7. c \in T
  <2>1. 0 \in T
    BY <1>1, <1>4, <1>6, OneMoreTime
  <2>2. ASSUME NEW i \in 1 .. c, i - 1 \in T PROVE i \in T
    <3>1. i \in Int /\ SlotBytes(b)[i - 1] = e * (i - 1)
      BY <2>2
    <3>2. e * i = e * (i - 1) + e
      BY <1>4, <3>1, OneMoreTime
    <3> QED BY <1>1, <1>6, <3>1, <3>2
  <2> HIDE DEF T
  <2>3. 0 .. c \subseteq T
    BY <1>1, <2>1, <2>2, UpTo
  <2> QED BY <1>1, <2>3
<1>8. u = e * c
  BY <1>7
<1>9. /\ lo \in Nat /\ up \in Nat /\ SpaceUsed(b) = lo + up + u /\ PageSize(b) = PageSizeLeaf
      /\ HeaderSize \in Nat /\ SlotSize \in Nat /\ PageSizeLeaf \in Nat
  BY <1>2, SpaceNumbers
<1>10. (e + SlotSize) * c = e * c + SlotSize * c /\ e * c \in Int /\ SlotSize * c \in Int
  BY <1>1, <1>4, <1>9, Distribute
<1>11. FreeSpaceAfterCompaction(b) = PageSizeLeaf - (HeaderSize + SlotSize * c) - (lo + up + u)
  BY <1>2, <1>9 DEF FreeSpaceAfterCompaction
<1>12. /\ PrefixLen(n) \in Nat /\ c \in Nat /\ e \in Int /\ Len(n.lower) \in Nat /\ Len(n.upper) \in Nat
       /\ HeaderSize \in Nat /\ SlotSize \in Nat /\ PageSizeLeaf \in Nat
       /\ (e + SlotSize) * c = e * c + SlotSize * c
       /\ e * c \in Int /\ SlotSize * c \in Int
       /\ FreeSpaceAfterCompaction(b)
            = PageSizeLeaf - (HeaderSize + SlotSize * c) - (Len(n.lower) + Len(n.upper) + e * c)
  BY <1>1, <1>3, <1>4, <1>8, <1>9, <1>10, <1>11
<1> QED BY <1>12 DEF b, c, e

(* A dense page that is underfull has room for its records as a basic one. *)
LEMMA ConvertedFits ==
    ASSUME NEW n, DenseOK(n), DenseUnderfull(n), NEW b, b = ConvertToBasic(n)
    PROVE  Fits(b)
<1> DEFINE c  == n.occupiedCount
           e  == n.fullKeyLen - PrefixLen(n) + n.valLen
           lo == Len(n.lower)
           up == Len(n.upper)
           ec == e * c
           sc == SlotSize * c
           q  == PageSizeLeaf \div 4
<1>1. HeaderSize + (e + SlotSize) * c + lo + up < PageSizeLeaf - q
  BY DEF DenseUnderfull
<1>2. /\ lo \in Nat /\ up \in Nat /\ HeaderSize \in Nat /\ PageSizeLeaf \in Nat
      /\ (e + SlotSize) * c = ec + sc /\ ec \in Int /\ sc \in Int
      /\ FreeSpaceAfterCompaction(b) = PageSizeLeaf - (HeaderSize + sc) - (lo + up + ec)
  BY ConvertedSpace
<1> HIDE DEF c, e
<1>3. q \in Nat
  BY <1>2
<1> HIDE DEF ec, sc, lo, up, q
<1>4. FreeSpaceAfterCompaction(b) >= 0
  BY <1>1, <1>2, <1>3
<1> QED BY <1>4 DEF Fits

(* So does one that the estimate of an insert takes to have room, if the   *)
(* new payload is not shorter than those of the page.                      *)
LEMMA EstimatedFits ==
    ASSUME NEW n, DenseOK(n), EstimateFits(n), NEW b, b = ConvertToBasic(n),
           PayloadLen[op.val] \in Nat, n.valLen \in Nat, PayloadLen[op.val] >= n.valLen
    PROVE  Fits(b)
<1> DEFINE c  == n.occupiedCount
           e  == n.fullKeyLen - PrefixLen(n) + n.valLen
           f  == n.fullKeyLen - PrefixLen(n) + PayloadLen[op.val] + SlotSize
           lo == Len(n.lower)
           up == Len(n.upper)
           ec == e * c
           sc == SlotSize * c
           fc == c * f
<1>1. fc + lo + up + HeaderSize <= PageSizeLeaf
  BY DEF EstimateFits
<1>2. n.fullKeyLen \in Nat
  BY DenseFacts DEF DenseOK
<1>3. PrefixLen(n) \in Nat /\ SlotSize \in Nat
  BY ConvertedSpace
<1>4. f \in Int /\ e + SlotSize <= f
  BY <1>2, <1>3
<1>5. /\ lo \in Nat /\ up \in Nat /\ HeaderSize \in Nat /\ PageSizeLeaf \in Nat
      /\ c \in Nat /\ e \in Int
      /\ (e + SlotSize) * c = ec + sc /\ ec \in Int /\ sc \in Int
      /\ FreeSpaceAfterCompaction(b) = PageSizeLeaf - (HeaderSize + sc) - (lo + up + ec)
  BY ConvertedSpace
<1> HIDE DEF c, e, f
<1>6. (e + SlotSize) * c <= fc /\ fc \in Int
  <2> DEFINE g == e + SlotSize
  <2>1. g \in Int /\ f \in Int /\ c \in Nat /\ g <= f
    BY <1>3, <1>4, <1>5
  <2> HIDE DEF g
  <2>2. g * c <= c * f /\ c * f \in Int
    BY <2>1, TimesGrows
  <2> QED BY <2>2 DEF g
<1> HIDE DEF ec, sc, fc, lo, up
<1>7. FreeSpaceAfterCompaction(b) >= 0
  BY <1>1, <1>5, <1>6
<1> QED BY <1>7 DEF Fits

(* The two pages that splitNode1 makes of a dense page are halves of the   *)
(* basic leaf it stands for.                                               *)
LEMMA DenseHalves ==
    ASSUME NEW n, DenseOK(n), InsideNumbers(n), InFences(Boundary(n), n.lower, n.upper),
           ShortFence(n.upper), n.fullKeyLen + n.valLen <= MaxKVSize,
           NEW dense \in BOOLEAN, NEW s, s = [sep |-> Boundary(n), at |-> 0]
    PROVE  V!Halves(Shown(n), s, Shown(DenseLeft(n)), Shown(DenseRight(n, dense)))
<1> DEFINE l == DenseLeft(n)
           r == DenseRight(n, dense)
           b == Boundary(n)
<1>1. ValidDense(n) /\ IsDense(n)
  BY DenseFacts DEF DenseOK
<1>2. b \in Bytes /\ b # << >>
  BY <1>1, BoundaryKey
<1>3. DenseOK(l) /\ l.lower = n.lower /\ l.upper = b
  BY DenseLeftOK
<1>4. /\ dense => DenseOK(r)
      /\ ~dense => r \in Page /\ PageOK(r) /\ IsLeaf(r) /\ ~IsDense(r)
      /\ r.lower = b /\ r.upper = n.upper
  BY DenseRightOK
<1> HIDE DEF l, r, b
<1>5. /\ Shown(n) \in Page /\ IsLeaf(Shown(n)) /\ Shown(n).lower = n.lower /\ Shown(n).upper = n.upper
  BY <1>1, ShownDenseOK DEF Shown
<1>6. /\ Shown(l) \in Page /\ PageOK(Shown(l)) /\ IsLeaf(Shown(l))
      /\ Shown(l).lower = n.lower /\ Shown(l).upper = b
  <2>1. ValidDense(l) /\ IsDense(l)
    BY <1>3, DenseFacts DEF DenseOK
  <2> QED BY <1>3, <2>1, ShownDenseOK DEF Shown
<1>7. /\ Shown(r) \in Page /\ PageOK(Shown(r)) /\ IsLeaf(Shown(r))
      /\ Shown(r).lower = b /\ Shown(r).upper = n.upper
  <2>1. CASE dense
    <3>1. ValidDense(r) /\ IsDense(r)
      BY <1>4, <2>1, DenseFacts DEF DenseOK
    <3> QED BY <1>4, <3>1, ShownDenseOK DEF Shown
  <2>2. CASE ~dense
    BY <1>4, <2>2 DEF Shown
  <2> QED BY <2>1, <2>2
<1>8. s.sep = b /\ s.at = 0
  BY DEF b
<1>9. InFences(b, n.lower, n.upper)
  BY DEF b
<1>10. V!Halves(Shown(n), s, Shown(l), Shown(r))
  BY <1>2, <1>5, <1>6, <1>7, <1>8, <1>9, SameOrder, SamePages DEF V!Halves
<1> QED BY <1>10 DEF l, r

(***************************************************************************)
(* The inductive invariant.                                                *)
(***************************************************************************)
(* A page that is sound in itself, and whose keys and fences are short     *)
(* enough for the pages that are made of it.                               *)
GoodPage(n) ==
    /\ ShortFence(n.lower) /\ ShortFence(n.upper)
    /\ IsLeaf(n) => \A i \in 1 .. Count(n) : FitsKV(n.slot[i].key, n.slot[i].val)
    /\ ~IsDense(n) => Fits(n)
    /\ IsDense(n) =>
          /\ DenseOK(n)
          /\ n.fullKeyLen + n.valLen <= MaxKVSize
          /\ \E k \in Key : LikeFence(k, n.lower, n.fullKeyLen)
          /\ \E v \in Val : n.valLen = PayloadLen[v]

GoodPages == \A p \in Pages : GoodPage(page[p])

(* A dense page is split for a record of its lengths only if the key has   *)
(* no place in the array.                                                  *)
SplitCause ==
    pc = "split" /\ IsDense(page[node]) /\ OwnLengths(page[node])
        => KeyToIndex(page[node], skey) < 0

(* The tree of the basic leaves that the pages stand for is sound, the     *)
(* operation in progress is where it should be, and so is every page.      *)
DenseInv ==
    /\ V!PageType /\ V!TreeOK /\ V!Reached
    /\ pc # "fault" => V!IInv
    /\ GoodPages
    /\ op.kind = "insert" => FitsKV(op.key, op.val)
    /\ SplitCause

(* The view's pages: dense pages are shown as leaves, all others as they   *)
(* are.                                                                    *)
LEMMA ShownFacts ==
    /\ DOMAIN ShownPages = Pages /\ V!Pages = Pages
    /\ \A p \in Pages : ShownPages[p] = Shown(page[p])
    /\ \A n : Shown(n).lower = n.lower /\ Shown(n).upper = n.upper
    /\ \A n : IsDense(n) => IsLeaf(Shown(n)) /\ ~IsLeaf(n) /\ Shown(n) = ConvertToBasic(n)
    /\ \A n : ~IsDense(n) => Shown(n) = n
    /\ \A p \in V!Inners : /\ p \in Pages /\ ~IsDense(page[p]) /\ ~IsLeaf(page[p])
                           /\ ShownPages[p] = page[p]
    /\ \A p \in Pages : IsDense(page[p]) \/ IsLeaf(page[p]) => p \in V!Leaves
    /\ \A p \in Pages : p \notin V!Leaves => p \in V!Inners
<1>1. DOMAIN ShownPages = Pages /\ V!Pages = Pages /\ \A p \in Pages : ShownPages[p] = Shown(page[p])
  BY DEF ShownPages, V!Pages
<1>2. \A n : IsDense(n) => IsLeaf(Shown(n)) /\ ~IsLeaf(n) /\ Shown(n) = ConvertToBasic(n)
  BY DEF IsDense, Shown, ConvertToBasic, Leaf, IsLeaf
<1>3. \A n : ~IsDense(n) => Shown(n) = n
  BY DEF Shown
<1>4. \A n : Shown(n).lower = n.lower /\ Shown(n).upper = n.upper
  BY DEF Shown, ConvertToBasic, Leaf
<1>5. /\ V!Leaves = {p \in Pages : IsLeaf(Shown(page[p]))}
      /\ V!Inners = {p \in Pages : ~IsLeaf(Shown(page[p]))}
  BY <1>1, SamePages DEF V!Leaves, V!Inners
<1> QED BY <1>1, <1>2, <1>3, <1>4, <1>5

(* A page that is not dense is sound as a basic page.                      *)
LEMMA BasicPage ==
    ASSUME V!PageType, V!TreeOK, NEW p \in Pages, ~IsDense(page[p])
    PROVE  page[p] \in Page /\ PageOK(page[p]) /\ p \in PageId
<1>1. ShownPages[p] = page[p] /\ p \in V!Pages
  BY ShownFacts
<1>2. V!PageOK(ShownPages[p])
  BY <1>1 DEF V!TreeOK, V!KeysInFences
<1>3. ShownPages[p] \in V!Page /\ p \in PageId
  BY <1>1 DEF V!PageType
<1> QED BY <1>1, <1>2, <1>3, SamePages

(* Where an operation is that has not ended.                               *)
LEMMA Cursor ==
    ASSUME DenseInv, Walking
    PROVE  /\ V!IInv /\ V!PageType /\ V!TreeOK
           /\ node \in Pages /\ node \in PageId /\ GoodPage(page[node])
           /\ skey \in Bytes /\ InFences(skey, page[node].lower, page[node].upper)
           /\ parent = NoPage => node = root
           /\ parent # NoPage =>
                 /\ parent \in Pages /\ parent \in V!Inners /\ ~IsDense(page[parent])
                 /\ ~IsLeaf(page[parent]) /\ page[parent] \in Page /\ PageOK(page[parent])
                 /\ Count(page[parent]) \in Nat
                 /\ pos \in 1 .. Count(page[parent]) + 1
                 /\ node = ChildAt(page[parent], pos)
           /\ pc # "descend" => op.kind = "insert"
           /\ op.kind \in {"insert", "remove", "lookup"} => skey = op.key
<1>1. V!IInv /\ V!PageType /\ V!TreeOK /\ GoodPages
  BY DEF DenseInv, Walking
<1>2. V!CursorOnPath /\ V!TypeOK
  BY <1>1 DEF V!IInv
<1>3. V!Walking
  BY DEF Walking, V!Walking
<1>4. /\ node \in V!Pages
      /\ V!InFences(skey, ShownPages[node].lower, ShownPages[node].upper)
      /\ parent = NoPage => node = root
      /\ parent # NoPage =>
            /\ parent \in V!Inners
            /\ pos \in 1 .. V!Count(ShownPages[parent]) + 1
            /\ node = V!ChildAt(ShownPages[parent], pos)
      /\ pc # "descend" => op.kind = "insert"
      /\ op.kind \in {"insert", "remove", "lookup"} => skey = op.key
  BY <1>2, <1>3 DEF V!CursorOnPath
<1>5. skey \in Bytes
  BY <1>2, SameOrder DEF V!TypeOK
<1>6. node \in Pages /\ node \in PageId /\ GoodPage(page[node])
  BY <1>1, <1>4, ShownFacts DEF V!PageType, GoodPages
<1>7. InFences(skey, page[node].lower, page[node].upper)
  BY <1>4, <1>6, ShownFacts, SameOrder
<1>8. ASSUME parent # NoPage
      PROVE  /\ parent \in Pages /\ parent \in V!Inners /\ ~IsDense(page[parent])
             /\ ~IsLeaf(page[parent]) /\ page[parent] \in Page /\ PageOK(page[parent])
             /\ Count(page[parent]) \in Nat
             /\ pos \in 1 .. Count(page[parent]) + 1
             /\ node = ChildAt(page[parent], pos)
  <2>1. /\ parent \in Pages /\ parent \in V!Inners /\ ~IsDense(page[parent]) /\ ~IsLeaf(page[parent])
        /\ ShownPages[parent] = page[parent]
    BY <1>4, <1>8, ShownFacts
  <2>2. page[parent] \in Page /\ PageOK(page[parent])
    BY <1>1, <2>1, BasicPage
  <2> QED BY <1>4, <1>8, <2>1, <2>2, SamePages, PageFacts
<1> QED BY <1>1, <1>4, <1>5, <1>6, <1>7, <1>8

(***************************************************************************)
(* Steps that leave the tree as it is.                                     *)
(***************************************************************************)
LEMMA SameTree ==
    ASSUME DenseInv, UNCHANGED tree
    PROVE  /\ ShownPages' = ShownPages /\ V!PageType' /\ V!TreeOK' /\ V!Reached' /\ GoodPages'
           /\ root' = root /\ page' = page
<1>1. root' = root /\ page' = page
  BY DEF tree
<1>2. ShownPages' = ShownPages
  BY <1>1 DEF ShownPages, Pages, Shown, IsDense, ConvertToBasic
<1>3. V!PageType' /\ V!TreeOK' /\ V!Reached'
  <2>1. V!PageType /\ V!TreeOK /\ V!Reached /\ UNCHANGED V!tree
    BY <1>1, <1>2 DEF DenseInv, V!tree
  <2>2. V!PageType' /\ V!TreeOK'
    BY <2>1, V!TreeUnchanged, ViewMaxByte, ViewConstants
  <2>3. V!Reached'
    BY <1>1, <1>2, <2>1 DEF V!Reached, V!Closed, V!Pages, V!Inners, V!IsLeaf, V!Count, V!ChildAt
  <2> QED BY <2>2, <2>3
<1>4. GoodPages'
  BY <1>1 DEF DenseInv, GoodPages, Pages
<1> QED BY <1>1, <1>2, <1>3, <1>4

(* A step after which no page is about to be split.                        *)
LEMMA NotSplitting ==
    ASSUME V!PageType', V!TreeOK', V!Reached', V!IInv', GoodPages', pc' # "split",
           op' = op \/ op'.kind # "insert" \/ FitsKV(op'.key, op'.val),
           op.kind = "insert" => FitsKV(op.key, op.val)
    PROVE  DenseInv'
BY DEF DenseInv, SplitCause, FitsKV

(* An operation ends.                                                      *)
LEMMA Returned ==
    ASSUME DenseInv, Walking, NEW a \in AnswerType, Return(a), root' = root,
           V!PageType', V!TreeOK', V!Reached', GoodPages'
    PROVE  DenseInv'
<1>1. V!IInv
  BY Cursor
<1>2. V!Return(a) /\ a \in V!AnswerType
  BY SamePages DEF Return, V!Return, V!NoOp, NoOp, V!Op, Op, AnswerType, V!AnswerType
<1>3. V!IInv'
  BY <1>1, <1>2, V!ReturnInv, ViewMaxByte, ViewConstants
<1>4. pc' # "split" /\ op'.kind # "insert"
  BY DEF Return, NoOp, Op
<1> QED BY <1>3, <1>4, NotSplitting DEF DenseInv

(* The process dies.                                                       *)
LEMMA Died ==
    ASSUME DenseInv, Walking, NEW how \in {"abort", "assert", "fault"}, Die(how)
    PROVE  DenseInv'
<1>1. UNCHANGED tree /\ op' = op /\ pc' = how
  BY DEF Die, tree
<1>2. /\ ShownPages' = ShownPages /\ V!PageType' /\ V!TreeOK' /\ V!Reached' /\ GoodPages'
  BY <1>1, SameTree
<1>3. CASE how = "fault"
  BY <1>1, <1>2, <1>3 DEF DenseInv, SplitCause, FitsKV
<1>4. CASE how # "fault"
  <2>1. V!Die(how) /\ how \in {"abort", "assert"}
    BY <1>2, <1>4 DEF Die, V!Die, cursor, V!cursor
  <2>2. V!IInv'
    BY <2>1, Cursor, V!DieOK, ViewMaxByte, ViewConstants
  <2> QED BY <1>1, <1>2, <1>4, <2>2, NotSplitting DEF DenseInv
<1> QED BY <1>3, <1>4

(* Operations are the same in the view.                                    *)
LEMMA SameOps ==
    /\ V!Ops = Ops /\ V!OpsAndNoOp = OpsAndNoOp /\ V!AnswerType = AnswerType
    /\ \A k, v : V!FitsKV(k, v) <=> FitsKV(k, v)
    /\ \A f, v, r : V!Answer(f, v, r) = Answer(f, v, r)
    /\ V!NoAnswer = NoAnswer
    /\ \A a : V!Return(a) <=> Return(a)
    /\ \A k : V!FromRoot(k) <=> FromRoot(k)
    /\ V!Walking <=> Walking
    /\ V!cursor = cursor /\ V!tree = <<root, ShownPages>>
<1>1. \A a, b, c, d : V!Op(a, b, c, d) = Op(a, b, c, d)
  BY DEF V!Op, Op
<1>2. V!Ops = Ops /\ V!NoOp = NoOp
  BY <1>1 DEF V!Ops, Ops, V!InsertOps, InsertOps, V!PointOps, PointOps, V!ScanOps, ScanOps, V!NoOp, NoOp
<1>3. \A f, v, r : V!Answer(f, v, r) = Answer(f, v, r)
  BY DEF V!Answer, Answer
<1>4. V!NoAnswer = NoAnswer
  BY <1>3 DEF V!NoAnswer, NoAnswer
<1>5. V!OpsAndNoOp = OpsAndNoOp /\ V!AnswerType = AnswerType
  BY <1>2, SamePages DEF V!OpsAndNoOp, OpsAndNoOp, V!AnswerType, AnswerType
<1>6. \A k, v : V!FitsKV(k, v) <=> FitsKV(k, v)
  BY DEF V!FitsKV, FitsKV, V!MaxKVSize, MaxKVSize
<1>7. \A a : V!Return(a) <=> Return(a)
  BY <1>2 DEF V!Return, Return
<1>8. \A k : V!FromRoot(k) <=> FromRoot(k)
  BY DEF V!FromRoot, FromRoot
<1>9. (V!Walking <=> Walking) /\ V!cursor = cursor /\ V!tree = <<root, ShownPages>>
  BY DEF V!Walking, Walking, V!cursor, cursor, V!tree
<1> QED BY <1>2, <1>3, <1>4, <1>5, <1>6, <1>7, <1>8, <1>9

(* A call starts at the root.                                              *)
LEMMA CallDense ==
    ASSUME DenseInv, NEW o \in Ops, Call(o)
    PROVE  DenseInv'
<1>1. /\ UNCHANGED tree /\ pc = "idle" /\ pc' = "descend" /\ op' = o
      /\ o.kind = "insert" => FitsKV(o.key, o.val)
  BY DEF Call, tree
<1>2. ShownPages' = ShownPages /\ V!PageType' /\ V!TreeOK' /\ V!Reached' /\ GoodPages'
  BY <1>1, SameTree
<1>3. V!Call(o) /\ o \in V!Ops
  BY <1>2, SameOps DEF Call, V!Call
<1>4. V!IInv'
  <2>1. V!IInv
    BY <1>1 DEF DenseInv
  <2> QED BY <1>3, <2>1, V!CallOK, ViewMaxByte, ViewConstants
<1> QED BY <1>1, <1>2, <1>4, NotSplitting DEF DenseInv

(* A cursor on a page that is not dense.                                   *)
LEMMA BasicNode ==
    ASSUME DenseInv, OnBasic
    PROVE  /\ Walking /\ ~IsDense(page[node])
           /\ ShownPages[node] = page[node] /\ page[node] \in Page /\ PageOK(page[node])
<1>1. Walking /\ ~IsDense(page[node])
  BY DEF OnBasic
<1>2. node \in Pages /\ V!PageType /\ V!TreeOK
  BY <1>1, Cursor
<1> QED BY <1>1, <1>2, ShownFacts, BasicPage

(* The descent through an inner page.                                      *)
LEMMA StepDownDense ==
    ASSUME DenseInv, OnBasic, Descend \/ EnsureStep
    PROVE  DenseInv'
<1>1. /\ UNCHANGED tree /\ pc' = pc /\ op' = op /\ StepDown
      /\ pc \in {"descend", "ensure"} /\ (pc = "ensure" => node # toSplit)
  BY DEF Descend, EnsureStep, StepDown, tree
<1>2. ShownPages' = ShownPages /\ V!PageType' /\ V!TreeOK' /\ V!Reached' /\ GoodPages'
  BY <1>1, SameTree
<1>3. V!StepDown
  BY <1>1, <1>2, BasicNode, SamePages DEF StepDown, V!StepDown
<1>4. V!IInv'
  <2>1. V!IInv
    BY BasicNode, Cursor
  <2> QED BY <1>1, <1>3, <2>1, V!StepDownOK, ViewMaxByte, ViewConstants
<1> QED BY <1>1, <1>2, <1>4, NotSplitting DEF DenseInv

(* insert without room, on either layout: the page is to be split.         *)
LEMMA InsertFailsDense ==
    ASSUME DenseInv, (OnBasic /\ LeafInsertFull) \/ DenseInsertFails
    PROVE  DenseInv'
<1>1. /\ pc = "descend" /\ op.kind = "insert" /\ pc' = "split"
      /\ UNCHANGED <<root, page, op, cursor, toSplit, out, res>>
      /\ IsLeaf(page[node]) \/ IsDense(page[node])
      /\ IsDense(page[node]) /\ OwnLengths(page[node]) => KeyToIndex(page[node], skey) < 0
  BY DEF OnBasic, LeafInsertFull, AtLeaf, DenseInsertFails, AtDense
<1>2. UNCHANGED tree
  BY <1>1 DEF tree
<1>3. ShownPages' = ShownPages /\ V!PageType' /\ V!TreeOK' /\ V!Reached' /\ GoodPages'
  BY <1>2, SameTree
<1>4. Walking /\ V!IInv /\ node \in Pages
  BY <1>1, Cursor DEF Walking
<1>5. V!AtLeaf("insert") /\ UNCHANGED <<root, ShownPages, op, V!cursor, toSplit, out, res>>
  <2>1. IsLeaf(ShownPages[node])
    BY <1>1, <1>4, ShownFacts
  <2>2. V!AtLeaf("insert")
    BY <1>1, <2>1, SamePages DEF V!AtLeaf
  <2> QED BY <1>1, <1>3, <2>2 DEF cursor, V!cursor
<1>6. V!IInv'
  BY <1>1, <1>4, <1>5, V!InsertFullOK, ViewMaxByte, ViewConstants
<1>7. SplitCause'
  BY <1>1 DEF SplitCause, cursor, OwnLengths, KeyToIndex, GetNumericPart, SharesNumericPrefix, IsDense
<1> QED BY <1>1, <1>3, <1>6, <1>7 DEF DenseInv, FitsKV

(* The search for a full parent, when a leaf or an inner page is split: it *)
(* begins,                                                                 *)
LEMMA EnsureSpaceDense ==
    ASSUME DenseInv, (OnBasic /\ EnsureSpace) \/ DenseEnsureSpace
    PROVE  DenseInv'
<1>1. /\ pc = "split" /\ parent # NoPage /\ pc' = "ensure" /\ toSplit' = parent
      /\ UNCHANGED <<root, page, op, out, res>> /\ FromRoot(skey)
  BY DEF EnsureSpace, Splitting, DenseEnsureSpace, SplittingDense
<1>2. UNCHANGED tree
  BY <1>1 DEF tree
<1>3. ShownPages' = ShownPages /\ V!PageType' /\ V!TreeOK' /\ V!Reached' /\ GoodPages'
  BY <1>2, SameTree
<1>4. V!Splitting /\ UNCHANGED <<root, ShownPages, op, out, res>> /\ V!FromRoot(skey)
  BY <1>1, <1>3, SameOps DEF V!Splitting
<1>5. V!IInv'
  <2>1. V!IInv
    BY <1>1, Cursor DEF Walking
  <2> QED BY <1>1, <1>4, <2>1, V!EnsureSpaceOK, ViewMaxByte, ViewConstants
<1> QED BY <1>1, <1>3, <1>5, NotSplitting DEF DenseInv

(* and ends.                                                               *)
LEMMA EnsureFoundDense ==
    ASSUME DenseInv, OnBasic, EnsureFound
    PROVE  DenseInv'
<1>1. /\ pc = "ensure" /\ pc' = "split" /\ node' = toSplit /\ page' = page /\ op' = op
      /\ UNCHANGED tree
  BY DEF EnsureFound, tree
<1>2. ShownPages' = ShownPages /\ V!PageType' /\ V!TreeOK' /\ V!Reached' /\ GoodPages'
  BY <1>1, SameTree
<1>3. V!EnsureFound
  BY <1>2, BasicNode, SamePages DEF EnsureFound, V!EnsureFound
<1>4. V!IInv /\ V!IInv'
  <2>1. V!IInv
    BY BasicNode, Cursor
  <2> QED BY <1>3, <2>1, V!EnsureFoundOK, ViewMaxByte, ViewConstants
<1>5. toSplit \in V!Inners
  BY <1>1, <1>4 DEF V!IInv, V!SplitPageAhead
<1>6. SplitCause'
  <2>1. ~IsDense(page[toSplit])
    BY <1>5, ShownFacts
  <2> QED BY <1>1, <2>1 DEF SplitCause, IsDense
<1> QED BY <1>1, <1>2, <1>4, <1>6 DEF DenseInv, FitsKV

(* Answers that change nothing.                                            *)
LEMMA ReadDense ==
    ASSUME DenseInv, (OnBasic /\ (LeafLookup \/ RemoveMiss)) \/ DenseLookup \/ DenseRemoveMiss
    PROVE  DenseInv'
<1>1. Walking /\ UNCHANGED tree
  BY DEF OnBasic, LeafLookup, RemoveMiss, DenseLookup, DenseRemoveMiss, AtDense, Walking
<1>2. PICK a : Return(a) /\ a \in AnswerType
  <2>1. NoAnswer \in AnswerType
    BY DEF NoAnswer, Answer, AnswerType
  <2>2. CASE RemoveMiss \/ DenseRemoveMiss
    BY <2>1, <2>2 DEF RemoveMiss, DenseRemoveMiss
  <2>3. CASE OnBasic /\ LeafLookup
    <3> DEFINE n == page[node]
               i == LowerBound(n, skey)
               a == IF FoundAt(n, skey, i) THEN Answer(TRUE, n.slot[i].val, << >>) ELSE NoAnswer
    <3>1. Return(a) /\ IsLeaf(n)
      BY <2>3 DEF LeafLookup, AtLeaf
    <3>2. FoundAt(n, skey, i) => n.slot[i].val \in Val
      <4>1. n \in Page /\ PageOK(n) /\ skey \in Bytes
        BY <2>3, <1>1, BasicNode, Cursor
      <4>2. i \in 1 .. Count(n) + 1 /\ Count(n) \in Nat
        BY <4>1, LowerBoundProperties, PageFacts
      <4>3. FoundAt(n, skey, i) => i \in 1 .. Count(n)
        BY <4>2 DEF FoundAt
      <4>4. \A j \in 1 .. Count(n) : n.slot[j] \in LeafSlot
        BY <3>1, <4>1, PageFacts
      <4> QED BY <4>3, <4>4 DEF LeafSlot
    <3>3. a \in AnswerType
      BY <2>1, <3>2 DEF Answer, AnswerType
    <3> QED BY <3>1, <3>3
  <2>4. CASE DenseLookup
    <3> DEFINE n == page[node]
               i == KeyToIndex(n, skey)
               a == IF HasKey(n, skey) THEN Answer(TRUE, n.arr[i], << >>) ELSE NoAnswer
    <3>1. Return(a) /\ IsDense(n)
      BY <2>4 DEF DenseLookup, AtDense
    <3>2. HasKey(n, skey) => n.arr[i] \in Val
      <4>1. ValidDense(n) /\ skey \in Bytes /\ InFences(skey, n.lower, n.upper)
        BY <1>1, <3>1, Cursor DEF GoodPage, DenseOK
      <4>2. HasKey(n, skey) => i \in Indices(n) /\ n.arr[i] # NoVal
        BY <4>1, IndexOfKey DEF HasKey
      <4> QED BY <4>1, <4>2, DenseFacts
    <3>3. a \in AnswerType
      BY <2>1, <3>2 DEF Answer, AnswerType
    <3> QED BY <3>1, <3>3
  <2> QED BY <2>2, <2>3, <2>4
<1>3. root' = root /\ V!PageType' /\ V!TreeOK' /\ V!Reached' /\ GoodPages'
  BY <1>1, SameTree
<1> QED BY <1>1, <1>2, <1>3, Returned

(* A death of the process leaves the tree as it is.                        *)
LEMMA DiesDense ==
    ASSUME DenseInv,
           \/ OnBasic /\ (LeafInsertFound \/ SplitDies)
           \/ DensifyDies \/ DenseConvertDies \/ DenseSplitDies \/ DenseScanDies \/ DenseScanDesc
    PROVE  DenseInv'
<1>1. Walking
  BY DEF OnBasic, DensifyDies, DensifyAsserts, Full, AtLeaf, DenseConvertDies, Converting, AtDense,
         DenseSplitDies, SplittingDense, DenseScanDies, DenseScanDesc, Walking
<1>2. \E how \in {"abort", "assert", "fault"} : Die(how)
  BY DEF LeafInsertFound, SplitDies, DensifyDies, DenseConvertDies, DenseSplitDies, DenseScanDies,
         DenseScanDesc
<1> QED BY <1>1, <1>2, Died

(***************************************************************************)
(* Scans.                                                                  *)
(***************************************************************************)
LEMMA SameScan ==
    ASSUME NEW kind, NEW recs, NEW fence, NEW next, V!AtLeaf(kind),
           UNCHANGED <<root, ShownPages>>,
           IF Len(out \o recs) >= op.limit
           THEN Return(Answer(FALSE, NoVal, SubSeq(out \o recs, 1, op.limit)))
           ELSE IF fence = << >>
           THEN Return(Answer(FALSE, NoVal, out \o recs))
           ELSE /\ out' = out \o recs
                /\ FromRoot(next)
                /\ UNCHANGED <<pc, op, toSplit, res>>
    PROVE  V!ScanLeaf(kind, recs, fence, next)
<1>1. UNCHANGED V!tree
  BY DEF V!tree
<1> DEFINE all == out \o recs
<1>2. IF Len(all) >= op.limit
      THEN V!Return(V!Answer(FALSE, NoVal, SubSeq(all, 1, op.limit)))
      ELSE IF fence = << >>
      THEN V!Return(V!Answer(FALSE, NoVal, all))
      ELSE /\ out' = all
           /\ V!FromRoot(next)
           /\ UNCHANGED <<pc, op, toSplit, res>>
  <2> HIDE DEF all
  <2> QED BY SameOps DEF all
<1> QED BY <1>1, <1>2 DEF V!ScanLeaf

(* The steps of a scan keep the invariant.                                 *)
LEMMA ScanDense ==
    ASSUME DenseInv, (OnBasic /\ (ScanUp \/ ScanDown)) \/ DenseScan
    PROVE  DenseInv'
<1>1. /\ pc = "descend" /\ op.kind \in {"scan", "scandesc"} /\ UNCHANGED tree
      /\ op' = op \/ op' = NoOp
      /\ pc' \in {"descend", "idle"}
  BY DEF ScanUp, ScanDown, ScanLeaf, AtLeaf, DenseScan, AtDense, Return
<1>2. ShownPages' = ShownPages /\ V!PageType' /\ V!TreeOK' /\ V!Reached' /\ GoodPages'
  BY <1>1, SameTree
<1>3. Walking /\ V!IInv /\ node \in Pages
  BY <1>1, Cursor DEF Walking
<1>4. UNCHANGED <<root, page>> => UNCHANGED <<root, ShownPages>>
  BY <1>2
<1>5. CASE OnBasic /\ ScanUp
  <2> DEFINE n == page[node]
             recs == Upwards(n)
             next == Successor(n.upper)
  <2>1. ScanLeaf("scan", recs, n.upper, next) /\ ShownPages[node] = n
    BY <1>5, BasicNode DEF ScanUp
  <2>2. V!Upwards(ShownPages[node]) = recs /\ V!Successor(ShownPages[node].upper) = next
    BY <2>1, SamePages, SameOrder DEF Upwards, V!Upwards
  <2>3. V!AtLeaf("scan")
    BY <2>1, SamePages DEF ScanLeaf, AtLeaf, V!AtLeaf
  <2>4. V!ScanLeaf("scan", recs, n.upper, next)
    <3>1. UNCHANGED <<root, page>>
      BY <1>1 DEF tree
    <3> HIDE DEF recs, next
    <3> QED BY <1>4, <2>1, <2>3, <3>1, SameScan DEF ScanLeaf
  <2>5. V!ScanUp
    <3> HIDE DEF recs, next
    <3> QED BY <2>1, <2>2, <2>4 DEF V!ScanUp
  <2>6. V!IInv'
    BY <1>3, <2>5, V!ScanUpOK, ViewMaxByte, ViewConstants
  <2> QED BY <1>1, <1>2, <2>6, NotSplitting DEF DenseInv, NoOp, Op
<1>6. CASE OnBasic /\ ScanDown
  <2> DEFINE n == page[node]
             recs == Downwards(n)
  <2>1. ScanLeaf("scandesc", recs, n.lower, n.lower) /\ ShownPages[node] = n
    BY <1>6, BasicNode DEF ScanDown
  <2>2. V!Downwards(ShownPages[node]) = recs
    <3>1. \A t : V!Reverse(t) = Reverse(t)
      BY DEF V!Reverse, Reverse
    <3> QED BY <2>1, <3>1, SamePages DEF Downwards, V!Downwards
  <2>3. V!AtLeaf("scandesc")
    BY <2>1, SamePages DEF ScanLeaf, AtLeaf, V!AtLeaf
  <2>4. V!ScanLeaf("scandesc", recs, n.lower, n.lower)
    <3>1. UNCHANGED <<root, page>>
      BY <1>1 DEF tree
    <3> HIDE DEF recs
    <3> QED BY <1>4, <2>1, <2>3, <3>1, SameScan DEF ScanLeaf
  <2>5. V!ScanDown
    <3> HIDE DEF recs
    <3> QED BY <2>1, <2>2, <2>4 DEF V!ScanDown
  <2>6. V!IInv'
    BY <1>3, <2>5, V!ScanDownOK, ViewMaxByte, ViewConstants
  <2> QED BY <1>1, <1>2, <2>6, NotSplitting DEF DenseInv, NoOp, Op
<1>7. CASE DenseScan
  <2> DEFINE n == page[node]
             recs == DenseUpwards(n)
             next == Successor(n.upper)
  <2>1. IsDense(n) /\ op.kind = "scan"
    BY <1>7 DEF DenseScan, AtDense
  <2>2. ValidDense(n) /\ n.upper \in Bytes
    BY <1>3, <2>1, Cursor, DenseFacts DEF GoodPage, DenseOK
  <2>3. recs \in Seq(V!LeafSlot) /\ next \in V!Bytes
    BY <2>2, UpwardsType, SuccessorNext, SamePages, SameOrder
  <2>4. /\ IF Len(out \o recs) >= op.limit
           THEN Return(Answer(FALSE, NoVal, SubSeq(out \o recs, 1, op.limit)))
           ELSE IF n.upper = << >>
           THEN Return(Answer(FALSE, NoVal, out \o recs))
           ELSE /\ out' = out \o recs
                /\ FromRoot(next)
                /\ UNCHANGED <<pc, op, toSplit, res>>
        /\ UNCHANGED tree
    BY <1>7 DEF DenseScan
  <2>5. V!AtLeaf("scan")
    BY <1>1, <1>3, <2>1, ShownFacts, SamePages DEF V!AtLeaf
  <2>6. V!ScanLeaf("scan", recs, n.upper, next)
    <3>1. UNCHANGED <<root, page>>
      BY <1>1 DEF tree
    <3> HIDE DEF recs, next
    <3> QED BY <1>4, <2>4, <2>5, <3>1, SameScan
  <2>7. V!IInv'
    <3> HIDE DEF recs, next
    <3> QED BY <1>3, <2>3, <2>6, V!ScanLeafOK, ViewMaxByte, ViewConstants
  <2> QED BY <1>1, <1>2, <2>7, NotSplitting DEF DenseInv, NoOp, Op
<1> QED BY <1>5, <1>6, <1>7

(***************************************************************************)
(* Steps that change one leaf.                                             *)
(***************************************************************************)
LEMMA LeafChanged ==
    ASSUME DenseInv, NEW x \in Pages, IsLeaf(page[x]) \/ IsDense(page[x]),
           NEW n, GoodPage(n), Shown(n) \in Page, PageOK(Shown(n)), IsLeaf(Shown(n)),
           n.lower = page[x].lower, n.upper = page[x].upper,
           page' = [page EXCEPT ![x] = n], root' = root
    PROVE  V!PageType' /\ V!TreeOK' /\ V!Reached' /\ GoodPages'
<1>1. /\ Pages' = Pages
      /\ \A q \in Pages : page'[q] = IF q = x THEN n ELSE page[q]
  BY DEF Pages
<1>2. ShownPages' = [ShownPages EXCEPT ![x] = Shown(n)]
  <2>1. ShownPages' = [q \in Pages |-> IF q = x THEN Shown(n) ELSE Shown(page[q])]
    BY <1>1 DEF ShownPages, Shown, IsDense, ConvertToBasic
  <2> QED BY <2>1 DEF ShownPages
<1>3. GoodPages'
  <2>1. \A q \in Pages : GoodPage(IF q = x THEN n ELSE page[q])
    BY DEF DenseInv, GoodPages
  <2> QED BY <1>1, <2>1 DEF GoodPages
<1>4. /\ x \in V!Leaves
      /\ Shown(n) \in V!Page /\ V!PageOK(Shown(n)) /\ V!IsLeaf(Shown(n))
      /\ Shown(n).lower = ShownPages[x].lower /\ Shown(n).upper = ShownPages[x].upper
  BY ShownFacts, SamePages
<1>5. V!PageType /\ V!TreeOK /\ V!Reached
  BY DEF DenseInv
<1> DEFINE m == Shown(n)
<1> HIDE DEF m
<1>6. /\ m \in V!Page /\ V!PageOK(m) /\ V!IsLeaf(m) /\ x \in V!Leaves
      /\ m.lower = ShownPages[x].lower /\ m.upper = ShownPages[x].upper
      /\ ShownPages' = [ShownPages EXCEPT ![x] = m] /\ root' = root
  BY <1>2, <1>4 DEF m
<1>7. V!PageType' /\ V!TreeOK'
  BY <1>5, <1>6, V!LeafReplaced, ViewMaxByte, ViewConstants
<1>8. V!Reached'
  BY <1>5, <1>6, V!LeafKeepsReach, ViewMaxByte, ViewConstants
<1> QED BY <1>3, <1>7, <1>8

(* A dense page made basic is a sound page if it fits.                     *)
LEMMA DenseShown ==
    ASSUME NEW n, IsDense(n), GoodPage(n)
    PROVE  /\ DenseOK(n) /\ ValidDense(n)
           /\ Shown(n) = ConvertToBasic(n)
           /\ Shown(n) \in Page /\ PageOK(Shown(n)) /\ IsLeaf(Shown(n)) /\ ~IsDense(Shown(n))
           /\ Shown(n).lower = n.lower /\ Shown(n).upper = n.upper
           /\ Fits(Shown(n)) => GoodPage(Shown(n))
<1> DEFINE b == ConvertToBasic(n)
<1>1. DenseOK(n) /\ ValidDense(n) /\ n.fullKeyLen + n.valLen <= MaxKVSize
      /\ ShortFence(n.lower) /\ ShortFence(n.upper)
  BY DEF GoodPage, DenseOK
<1>2. Shown(n) = b
  BY ShownFacts
<1> HIDE DEF b
<1>3. /\ b \in Page /\ PageOK(b) /\ IsLeaf(b) /\ ~IsDense(b)
      /\ b.lower = n.lower /\ b.upper = n.upper
      /\ \A m \in 1 .. Count(b) :
            Len(b.slot[m].key) = n.fullKeyLen /\ PayloadLen[b.slot[m].val] = n.valLen
  BY <1>1, ShownDenseOK DEF b
<1>4. \A m \in 1 .. Count(b) : FitsKV(b.slot[m].key, b.slot[m].val)
  BY <1>1, <1>3 DEF FitsKV
<1>5. Fits(b) => GoodPage(b)
  BY <1>1, <1>3, <1>4 DEF GoodPage
<1> QED BY <1>1, <1>2, <1>3, <1>5 DEF b

(* A dense page with another array.                                        *)
LEMMA GoodDense ==
    ASSUME NEW n, IsDense(n), GoodPage(n), NEW m, DenseOK(m),
           m.lower = n.lower, m.upper = n.upper, m.fullKeyLen = n.fullKeyLen, m.valLen = n.valLen
    PROVE  IsDense(m) /\ GoodPage(m)
<1>1. IsDense(m) /\ ~IsLeaf(m)
  BY DenseFacts, ShownFacts DEF DenseOK
<1> QED BY <1>1 DEF GoodPage

(* insert into a basic leaf with room.                                     *)
LEMMA LeafInsertDense ==
    ASSUME DenseInv, OnBasic, LeafInsert
    PROVE  DenseInv'
<1> DEFINE n == page[node]
           i == LowerBound(n, skey)
           m == InsertSlot(n, i, op.key, op.val)
<1>1. /\ op.kind = "insert" /\ IsLeaf(n) /\ HasRoom(n) /\ ~FoundAt(n, skey, i)
      /\ page' = [page EXCEPT ![node] = m] /\ root' = root /\ Return(NoAnswer)
  BY DEF LeafInsert, AtLeaf
<1>2. /\ Walking /\ ~IsDense(n) /\ n \in Page /\ PageOK(n) /\ node \in Pages /\ GoodPage(n)
      /\ skey \in Bytes /\ InFences(skey, n.lower, n.upper) /\ skey = op.key
  BY <1>1, BasicNode, Cursor
<1>3. op.key \in Key /\ op.val \in Val /\ FitsKV(op.key, op.val)
  <2>1. op \in OpsAndNoOp
    BY <1>2, Cursor, SameOps DEF V!IInv, V!TypeOK
  <2> QED BY <1>1, <2>1, OpFacts DEF DenseInv
<1>4. [key |-> op.key, val |-> op.val] \in LeafSlot /\ SlotType(n) = LeafSlot
  BY <1>1, <1>3 DEF LeafSlot, SlotType
<1>5. i \in 1 .. Count(n) + 1 /\ Count(n) \in Nat
  BY <1>2, LowerBoundProperties, PageFacts
<1>6. /\ m \in Page /\ PageOK(m) /\ IsLeaf(m) /\ m.lower = n.lower /\ m.upper = n.upper
  BY <1>1, <1>2, <1>4, InsertSlotOK
<1>7. /\ Count(m) = Count(n) + 1
      /\ \A j \in 1 .. (i - 1) : m.slot[j] = n.slot[j]
      /\ m.slot[i] = [key |-> op.key, val |-> op.val]
      /\ \A j \in (i + 1) .. (Count(n) + 1) : m.slot[j] = n.slot[j - 1]
  BY <1>2, <1>4, <1>5, InsertedSlots
<1>8. Fits(m)
  <2> DEFINE k == op.key
             v == op.val
             len == PayloadLen[v]
  <2>1. /\ k \in Bytes /\ len \in Nat /\ [key |-> k, val |-> v] \in SlotType(n)
        /\ len = IF IsLeaf(n) THEN PayloadLen[v] ELSE PtrSize
        /\ RequestSpaceFor(n, k, len)
    BY <1>1, <1>2, <1>3, <1>4, BTreeAssumption DEF HasRoom
  <2>2. m = InsertSlot(n, i, k, v)
    OBVIOUS
  <2> HIDE DEF k, v, len, m, n, i
  <2> QED BY <1>2, <1>5, <2>1, <2>2, InsertFits
<1> HIDE DEF m, n, i
<1>9. \A j \in 1 .. Count(m) : FitsKV(m.slot[j].key, m.slot[j].val)
  <2> TAKE j \in 1 .. Count(m)
  <2>1. \A o \in 1 .. Count(n) : FitsKV(n.slot[o].key, n.slot[o].val)
    BY <1>1, <1>2 DEF GoodPage, n
  <2>2. CASE j < i
    BY <1>5, <1>7, <2>1, <2>2
  <2>3. CASE j = i
    BY <1>3, <1>7, <2>3
  <2>4. CASE j > i
    BY <1>5, <1>7, <2>1, <2>4
  <2> QED BY <1>5, <1>7, <2>2, <2>3, <2>4
<1>10. ~IsDense(m) /\ Shown(m) = m
  BY <1>6, ShownFacts
<1>11. GoodPage(m)
  BY <1>2, <1>6, <1>8, <1>9, <1>10 DEF GoodPage
<1>12. V!PageType' /\ V!TreeOK' /\ V!Reached' /\ GoodPages'
  BY <1>1, <1>2, <1>6, <1>10, <1>11, LeafChanged DEF n
<1>13. NoAnswer \in AnswerType
  BY DEF NoAnswer, Answer, AnswerType
<1> QED BY <1>1, <1>2, <1>12, <1>13, Returned

(* What is left of a basic leaf after a removal.                           *)
LEMMA RemovedDense ==
    ASSUME DenseInv, OnBasic, Removing, NEW m, m = Removed(page[node])
    PROVE  /\ Shown(m) = m /\ m \in Page /\ PageOK(m) /\ IsLeaf(m) /\ GoodPage(m)
           /\ m.lower = page[node].lower /\ m.upper = page[node].upper
           /\ IsLeaf(page[node]) /\ node \in Pages /\ Walking
           /\ \E a \in AnswerType : Return(a)
<1> DEFINE n == page[node]
           i == LowerBound(n, skey)
<1>1. IsLeaf(n) /\ FoundAt(n, skey, i) /\ Return(Answer(TRUE, NoVal, << >>))
  BY DEF Removing, AtLeaf
<1>2. /\ Walking /\ ~IsDense(n) /\ n \in Page /\ PageOK(n) /\ node \in Pages /\ GoodPage(n)
      /\ skey \in Bytes
  BY BasicNode, Cursor
<1>3. i \in 1 .. Count(n) /\ Count(n) \in Nat
  <2>1. i \in 1 .. Count(n) + 1 /\ Count(n) \in Nat
    BY <1>2, LowerBoundProperties, PageFacts
  <2> QED BY <1>1, <2>1 DEF FoundAt
<1>4. m = RemoveSlot(n, i)
  BY DEF Removed
<1> HIDE DEF n, i
<1>5. /\ m \in Page /\ PageOK(m) /\ IsLeaf(m) /\ m.lower = n.lower /\ m.upper = n.upper
  BY <1>1, <1>2, <1>3, <1>4, RemoveSlotOK
<1>6. /\ Count(m) = Count(n) - 1
      /\ \A j \in 1 .. (i - 1) : m.slot[j] = n.slot[j]
      /\ \A j \in i .. (Count(n) - 1) : m.slot[j] = n.slot[j + 1]
  BY <1>2, <1>3, <1>4, RemovedSlots
<1>7. Fits(m)
  BY <1>2, <1>3, <1>4, RemoveFits DEF GoodPage
<1>8. \A j \in 1 .. Count(m) : FitsKV(m.slot[j].key, m.slot[j].val)
  <2> TAKE j \in 1 .. Count(m)
  <2>1. \A o \in 1 .. Count(n) : FitsKV(n.slot[o].key, n.slot[o].val)
    BY <1>1, <1>2 DEF GoodPage
  <2>2. CASE j < i
    BY <1>3, <1>6, <2>1, <2>2
  <2>3. CASE j >= i
    BY <1>3, <1>6, <2>1, <2>3
  <2> QED BY <1>3, <1>6, <2>2, <2>3
<1>9. Shown(m) = m /\ ~IsDense(m)
  BY <1>5, ShownFacts
<1>10. GoodPage(m)
  BY <1>2, <1>5, <1>7, <1>8, <1>9 DEF GoodPage
<1>11. Answer(TRUE, NoVal, << >>) \in AnswerType
  BY DEF Answer, AnswerType
<1> QED BY <1>1, <1>2, <1>5, <1>9, <1>10, <1>11 DEF n

(* remove from a basic leaf that is not merged.                            *)
LEMMA RemoveOnlyDense ==
    ASSUME DenseInv, OnBasic, RemoveOnly
    PROVE  DenseInv'
<1> DEFINE m == Removed(page[node])
<1>1. Removing /\ page' = [page EXCEPT ![node] = m] /\ root' = root
  BY DEF RemoveOnly
<1> HIDE DEF m
<1>2. /\ Shown(m) = m /\ m \in Page /\ PageOK(m) /\ IsLeaf(m) /\ GoodPage(m)
      /\ m.lower = page[node].lower /\ m.upper = page[node].upper
      /\ IsLeaf(page[node]) /\ node \in Pages /\ Walking
      /\ \E a \in AnswerType : Return(a)
  BY <1>1, RemovedDense DEF m
<1>3. V!PageType' /\ V!TreeOK' /\ V!Reached' /\ GoodPages'
  BY <1>1, <1>2, LeafChanged
<1> QED BY <1>1, <1>2, <1>3, Returned

(* insert into a dense page, or over one of its records.                   *)
LEMMA DenseInsertOK ==
    ASSUME DenseInv, DenseInsert
    PROVE  DenseInv'
<1> DEFINE n == page[node]
           i == KeyToIndex(n, skey)
           v == op.val
           m == SetSlot(n, i, v)
<1>1. /\ pc = "descend" /\ op.kind = "insert" /\ IsDense(n) /\ OwnLengths(n) /\ i >= 0
      /\ page' = [page EXCEPT ![node] = m] /\ root' = root /\ Return(NoAnswer)
  BY DEF DenseInsert, AtDense
<1>2. /\ Walking /\ node \in Pages /\ GoodPage(n)
      /\ skey \in Bytes /\ InFences(skey, n.lower, n.upper) /\ skey = op.key
  BY <1>1, Cursor DEF Walking
<1>3. op.key \in Key /\ v \in Val
  <2>1. op \in OpsAndNoOp
    BY <1>2, Cursor, SameOps DEF V!IInv, V!TypeOK
  <2> QED BY <1>1, <2>1, OpFacts
<1>4. DenseOK(n) /\ ValidDense(n)
  BY <1>1, <1>2, DenseShown
<1>5. PayloadLen[v] = n.valLen
  BY <1>1 DEF OwnLengths
<1> HIDE DEF m, n, i, v
<1>6. i \in Indices(n) /\ HasPlace(n, skey, i)
  BY <1>1, <1>2, <1>4, IndexOfKey DEF i
<1>7. /\ DenseOK(m) /\ m.lower = n.lower /\ m.upper = n.upper /\ m.fullKeyLen = n.fullKeyLen
      /\ m.valLen = n.valLen
  <2>1. skey \in Key
    BY <1>2, <1>3
  <2> QED BY <1>3, <1>4, <1>5, <1>6, <2>1, SetSlotOK DEF m
<1>8. IsDense(m) /\ GoodPage(m)
  BY <1>1, <1>2, <1>7, GoodDense
<1>9. Shown(m) \in Page /\ PageOK(Shown(m)) /\ IsLeaf(Shown(m))
  BY <1>8, DenseShown
<1>10. V!PageType' /\ V!TreeOK' /\ V!Reached' /\ GoodPages'
  BY <1>1, <1>2, <1>7, <1>8, <1>9, LeafChanged DEF n
<1>11. NoAnswer \in AnswerType
  BY DEF NoAnswer, Answer, AnswerType
<1> QED BY <1>1, <1>2, <1>10, <1>11, Returned

(***************************************************************************)
(* Changes of the layout.                                                  *)
(***************************************************************************)
LEMMA SameView ==
    ASSUME DenseInv, NEW x \in Pages, NEW n, GoodPage(n), Shown(n) = Shown(page[x]),
           page' = [page EXCEPT ![x] = n], pc = "descend",
           UNCHANGED <<root, pc, op, cursor, toSplit, out, res>>
    PROVE  DenseInv'
<1>1. /\ Pages' = Pages
      /\ \A q \in Pages : page'[q] = IF q = x THEN n ELSE page[q]
  BY DEF Pages
<1>2. ShownPages' = ShownPages
  <2>1. ShownPages' = [q \in Pages |-> IF q = x THEN Shown(n) ELSE Shown(page[q])]
    BY <1>1 DEF ShownPages, Shown, IsDense, ConvertToBasic
  <2>2. \A q \in Pages : (IF q = x THEN Shown(n) ELSE Shown(page[q])) = Shown(page[q])
    OBVIOUS
  <2> QED BY <2>1, <2>2 DEF ShownPages
<1>3. GoodPages'
  <2>1. \A q \in Pages : GoodPage(IF q = x THEN n ELSE page[q])
    BY DEF DenseInv, GoodPages
  <2> QED BY <1>1, <2>1 DEF GoodPages
<1>4. UNCHANGED V!vars
  BY <1>2 DEF V!vars, V!tree, V!cursor, cursor
<1>5. V!IInv'
  <2>1. V!IInv
    BY DEF DenseInv
  <2> QED BY <1>4, <2>1, V!NextOK, ViewMaxByte, ViewConstants
<1>6. V!PageType' /\ V!TreeOK' /\ V!Reached'
  <2>1. V!PageType /\ V!TreeOK /\ V!Reached /\ UNCHANGED V!tree
    BY <1>2 DEF DenseInv, V!tree
  <2>2. V!PageType' /\ V!TreeOK'
    BY <2>1, V!TreeUnchanged, ViewMaxByte, ViewConstants
  <2>3. V!Reached'
    BY <1>2, <2>1 DEF V!Reached, V!Closed, V!Pages, V!Inners, V!IsLeaf, V!Count, V!ChildAt
  <2> QED BY <2>2, <2>3
<1>7. pc' # "split" /\ op' = op
  OBVIOUS
<1> QED BY <1>3, <1>5, <1>6, <1>7, NotSplitting DEF DenseInv

(* A full basic leaf becomes dense (densify1).                             *)
LEMMA DensifyDense ==
    ASSUME DenseInv, Densify
    PROVE  DenseInv'
<1> DEFINE n == page[node]
           m == Densified(n)
           len == Len(n.slot[1].key)
           x == PayloadLen[n.slot[1].val]
<1>1. /\ pc = "descend" /\ op.kind = "insert" /\ IsLeaf(n) /\ ~HasRoom(n)
      /\ SameLengths(n) /\ LastKeyInArray(n)
      /\ page' = [page EXCEPT ![node] = m]
      /\ UNCHANGED <<root, pc, op, cursor, toSplit, out, res>>
  BY DEF Densify, CanDensify, Full, AtLeaf
<1>2. Walking /\ node \in Pages /\ GoodPage(n) /\ V!PageType /\ V!TreeOK /\ V!IInv
  BY <1>1, Cursor DEF Walking
<1>3. n \in Page /\ PageOK(n) /\ ~IsDense(n)
  <2>1. ~IsDense(n)
    BY <1>1 DEF IsLeaf, IsDense
  <2> QED BY <1>2, <2>1, BasicPage
<1>4. op.key \in Key /\ op.val \in Val /\ FitsKV(op.key, op.val)
  <2>1. op \in OpsAndNoOp
    BY <1>2, SameOps DEF V!IInv, V!TypeOK
  <2> QED BY <1>1, <2>1, OpFacts DEF DenseInv
<1>5. ShortFence(n.lower) /\ ShortFence(n.upper)
  BY <1>2 DEF GoodPage
<1>6. /\ \A i \in 1 .. Count(n) : Len(n.slot[i].key) = Len(op.key)
      /\ len = Len(op.key) /\ x = PayloadLen[op.val]
  <2>1. Count(n) \in Nat
    BY <1>3, PageFacts
  <2> QED BY <1>1, <2>1 DEF SameLengths
<1> HIDE DEF n, m, x, len
<1>7. Count(n) >= 1 /\ Len(op.key) >= 1
  <2> DEFINE k == op.key
             v == op.val
  <2>1. /\ k \in Key /\ v \in Val /\ FitsKV(k, v) /\ ~RequestSpaceFor(n, k, PayloadLen[v])
        /\ \A i \in 1 .. Count(n) : Len(n.slot[i].key) = Len(k)
        /\ PayloadLen[n.slot[1].val] = PayloadLen[v]
    BY <1>1, <1>4, <1>6 DEF HasRoom, x
  <2> SUFFICES Count(n) >= 1 /\ Len(k) >= 1
    OBVIOUS
  <2> HIDE DEF k, v
  <2> QED BY <1>1, <1>3, <1>5, <2>1, FullLeaf
<1>8. len >= 1 /\ len + x <= MaxKVSize
  BY <1>4, <1>6, <1>7 DEF FitsKV
<1>9. /\ DenseOK(m)
      /\ m.lower = n.lower /\ m.upper = n.upper /\ m.fullKeyLen = len /\ m.valLen = x
      /\ ConvertToBasic(m) = n
      /\ LikeFence(n.slot[1].key, n.lower, len)
  BY <1>1, <1>3, <1>5, <1>7, <1>8, DensifiedOK DEF len, x, m
<1>10. IsDense(m) /\ ~IsLeaf(m) /\ Shown(m) = n
  BY <1>9, DenseFacts, ShownFacts DEF DenseOK
<1>11. GoodPage(m)
  <2>1. n.slot[1] \in LeafSlot
    <3>1. Count(n) \in Nat /\ 1 \in 1 .. Count(n)
      BY <1>3, <1>7, PageFacts
    <3> QED BY <1>1, <1>3, <3>1, PageFacts
  <2>2. n.slot[1].key \in Key /\ n.slot[1].val \in Val
    BY <2>1 DEF LeafSlot
  <2>3. \E k \in Key : LikeFence(k, m.lower, m.fullKeyLen)
    BY <1>9, <2>2
  <2>4. \E v \in Val : m.valLen = PayloadLen[v]
    BY <1>9, <2>2 DEF x
  <2> QED BY <1>5, <1>8, <1>9, <1>10, <2>3, <2>4 DEF GoodPage
<1>12. Shown(m) = Shown(page[node])
  BY <1>3, <1>10, ShownFacts DEF n
<1> QED BY <1>1, <1>2, <1>11, <1>12, SameView

(* A dense page becomes basic for a record of other lengths.               *)
LEMMA DenseConvertOK ==
    ASSUME DenseInv, DenseConvert
    PROVE  DenseInv'
<1> DEFINE n == page[node]
           b == ConvertToBasic(n)
<1>1. /\ pc = "descend" /\ IsDense(n) /\ Fits(b)
      /\ page' = [page EXCEPT ![node] = b]
      /\ UNCHANGED <<root, pc, op, cursor, toSplit, out, res>>
  BY DEF DenseConvert, Converting, AtDense, ConvertFits
<1>2. Walking /\ node \in Pages /\ GoodPage(n)
  BY <1>1, Cursor DEF Walking
<1> HIDE DEF b
<1>3. Shown(n) = b /\ GoodPage(b) /\ ~IsDense(b)
  BY <1>1, <1>2, DenseShown DEF b
<1>4. Shown(b) = Shown(page[node])
  BY <1>3, ShownFacts
<1> QED BY <1>1, <1>2, <1>3, <1>4, SameView

(***************************************************************************)
(* A leaf, of either layout, is merged into its right neighbour.           *)
(***************************************************************************)
LEMMA MergeDense ==
    ASSUME DenseInv, Walking, IsLeaf(page[node]) \/ IsDense(page[node]),
           NEW n \in Page, PageOK(n), IsLeaf(n), GoodPage(n), CanMerge(n),
           n.lower = page[node].lower, n.upper = page[node].upper,
           page' = [q \in PagesAfterMerge |->
                       CASE q = parent         -> RemoveSlot(page[parent], pos)
                         [] q = RightNeighbour -> Merged(n, page[RightNeighbour])
                         [] OTHER              -> page[q]],
           root' = root
    PROVE  V!PageType' /\ V!TreeOK' /\ V!Reached' /\ GoodPages'
<1> DEFINE y == RightNeighbour
           p == page[parent]
           r == page[y]
           l == RemoveSlot(p, pos)
           w == Merged(n, r)
<1>1. /\ parent # NoPage /\ pos + 1 <= Count(p) /\ IsLeaf(r) /\ MergeFits(n, r)
  BY DEF CanMerge
<1>2. /\ V!PageType /\ V!TreeOK /\ node \in Pages
      /\ parent \in Pages /\ parent \in V!Inners /\ ~IsDense(p) /\ ~IsLeaf(p)
      /\ p \in Page /\ PageOK(p) /\ Count(p) \in Nat
      /\ pos \in 1 .. Count(p) + 1 /\ node = ChildAt(p, pos)
      /\ V!Reached
  BY <1>1, Cursor DEF DenseInv
<1>3. y = ChildAt(p, pos + 1) /\ pos \in 1 .. Count(p) /\ pos + 1 \in 1 .. Count(p) + 1
  BY <1>1, <1>2 DEF RightNeighbour
<1>4. ShownPages[parent] = p
  BY <1>2, ShownFacts
<1>5. y \in Pages
  <2>1. \A q \in V!Inners : \A j \in 1 .. V!Count(ShownPages[q]) + 1 :
           V!ChildAt(ShownPages[q], j) \in V!Pages
    BY <1>2, V!Pointers, ViewMaxByte, ViewConstants
  <2> QED BY <1>2, <1>3, <1>4, <2>1, SamePages, ShownFacts
<1>6. r \in Page /\ PageOK(r) /\ ~IsDense(r) /\ ShownPages[y] = r /\ GoodPage(r) /\ GoodPage(p)
  <2>1. ~IsDense(r)
    BY <1>1 DEF IsLeaf, IsDense
  <2> QED BY <1>2, <1>5, <2>1, BasicPage, ShownFacts DEF DenseInv, GoodPages
<1>7. y # parent
  BY <1>1, <1>2
<1> HIDE DEF l, w, p, r, y
<1>8. /\ l \in Page /\ ~IsLeaf(l) /\ l.lower = p.lower /\ l.upper = p.upper
  BY <1>2, <1>3, RemoveSlotOK DEF l
<1>9. Fits(l)
  BY <1>2, <1>3, <1>6, RemoveFits DEF GoodPage, l
<1>10. /\ w \in Page /\ IsLeaf(w) /\ w.lower = n.lower /\ w.upper = r.upper
       /\ Count(w) = Count(n) + Count(r)
       /\ \A j \in 1 .. Count(n) : w.slot[j] = n.slot[j]
       /\ \A j \in 1 .. Count(r) : w.slot[Count(n) + j] = r.slot[j]
  BY <1>1, <1>6, MergedSlots DEF w
<1>11. Fits(w)
  BY <1>1, <1>6, MergedFits DEF w
<1>12. \A m \in Page : ~IsDense(m)
  BY PageFacts DEF IsDense
<1>13. GoodPage(l) /\ Shown(l) = l
  BY <1>6, <1>8, <1>9, <1>12, ShownFacts DEF GoodPage
<1>14. GoodPage(w) /\ Shown(w) = w
  <2>1. \A j \in 1 .. Count(w) : FitsKV(w.slot[j].key, w.slot[j].val)
    <3> TAKE j \in 1 .. Count(w)
    <3>1. Count(n) \in Nat /\ Count(r) \in Nat
      BY <1>6, PageFacts
    <3>2. CASE j <= Count(n)
      <4>1. j \in 1 .. Count(n)
        BY <3>1, <3>2
      <4> QED BY <1>10, <4>1 DEF GoodPage
    <3>3. CASE j > Count(n)
      <4>1. j - Count(n) \in 1 .. Count(r) /\ Count(n) + (j - Count(n)) = j
        BY <1>10, <3>1, <3>3
      <4>2. w.slot[j] = r.slot[j - Count(n)]
        BY <1>10, <4>1
      <4> QED BY <1>1, <1>6, <4>1, <4>2 DEF GoodPage, r
    <3> QED BY <1>10, <3>1, <3>2, <3>3
  <2> QED BY <1>6, <1>10, <1>11, <1>12, <2>1, ShownFacts DEF GoodPage
<1>15. page' = [q \in Pages \ {node} |-> CASE q = parent -> l [] q = y -> w [] OTHER -> page[q]]
  BY DEF PagesAfterMerge, Pages, l, w, p, r, y
<1>16. /\ Pages' = Pages \ {node}
       /\ \A q \in Pages \ {node} : page'[q] = IF q = parent THEN l ELSE IF q = y THEN w ELSE page[q]
  BY <1>7, <1>15 DEF Pages
<1>17. GoodPages'
  <2>1. \A q \in Pages \ {node} : GoodPage(IF q = parent THEN l ELSE IF q = y THEN w ELSE page[q])
    BY <1>13, <1>14 DEF DenseInv, GoodPages
  <2> QED BY <1>16, <2>1 DEF GoodPages
<1>18. ShownPages' = [q \in DOMAIN ShownPages \ {node} |->
                         CASE q = parent -> V!RemoveSlot(ShownPages[parent], pos)
                           [] q = y      -> V!Merged(n, ShownPages[y])
                           [] OTHER      -> ShownPages[q]]
  <2>1. V!RemoveSlot(ShownPages[parent], pos) = l /\ V!Merged(n, ShownPages[y]) = w
    BY <1>4, <1>6, SamePages, SameSeparators DEF l, w
  <2>2. ShownPages' = [q \in Pages \ {node} |->
                          IF q = parent THEN l ELSE IF q = y THEN w ELSE Shown(page[q])]
    <3>1. ShownPages' = [q \in Pages' |-> Shown(page'[q])]
      BY DEF ShownPages, Shown, IsDense, ConvertToBasic
    <3> QED BY <1>13, <1>14, <1>16, <3>1
  <2>3. ShownPages' = [q \in DOMAIN ShownPages \ {node} |->
                          CASE q = parent -> l [] q = y -> w [] OTHER -> ShownPages[q]]
    <3>1. \A q \in Pages \ {node} :
             (IF q = parent THEN l ELSE IF q = y THEN w ELSE Shown(page[q]))
                = CASE q = parent -> l [] q = y -> w [] OTHER -> ShownPages[q]
      BY <1>7, ShownFacts
    <3> QED BY <2>2, <3>1, ShownFacts
  <2> QED BY <2>1, <2>3
<1>19. /\ node \in V!Leaves /\ parent \in V!Inners
       /\ pos \in 1 .. V!Count(ShownPages[parent]) /\ pos + 1 <= V!Count(ShownPages[parent])
       /\ node = V!ChildAt(ShownPages[parent], pos) /\ y = V!ChildAt(ShownPages[parent], pos + 1)
       /\ V!IsLeaf(ShownPages[y])
       /\ n \in V!Page /\ V!PageOK(n) /\ V!IsLeaf(n)
       /\ n.lower = ShownPages[node].lower /\ n.upper = ShownPages[node].upper
  BY <1>1, <1>2, <1>3, <1>4, <1>6, SamePages, ShownFacts
<1>20. V!PageType' /\ V!TreeOK'
  BY <1>2, <1>18, <1>19, V!MergeTree, ViewMaxByte, ViewConstants
<1>21. V!Reached'
  <2> DEFINE g == V!Merged(n, ShownPages[y])
  <2>1. V!IsLeaf(g)
    BY <1>6, <1>10, SamePages, SameSeparators DEF w
  <2>2. ShownPages' = [q \in DOMAIN ShownPages \ {node} |->
                          CASE q = parent -> V!RemoveSlot(ShownPages[parent], pos)
                            [] q = y      -> g
                            [] OTHER      -> ShownPages[q]]
    BY <1>18
  <2> HIDE DEF g
  <2> QED BY <1>2, <1>19, <2>1, <2>2, V!MergeKeepsReach, ViewMaxByte, ViewConstants
<1> QED BY <1>17, <1>20, <1>21


(* remove from a basic leaf that is then merged.                           *)
LEMMA RemoveMergeDense ==
    ASSUME DenseInv, OnBasic, RemoveAndMerge
    PROVE  DenseInv'
<1> DEFINE m == Removed(page[node])
<1>1. /\ Removing /\ CanMerge(m) /\ root' = root
      /\ page' = [q \in PagesAfterMerge |->
                     CASE q = parent         -> RemoveSlot(page[parent], pos)
                       [] q = RightNeighbour -> Merged(m, page[RightNeighbour])
                       [] OTHER              -> page[q]]
  BY DEF RemoveAndMerge
<1> HIDE DEF m
<1>2. /\ m \in Page /\ PageOK(m) /\ IsLeaf(m) /\ GoodPage(m)
      /\ m.lower = page[node].lower /\ m.upper = page[node].upper
      /\ IsLeaf(page[node]) /\ Walking
      /\ \E a \in AnswerType : Return(a)
  BY <1>1, RemovedDense DEF m
<1>3. V!PageType' /\ V!TreeOK' /\ V!Reached' /\ GoodPages'
  BY <1>1, <1>2, MergeDense
<1> QED BY <1>1, <1>2, <1>3, Returned

(* remove from a dense page, which may become basic and may be merged.     *)
LEMMA DenseRemoveOK ==
    ASSUME DenseInv, DenseRemove
    PROVE  DenseInv'
<1> DEFINE d == page[node]
           i == KeyToIndex(d, skey)
           n == UnsetSlot(d, i)
           b == ConvertToBasic(n)
<1>1. /\ pc = "descend" /\ op.kind = "remove" /\ IsDense(d) /\ HasKey(d, skey)
      /\ Return(Answer(TRUE, NoVal, << >>)) /\ root' = root
      /\ \/ /\ ~BecomesBasic(n)
            /\ page' = [page EXCEPT ![node] = n]
         \/ /\ BecomesBasic(n) /\ ~CanMerge(b)
            /\ page' = [page EXCEPT ![node] = b]
         \/ /\ BecomesBasic(n) /\ CanMerge(b)
            /\ page' = [q \in PagesAfterMerge |->
                           CASE q = parent         -> RemoveSlot(page[parent], pos)
                             [] q = RightNeighbour -> Merged(b, page[RightNeighbour])
                             [] OTHER              -> page[q]]
  BY DEF DenseRemove, AtDense
<1>2. /\ Walking /\ node \in Pages /\ GoodPage(d)
      /\ skey \in Bytes /\ InFences(skey, d.lower, d.upper)
  BY <1>1, Cursor DEF Walking
<1>3. DenseOK(d) /\ ValidDense(d)
  BY <1>1, <1>2, DenseShown
<1>4. i \in Occupied(d)
  <2>1. i \in Indices(d) /\ d.arr[i] # NoVal
    BY <1>1, <1>2, <1>3, IndexOfKey DEF HasKey
  <2> QED BY <2>1 DEF Occupied
<1> HIDE DEF n, b, i, d
<1>5. /\ DenseOK(n) /\ n.lower = d.lower /\ n.upper = d.upper
      /\ n.fullKeyLen = d.fullKeyLen /\ n.valLen = d.valLen
  BY <1>3, <1>4, UnsetSlotOK DEF n
<1>6. IsDense(n) /\ GoodPage(n)
  BY <1>1, <1>2, <1>5, GoodDense
<1>7. /\ Shown(n) = b /\ b \in Page /\ PageOK(b) /\ IsLeaf(b) /\ ~IsDense(b)
      /\ b.lower = n.lower /\ b.upper = n.upper
      /\ Fits(b) => GoodPage(b)
  BY <1>6, DenseShown DEF b
<1>8. BecomesBasic(n) => GoodPage(b)
  <2>1. DenseUnderfull(n) => Fits(b)
    BY <1>5, ConvertedFits DEF b
  <2> QED BY <1>7, <2>1 DEF BecomesBasic
<1>9. Shown(b) = b
  BY <1>7, ShownFacts
<1>10. V!PageType' /\ V!TreeOK' /\ V!Reached' /\ GoodPages'
  <2>1. CASE page' = [page EXCEPT ![node] = n]
    BY <1>1, <1>2, <1>5, <1>6, <1>7, <2>1, LeafChanged DEF d
  <2>2. CASE BecomesBasic(n) /\ page' = [page EXCEPT ![node] = b]
    BY <1>1, <1>2, <1>5, <1>7, <1>8, <1>9, <2>2, LeafChanged DEF d
  <2>3. CASE /\ BecomesBasic(n) /\ CanMerge(b)
             /\ page' = [q \in PagesAfterMerge |->
                            CASE q = parent         -> RemoveSlot(page[parent], pos)
                              [] q = RightNeighbour -> Merged(b, page[RightNeighbour])
                              [] OTHER              -> page[q]]
    BY <1>1, <1>2, <1>5, <1>7, <1>8, <2>3, MergeDense DEF d
  <2> QED BY <1>1, <2>1, <2>2, <2>3
<1>11. Answer(TRUE, NoVal, << >>) \in AnswerType
  BY DEF Answer, AnswerType
<1> QED BY <1>1, <1>2, <1>10, <1>11, Returned

(***************************************************************************)
(* Splits.                                                                 *)
(***************************************************************************)
LEMMA SameNewPage ==
    /\ V!NewPage = NewPage /\ V!FreePages = FreePages
    /\ FreePages # {} => NewPage \in PageId /\ NewPage \notin Pages
<1>1. DOMAIN ShownPages = DOMAIN page /\ Pages = DOMAIN page
  BY DEF ShownPages, Pages
<1> QED BY <1>1, NewPageFacts DEF V!NewPage, NewPage, V!FreePages, FreePages

(* A root that is split gets a parent first (makeRoot).                    *)
LEMMA MakeRootDense ==
    ASSUME DenseInv, Walking, MakeRoot
    PROVE  DenseInv'
<1> DEFINE p == NewPage
           r == Inner(<< >>, << >>, << >>, node)
<1>1. /\ pc = "split" /\ parent = NoPage /\ FreePages # {}
      /\ page' = [q \in DOMAIN page \cup {p} |-> IF q = p THEN r ELSE page[q]]
      /\ root' = p /\ parent' = p /\ pos' = 1
      /\ UNCHANGED <<pc, op, node, skey, toSplit, out, res>>
  BY DEF MakeRoot
<1>2. p \in PageId /\ p \notin Pages
  BY <1>1, SameNewPage
<1>3. /\ V!IInv /\ V!PageType /\ V!TreeOK /\ V!Reached /\ node \in Pages /\ node \in PageId
      /\ node = root
  BY <1>1, Cursor DEF DenseInv
<1>4. r \in Page /\ r.lower = << >> /\ r.upper = << >> /\ r.slot = << >> /\ ~IsLeaf(r)
  <2>1. << >> \in Bytes /\ << >> \in Seq(InnerSlot)
    BY DEF Bytes
  <2> QED BY <1>3, <2>1 DEF Inner, Page, InnerPage, IsLeaf
<1>5. Fits(r)
  BY <1>4, EmptyFits
<1>6. r = V!Inner(<< >>, << >>, << >>, node)
  BY SamePages DEF V!Inner, Inner
<1> HIDE DEF p, r
<1>7. Shown(r) = r /\ ~IsDense(r)
  BY <1>4, PageFacts, ShownFacts DEF IsDense
<1>8. ShortFence(<< >>)
  BY DEF ShortFence
<1>9. GoodPage(r)
  BY <1>4, <1>5, <1>7, <1>8 DEF GoodPage
<1>10. /\ Pages' = Pages \cup {p}
       /\ \A q \in Pages \cup {p} : page'[q] = IF q = p THEN r ELSE page[q]
  BY <1>1 DEF Pages
<1>11. GoodPages'
  <2>1. \A q \in Pages \cup {p} : GoodPage(IF q = p THEN r ELSE page[q])
    BY <1>9 DEF DenseInv, GoodPages
  <2> QED BY <1>10, <2>1 DEF GoodPages
<1>12. ShownPages' = [q \in DOMAIN ShownPages \cup {p} |-> IF q = p THEN r ELSE ShownPages[q]]
  <2>1. ShownPages' = [q \in Pages' |-> Shown(page'[q])]
    BY DEF ShownPages, Shown, IsDense, ConvertToBasic
  <2>2. \A q \in Pages \cup {p} : Shown(page'[q]) = IF q = p THEN r ELSE ShownPages[q]
    BY <1>7, <1>10, ShownFacts
  <2>3. DOMAIN ShownPages = Pages
    BY ShownFacts
  <2> QED BY <1>10, <2>1, <2>2, <2>3
<1>13. V!MakeRoot
  BY <1>1, <1>6, <1>12, SameNewPage DEF V!MakeRoot, p
<1>14. V!IInv'
  BY <1>3, <1>13, V!MakeRootOK, ViewMaxByte, ViewConstants
<1>15. V!PageType' /\ V!TreeOK'
  BY <1>14 DEF V!IInv, V!TypeOK, V!PageType, V!Page, V!Pages
<1>16. V!Reached'
  <2>1. /\ p \notin V!Pages /\ root' = p
        /\ ShownPages' = [q \in DOMAIN ShownPages \cup {p} |->
                              IF q = p THEN V!Inner(<< >>, << >>, << >>, root) ELSE ShownPages[q]]
    BY <1>1, <1>2, <1>3, <1>6, <1>12, ShownFacts
  <2> QED BY <1>3, <2>1, V!RootKeepsReach, ViewMaxByte, ViewConstants
<1>17. SplitCause'
  <2>1. page'[node] = page[node] /\ pc' = pc /\ node' = node /\ skey' = skey /\ op' = op
    BY <1>1, <1>2, <1>3, <1>10
  <2> DEFINE own(x, o) == PayloadLen[o.val] = x.valLen /\ Len(o.key) = x.fullKeyLen
             cause(w, x, y, o) == w = "split" /\ IsDense(x) /\ own(x, o) => KeyToIndex(x, y) < 0
  <2>2. SplitCause = cause(pc, page[node], skey, op)
    BY DEF SplitCause, OwnLengths
  <2>3. SplitCause' = cause(pc', page'[node'], skey', op')
    <3>1. IsDense(page[node])' = IsDense(page'[node'])
      BY DEF IsDense
    <3>2. OwnLengths(page[node])' = own(page'[node'], op')
      BY DEF OwnLengths
    <3>3. KeyToIndex(page[node], skey)' = KeyToIndex(page'[node'], skey')
      BY DEF KeyToIndex, GetNumericPart, SharesNumericPrefix
    <3> QED BY <3>1, <3>2, <3>3 DEF SplitCause
  <2> HIDE DEF cause, own
  <2> QED BY <2>1, <2>2, <2>3 DEF DenseInv
<1> QED BY <1>1, <1>11, <1>14, <1>15, <1>16, <1>17 DEF DenseInv, FitsKV

(* A page is replaced by two that together are responsible for the same    *)
(* keys, and the insert starts over.                                       *)
LEMMA SplitDense ==
    ASSUME DenseInv, pc = "split", parent # NoPage, FreePages # {},
           NEW s, NEW l, NEW r, V!Halves(Shown(page[node]), s, Shown(l), Shown(r)),
           GoodPage(l), GoodPage(r),
           RequestSpaceFor(page[parent], s.sep, PtrSize),
           ~FoundAt(page[parent], s.sep, LowerBound(page[parent], s.sep)),
           page' = [q \in DOMAIN page \cup {NewPage} |->
                       CASE q = NewPage -> l
                         [] q = node    -> r
                         [] q = parent  -> InsertSlot(page[parent], LowerBound(page[parent], s.sep),
                                                      s.sep, NewPage)
                         [] OTHER       -> page[q]],
           root' = root, pc' = "descend", FromRoot(op.key), UNCHANGED <<op, toSplit, out, res>>
    PROVE  DenseInv'
<1> DEFINE x == node
           p == parent
           m == page[p]
           left == NewPage
           i == LowerBound(m, s.sep)
           w == InsertSlot(m, i, s.sep, left)
<1>1. /\ V!IInv /\ V!PageType /\ V!TreeOK /\ V!Reached /\ x \in Pages
      /\ p \in Pages /\ p \in V!Inners /\ ~IsDense(m) /\ ~IsLeaf(m) /\ m \in Page /\ PageOK(m)
      /\ pos \in 1 .. Count(m) + 1 /\ x = ChildAt(m, pos) /\ GoodPage(m)
  BY Cursor DEF DenseInv, Walking, GoodPages
<1>2. left \in PageId /\ left \notin Pages
  BY SameNewPage
<1>3. s.sep \in Bytes
  BY SameOrder DEF V!Halves
<1>4. i \in 1 .. Count(m) + 1
  BY <1>1, <1>3, LowerBoundProperties
<1>5. [key |-> s.sep, val |-> left] \in SlotType(m) /\ PtrSize \in Nat
  BY <1>1, <1>2, <1>3, BTreeAssumption DEF SlotType, InnerSlot
<1>6. w \in Page /\ ~IsLeaf(w) /\ w.lower = m.lower /\ w.upper = m.upper
  <2> HIDE DEF m, i, left
  <2> QED BY <1>1, <1>4, <1>5, InsertedSlots
<1>7. Fits(w)
  <2> DEFINE k == s.sep
             v == InsertSlot(m, i, k, left)
  <2>1. k \in Bytes /\ [key |-> k, val |-> left] \in SlotType(m) /\ RequestSpaceFor(m, k, PtrSize)
        /\ Fits(m)
    BY <1>1, <1>3, <1>5 DEF GoodPage
  <2> HIDE DEF k, i, left, m
  <2>2. Fits(v)
    BY <1>1, <1>4, <1>5, <2>1, InsertFits
  <2> QED BY <2>2 DEF k
<1> HIDE DEF w, i, left, m
<1>8. Shown(w) = w /\ ~IsDense(w) /\ GoodPage(w)
  <2>1. ~IsDense(w)
    BY <1>6, PageFacts DEF IsDense
  <2> QED BY <1>1, <1>6, <1>7, <2>1, ShownFacts DEF GoodPage
<1>9. /\ x # p /\ x # left /\ p # left
      /\ DOMAIN page = Pages
  <2>1. DOMAIN page = Pages
    BY DEF Pages
  <2>2. x # p
    <3>1. /\ \A q \in V!Inners : \A j \in 1 .. V!Count(ShownPages[q]) + 1 :
                V!ChildAt(ShownPages[q], j) # q
      BY <1>1, V!Pointers, ViewMaxByte, ViewConstants
    <3>2. ShownPages[p] = m
      BY <1>1, ShownFacts DEF m
    <3> QED BY <1>1, <3>1, <3>2, SamePages
  <2> QED BY <1>1, <1>2, <2>1, <2>2
<1>10. /\ Pages' = Pages \cup {left}
       /\ \A q \in Pages \cup {left} :
             page'[q] = IF q = left THEN l ELSE IF q = x THEN r ELSE IF q = p THEN w ELSE page[q]
  <2>1. page' = [q \in Pages \cup {left} |->
                    CASE q = left -> l [] q = x -> r [] q = p -> w [] OTHER -> page[q]]
    BY <1>9 DEF w, i, m, left
  <2> QED BY <1>9, <2>1 DEF Pages
<1>11. GoodPages'
  <2>1. \A q \in Pages : GoodPage(page[q])
    BY DEF DenseInv, GoodPages
  <2>2. \A q \in Pages \cup {left} :
            GoodPage(IF q = left THEN l ELSE IF q = x THEN r ELSE IF q = p THEN w ELSE page[q])
    BY <1>8, <2>1
  <2> QED BY <1>10, <2>2 DEF GoodPages
<1>12. ShownPages' = [q \in DOMAIN ShownPages \cup {left} |->
                         CASE q = left -> Shown(l)
                           [] q = x    -> Shown(r)
                           [] q = p    -> V!InsertSlot(ShownPages[p], V!LowerBound(ShownPages[p], s.sep),
                                                       s.sep, left)
                           [] OTHER    -> ShownPages[q]]
  <2>1. V!InsertSlot(ShownPages[p], V!LowerBound(ShownPages[p], s.sep), s.sep, left) = w
    BY <1>1, ShownFacts, SamePages DEF w, i, m
  <2>2. ShownPages' = [q \in Pages' |-> Shown(page'[q])]
    BY DEF ShownPages, Shown, IsDense, ConvertToBasic
  <2>3. \A q \in Pages \cup {left} :
            Shown(page'[q]) = CASE q = left -> Shown(l) [] q = x -> Shown(r) [] q = p -> w
                                [] OTHER -> ShownPages[q]
    <3> TAKE q \in Pages \cup {left}
    <3>1. page'[q] = IF q = left THEN l ELSE IF q = x THEN r ELSE IF q = p THEN w ELSE page[q]
      BY <1>10
    <3>2. q # left => ShownPages[q] = Shown(page[q])
      BY ShownFacts
    <3>3. Shown(w) = w
      BY <1>8
    <3> HIDE DEF x, p
    <3>4. x # p /\ x # left /\ p # left
      BY <1>9
    <3>5. CASE q = left
      BY <3>1, <3>4, <3>5
    <3>6. CASE q = x
      BY <3>1, <3>4, <3>6
    <3>7. CASE q = p
      BY <3>1, <3>3, <3>4, <3>7
    <3>8. CASE q # left /\ q # x /\ q # p
      BY <3>1, <3>2, <3>8
    <3> QED BY <3>5, <3>6, <3>7, <3>8
  <2>4. DOMAIN ShownPages = Pages
    BY ShownFacts
  <2> QED BY <1>10, <2>1, <2>2, <2>3, <2>4
<1> DEFINE a == Shown(l)
           b == Shown(r)
<1>13. /\ x \in V!Pages /\ pos \in 1 .. V!Count(ShownPages[p]) + 1 /\ x = V!ChildAt(ShownPages[p], pos)
       /\ left \notin V!Pages
       /\ V!Halves(ShownPages[x], s, a, b)
       /\ ~V!FoundAt(ShownPages[p], s.sep, V!LowerBound(ShownPages[p], s.sep))
  <2>1. ShownPages[p] = m /\ ShownPages[x] = Shown(page[x]) /\ V!Pages = Pages
    BY <1>1, ShownFacts DEF m
  <2> QED BY <1>1, <1>2, <2>1, SamePages DEF m
<1> HIDE DEF a, b
<1>14. ShownPages' = [q \in DOMAIN ShownPages \cup {left} |->
                         CASE q = left -> a
                           [] q = x    -> b
                           [] q = p    -> V!InsertSlot(ShownPages[p], V!LowerBound(ShownPages[p], s.sep),
                                                       s.sep, left)
                           [] OTHER    -> ShownPages[q]]
  BY <1>12 DEF a, b
<1> HIDE DEF x, p
<1>15. V!PageType' /\ V!TreeOK'
  BY <1>1, <1>2, <1>13, <1>14, V!SplitTree, ViewMaxByte, ViewConstants
<1>16. V!Reached'
  BY <1>1, <1>2, <1>13, <1>14, V!SplitKeepsReach, ViewMaxByte, ViewConstants
<1>17. V!IInv'
  BY <1>1, <1>15, SameOps, V!StartOverOK, ViewMaxByte, ViewConstants
<1> QED BY <1>11, <1>15, <1>16, <1>17, NotSplitting DEF DenseInv


(* The separator of a page is a separator that it has, or a prefix of a    *)
(* key.                                                                    *)
LEMMA ShortSeparator ==
    ASSUME V!PageType, V!TreeOK, GoodPages, NEW x \in Pages, ~IsDense(page[x]),
           PageOK(page[x]), page[x] \in Page,
           Count(page[x]) > 1, FindSeparator(page[x]).at >= 2
    PROVE  ShortFence(FindSeparator(page[x]).sep)
<1> DEFINE n == page[x]
           s == FindSeparator(n)
<1>1. /\ s.at \in 1 .. Count(n) /\ (~IsLeaf(n) => s.sep = n.slot[s.at].key) /\ Count(n) \in Nat
      /\ s.sep \in Bytes
  BY SeparatorProperties, PageFacts
<1>2. CASE IsLeaf(n)
  <2>1. PICK i \in 1 .. Count(n) : Len(s.sep) <= Len(n.slot[i].key)
    <3> HIDE DEF s, n
    <3>1. n \in Page /\ Count(n) > 1
      BY DEF n
    <3> QED BY <1>2, <3>1, SeparatorLen DEF s
  <2>2. FitsKV(n.slot[i].key, n.slot[i].val) /\ n.slot[i] \in LeafSlot
    BY <1>1, <1>2, PageFacts DEF GoodPages, GoodPage
  <2> DEFINE k == n.slot[i].key
             len == PayloadLen[n.slot[i].val]
  <2>3. k \in Bytes /\ len \in Nat /\ Len(k) + len <= MaxKVSize
    BY <2>2, BTreeAssumption DEF LeafSlot, FitsKV
  <2>4. Len(k) \in Nat /\ Len(s.sep) \in Nat /\ MaxKVSize \in Int /\ Len(s.sep) <= Len(k)
    BY <1>1, <2>1, <2>3, BytesType, KVBound
  <2> HIDE DEF k, len, s
  <2>5. Len(s.sep) <= MaxKVSize
    BY <2>3, <2>4
  <2> QED BY <2>5 DEF ShortFence, s
<1>3. CASE ~IsLeaf(n)
  <2> DEFINE j == s.at + 1
             c == ChildAt(n, j)
  <2>1. x \in V!Inners /\ ShownPages[x] = n
    BY <1>3, ShownFacts, SamePages DEF V!Inners
  <2>2. j \in 1 .. Count(n) + 1 /\ j - 1 = s.at
    BY <1>1
  <2>3. c \in Pages /\ ShownPages[c].lower = SepAt(n, j - 1)
    <3> HIDE DEF j
    <3>1. /\ V!ChildAt(ShownPages[x], j) \in V!Pages
          /\ ShownPages[V!ChildAt(ShownPages[x], j)].lower = V!SepAt(ShownPages[x], j - 1)
      BY <2>1, <2>2, SamePages DEF V!TreeOK, V!ChildFences
    <3> QED BY <2>1, <3>1, SamePages, ShownFacts
  <2>4. page[c].lower = s.sep
    BY <1>1, <1>3, <2>2, <2>3, ShownFacts DEF SepAt
  <2> QED BY <2>3, <2>4 DEF GoodPages, GoodPage
<1> QED BY <1>2, <1>3

(* splitNode of a page that is not dense.                                  *)
LEMMA SplitBasic ==
    ASSUME DenseInv, OnBasic, SplitNode
    PROVE  DenseInv'
<1> DEFINE n == page[node]
           p == page[parent]
           s == FindSeparator(n)
           l == SplitLeft(n, s)
           r == SplitRight(n, s)
<1>1. /\ pc = "split" /\ parent # NoPage /\ SplitChecks = "split" /\ FreePages # {}
      /\ page' = [q \in DOMAIN page \cup {NewPage} |->
                     CASE q = NewPage -> l
                       [] q = node    -> r
                       [] q = parent  -> InsertSlot(p, LowerBound(p, s.sep), s.sep, NewPage)
                       [] OTHER       -> page[q]]
      /\ root' = root /\ pc' = "descend" /\ FromRoot(op.key)
      /\ UNCHANGED <<op, toSplit, out, res>>
  BY DEF SplitNode, Splitting
<1>2. /\ ~ (Count(n) < 2) /\ ~ (s.at < 2) /\ ~FoundAt(p, s.sep, LowerBound(p, s.sep))
      /\ RequestSpaceFor(p, s.sep, PtrSize) /\ Fits(l) /\ Fits(r)
  BY <1>1 DEF SplitChecks
<1>3. /\ V!PageType /\ V!TreeOK /\ GoodPages /\ node \in Pages /\ ~IsDense(n) /\ n \in Page /\ PageOK(n)
      /\ Shown(n) = n /\ GoodPage(n) /\ Count(n) \in Nat
  BY BasicNode, Cursor, ShownFacts, PageFacts DEF DenseInv
<1>4. Count(n) > 1 /\ s.at >= 2
  <2>1. Count(n) > 1
    BY <1>2, <1>3
  <2>2. s.at \in Int
    <3>1. CASE IsLeaf(n)
      <4>1. Cut(n, s)
        BY <1>3, <2>1, <3>1, LeafSeparator DEF FindSeparator
      <4> QED BY <1>3, <4>1 DEF Cut
    <3>2. CASE ~IsLeaf(n)
      <4>1. s.at = Count(n) \div 2
        BY <3>2 DEF FindSeparator
      <4> QED BY <1>3, <4>1
    <3> QED BY <3>1, <3>2
  <2> QED BY <1>2, <2>1, <2>2
<1>5. ShortFence(s.sep)
  BY <1>3, <1>4, ShortSeparator
<1>6. s = FindSeparator(n) /\ l = SplitLeft(n, s) /\ r = SplitRight(n, s)
  OBVIOUS
<1> HIDE DEF n, s, l, r
<1>7. Halves(n, s, l, r) /\ s.at \in 1 .. Count(n)
  BY <1>3, <1>4, <1>6, SplitMakesHalves, SeparatorProperties
<1>8. /\ l \in Page /\ r \in Page /\ (IsLeaf(l) <=> IsLeaf(n)) /\ (IsLeaf(r) <=> IsLeaf(n))
      /\ l.lower = n.lower /\ l.upper = s.sep /\ r.lower = s.sep /\ r.upper = n.upper
  BY <1>7 DEF Halves
<1>9. IsLeaf(n) =>
         /\ Count(l) = s.at /\ \A j \in 1 .. Count(l) : l.slot[j] = n.slot[j]
         /\ Count(r) = Count(n) - s.at /\ \A j \in 1 .. Count(r) : r.slot[j] = n.slot[s.at + j]
  BY <1>3, <1>4, <1>6, SplitLeftOK, SplitRightOK
<1>10. IsLeaf(n) => \A j \in 1 .. Count(n) : FitsKV(n.slot[j].key, n.slot[j].val)
  BY <1>3 DEF GoodPage
<1>11. GoodPage(l) /\ GoodPage(r) /\ Shown(l) = l /\ Shown(r) = r
  <2>1. ~IsDense(l) /\ ~IsDense(r)
    BY <1>8, PageFacts DEF IsDense
  <2>2. IsLeaf(n) => \A j \in 1 .. Count(l) : FitsKV(l.slot[j].key, l.slot[j].val)
    BY <1>3, <1>7, <1>9, <1>10
  <2>3. IsLeaf(n) => \A j \in 1 .. Count(r) : FitsKV(r.slot[j].key, r.slot[j].val)
    <3> SUFFICES ASSUME IsLeaf(n), NEW j \in 1 .. Count(r)
                 PROVE  FitsKV(r.slot[j].key, r.slot[j].val)
      OBVIOUS
    <3>1. s.at + j \in 1 .. Count(n)
      BY <1>3, <1>7, <1>9
    <3> QED BY <1>9, <1>10, <3>1
  <2> QED BY <1>2, <1>3, <1>5, <1>8, <2>1, <2>2, <2>3, ShownFacts DEF GoodPage
<1>12. V!Halves(Shown(n), s, Shown(l), Shown(r))
  <2>1. V!Halves(n, s, l, r)
    BY <1>7, SameOrder, SamePages DEF V!Halves, Halves
  <2> QED BY <1>3, <1>11, <2>1
<1> QED BY <1>1, <1>2, <1>11, <1>12, SplitDense DEF n

(* The array of a page that is split ends before the numbers do, and the   *)
(* boundary behind it lies between the page's fences.                      *)
CutsInside ==
    SplittingDense /\ (\E dense \in SplitToSelf(page[node]) : DenseSplitChecks(dense) = "split")
        => /\ InsideNumbers(page[node])
           /\ InFences(Boundary(page[node]), page[node].lower, page[node].upper)

(* splitNode of a dense page (splitNode1): the cut is the boundary.        *)
LEMMA SplitBehindArray ==
    ASSUME DenseInv, CutsInside, DenseSplit
    PROVE  DenseInv'
<1> DEFINE n == page[node]
           b == Boundary(n)
           s == [sep |-> b, at |-> 0]
<1>1. PICK dense \in SplitToSelf(n) :
         /\ DenseSplitChecks(dense) = "split"
         /\ page' = [q \in DOMAIN page \cup {NewPage} |->
                        CASE q = NewPage -> DenseLeft(n)
                          [] q = node    -> DenseRight(n, dense)
                          [] q = parent  -> InsertSlot(page[parent], LowerBound(page[parent], b), b, NewPage)
                          [] OTHER       -> page[q]]
  BY DEF DenseSplit
<1>2. /\ pc = "split" /\ parent # NoPage /\ IsDense(n) /\ FreePages # {}
      /\ root' = root /\ pc' = "descend" /\ FromRoot(op.key) /\ UNCHANGED <<op, toSplit, out, res>>
  BY DEF DenseSplit, SplittingDense
<1>3. InsideNumbers(n) /\ InFences(b, n.lower, n.upper)
  BY <1>1, <1>2 DEF CutsInside, SplittingDense
<1>4. dense \in BOOLEAN
  BY <1>1 DEF SplitToSelf
<1>5. RequestSpaceFor(page[parent], b, PtrSize) /\ ~FoundAt(page[parent], b, LowerBound(page[parent], b))
  BY <1>1 DEF DenseSplitChecks
<1>6. node \in Pages /\ GoodPage(n)
  BY <1>2, Cursor DEF Walking
<1>7. DenseOK(n) /\ ShortFence(n.lower) /\ ShortFence(n.upper) /\ n.fullKeyLen + n.valLen <= MaxKVSize
      /\ (\E k \in Key : LikeFence(k, n.lower, n.fullKeyLen)) /\ (\E v \in Val : n.valLen = PayloadLen[v])
  BY <1>2, <1>6 DEF GoodPage
<1>8. s.sep = b
  OBVIOUS
<1> DEFINE l == DenseLeft(n)
           r == DenseRight(n, dense)
<1> HIDE DEF n, s
<1>9. V!Halves(Shown(n), s, Shown(l), Shown(r))
  <2>1. s = [sep |-> Boundary(n), at |-> 0]
    BY DEF s
  <2> QED BY <1>3, <1>4, <1>7, <2>1, DenseHalves
<1>10. ShortFence(b)
  <2>1. ValidDense(n)
    BY <1>7 DEF DenseOK
  <2>2. Len(b) = n.fullKeyLen
    BY <1>3, <2>1, BoundaryKey
  <2>3. n.fullKeyLen \in Nat /\ n.valLen \in Nat /\ MaxKVSize \in Int
    BY <2>1, DenseFacts, KVBound
  <2> QED BY <1>7, <2>2, <2>3 DEF ShortFence
<1>11. GoodPage(l)
  <2>1. /\ DenseOK(l) /\ l.lower = n.lower /\ l.upper = b
        /\ l.fullKeyLen = n.fullKeyLen /\ l.valLen = n.valLen
    BY <1>3, <1>7, DenseLeftOK
  <2>2. IsDense(l) /\ ~IsLeaf(l)
    BY <2>1, DenseFacts, ShownFacts DEF DenseOK
  <2> QED BY <1>7, <1>10, <2>1, <2>2 DEF GoodPage
<1>12. GoodPage(r)
  <2>1. /\ dense => DenseOK(r) /\ r.fullKeyLen = n.fullKeyLen /\ r.valLen = n.valLen
        /\ ~dense => r \in Page /\ IsLeaf(r) /\ Count(r) = 0 /\ Fits(r) /\ ~IsDense(r)
        /\ r.lower = b /\ r.upper = n.upper
    BY <1>3, <1>4, <1>7, DenseRightOK
  <2>2. CASE dense
    <3>1. IsDense(r) /\ ~IsLeaf(r)
      BY <2>1, <2>2, DenseFacts, ShownFacts DEF DenseOK
    <3>2. \A k \in Key : LikeFence(k, n.lower, n.fullKeyLen) => LikeFence(k, b, n.fullKeyLen)
      <4>1. LikeFence(b, n.lower, n.fullKeyLen)
        BY <1>3, <1>7, BoundaryKey DEF DenseOK
      <4> HIDE DEF b
      <4> QED BY <4>1 DEF LikeFence
    <3> QED BY <1>7, <1>10, <2>1, <2>2, <3>1, <3>2 DEF GoodPage
  <2>3. CASE ~dense
    BY <1>7, <1>10, <2>1, <2>3 DEF GoodPage
  <2> QED BY <1>4, <2>2, <2>3
<1> HIDE DEF b, l, r
<1>13. /\ RequestSpaceFor(page[parent], s.sep, PtrSize)
       /\ ~FoundAt(page[parent], s.sep, LowerBound(page[parent], s.sep))
       /\ page' = [q \in DOMAIN page \cup {NewPage} |->
                      CASE q = NewPage -> l
                        [] q = node    -> r
                        [] q = parent  -> InsertSlot(page[parent], LowerBound(page[parent], s.sep),
                                                     s.sep, NewPage)
                        [] OTHER       -> page[q]]
  BY <1>1, <1>5, <1>8 DEF l, r
<1> QED BY <1>2, <1>9, <1>11, <1>12, <1>13, SplitDense DEF n

(***************************************************************************)
(* Every step.                                                             *)
(***************************************************************************)
(* A tree of one empty leaf.                                               *)
LEMMA OneEmptyLeaf ==
    root \in PageId /\ page = [p \in {root} |-> EmptyLeaf]
        => /\ ShownPages = [p \in {root} |-> V!EmptyLeaf]
           /\ V!PageType /\ V!TreeOK /\ V!Reached /\ GoodPages
<1> SUFFICES ASSUME root \in PageId, page = [p \in {root} |-> EmptyLeaf]
             PROVE  /\ ShownPages = [p \in {root} |-> V!EmptyLeaf]
                    /\ V!PageType /\ V!TreeOK /\ V!Reached /\ GoodPages
  OBVIOUS
<1> DEFINE n == EmptyLeaf
<1>1. /\ n \in Page /\ IsLeaf(n) /\ Count(n) = 0 /\ n.lower = << >> /\ n.upper = << >>
  <2>1. << >> \in Bytes /\ << >> \in Seq(LeafSlot)
    BY DEF Bytes
  <2> QED BY <2>1 DEF EmptyLeaf, Leaf, IsLeaf, Page, LeafPage, Count
<1>2. Fits(n)
  BY EmptyLeafFits
<1>3. n = V!EmptyLeaf
  BY SamePages DEF V!EmptyLeaf, EmptyLeaf
<1> HIDE DEF n
<1>4. Shown(n) = n /\ ~IsDense(n)
  BY <1>1, PageFacts, ShownFacts DEF IsDense
<1>5. GoodPage(n)
  BY <1>1, <1>2, <1>4 DEF GoodPage, ShortFence
<1>6. Pages = {root} /\ page[root] = n
  BY DEF Pages, n
<1>7. ShownPages = [p \in {root} |-> V!EmptyLeaf]
  BY <1>3, <1>4, <1>6 DEF ShownPages
<1>8. V!PageType /\ V!TreeOK
  BY <1>7, V!InitialTree, ViewMaxByte, ViewConstants
<1>9. V!Reached
  BY <1>7, V!SinglePageReached, ViewMaxByte, ViewConstants
<1> QED BY <1>5, <1>6, <1>7, <1>8, <1>9 DEF GoodPages

(* The empty tree.                                                         *)
LEMMA DenseInitOK == Init => DenseInv
<1> SUFFICES ASSUME Init PROVE DenseInv
  OBVIOUS
<1>1. root \in PageId /\ page = [p \in {root} |-> EmptyLeaf] /\ pc = "idle" /\ op = NoOp
  BY BTreeAssumption DEF Init
<1>2. /\ ShownPages = [p \in {root} |-> V!EmptyLeaf]
      /\ V!PageType /\ V!TreeOK /\ V!Reached /\ GoodPages
  BY <1>1, OneEmptyLeaf
<1>3. V!Init
  BY <1>2, SameOps DEF Init, V!Init, NoOp, Op, V!NoOp, V!Op
<1>4. V!IInv
  BY <1>3, V!InitOK, ViewMaxByte, ViewConstants
<1> QED BY <1>1, <1>2, <1>4 DEF DenseInv, SplitCause, NoOp, Op

(* The tree is thrown away and a new one made.                             *)
LEMMA ClearDense ==
    ASSUME DenseInv, Clear
    PROVE  DenseInv'
<1>1. /\ pc = "idle" /\ root' \in PageId /\ page' = [p \in {root'} |-> EmptyLeaf]
      /\ UNCHANGED <<pc, op>> /\ res' = NoAnswer /\ UNCHANGED <<cursor, toSplit, out>>
  BY BTreeAssumption DEF Clear
<1>2. (/\ ShownPages = [p \in {root} |-> V!EmptyLeaf]
       /\ V!PageType /\ V!TreeOK /\ V!Reached /\ GoodPages)'
  <2>1. (root \in PageId /\ page = [p \in {root} |-> EmptyLeaf])'
    BY <1>1
  <2> QED BY <2>1, OneEmptyLeaf, PTL
<1>3. V!Clear
  <2>1. root' = CHOOSE p \in PageId : TRUE
    BY DEF Clear
  <2>2. ShownPages' = [p \in {root'} |-> V!EmptyLeaf]
    BY <1>2
  <2>3. V!NoAnswer = NoAnswer /\ V!cursor = cursor
    BY SameOps
  <2>4. UNCHANGED V!cursor
    BY <1>1 DEF cursor, V!cursor
  <2> QED BY <1>1, <2>1, <2>2, <2>3, <2>4 DEF V!Clear
<1>4. V!IInv'
  <2>1. V!IInv
    BY <1>1 DEF DenseInv
  <2> QED BY <1>3, <2>1, V!ClearOK, ViewMaxByte, ViewConstants
<1> QED BY <1>1, <1>2, <1>4, NotSplitting DEF DenseInv

(* Each step of the tree, except a split whose boundary is not between the *)
(* fences, keeps the invariant.                                            *)
LEMMA DenseNextOK == DenseInv /\ CutsInside /\ [DenseNext]_vars => DenseInv'
<1> SUFFICES ASSUME DenseInv, CutsInside, [DenseNext]_vars
             PROVE  DenseInv'
  OBVIOUS
<1>1. CASE UNCHANGED vars
  <2>1. UNCHANGED tree /\ UNCHANGED <<pc, op, node, skey, parent, pos, toSplit, out, res, page>>
    BY <1>1 DEF vars, tree, cursor
  <2>2. ShownPages' = ShownPages /\ V!PageType' /\ V!TreeOK' /\ V!Reached' /\ GoodPages' /\ root' = root
    BY <2>1, SameTree
  <2>3. (pc # "fault" => V!IInv)'
    <3>1. UNCHANGED V!vars
      BY <2>1, <2>2 DEF V!vars, V!tree, V!cursor
    <3> QED BY <2>1, <3>1, V!NextOK, ViewMaxByte, ViewConstants DEF DenseInv
  <2>4. SplitCause'
    BY <2>1 DEF DenseInv, SplitCause, OwnLengths, KeyToIndex, GetNumericPart, SharesNumericPrefix, IsDense
  <2> QED BY <2>1, <2>2, <2>3, <2>4 DEF DenseInv, FitsKV
<1>2. ASSUME NEW o \in Ops, Call(o) PROVE DenseInv'
  BY <1>2, CallDense
<1>3. CASE Clear
  BY <1>3, ClearDense
<1>4. CASE OnBasic /\ Step
  <2>1. CASE Descend \/ EnsureStep
    BY <1>4, <2>1, StepDownDense
  <2>2. CASE LeafLookup \/ RemoveMiss
    BY <1>4, <2>2, ReadDense
  <2>3. CASE LeafInsert
    BY <1>4, <2>3, LeafInsertDense
  <2>4. CASE LeafInsertFound \/ SplitDies
    BY <1>4, <2>4, DiesDense
  <2>5. CASE LeafInsertFull
    BY <1>4, <2>5, InsertFailsDense
  <2>6. CASE MakeRoot
    BY <1>4, <2>6, MakeRootDense DEF OnBasic
  <2>7. CASE SplitNode
    BY <1>4, <2>7, SplitBasic
  <2>8. CASE EnsureSpace
    BY <1>4, <2>8, EnsureSpaceDense
  <2>9. CASE EnsureFound
    BY <1>4, <2>9, EnsureFoundDense
  <2>10. CASE RemoveOnly
    BY <1>4, <2>10, RemoveOnlyDense
  <2>11. CASE RemoveAndMerge
    BY <1>4, <2>11, RemoveMergeDense
  <2>12. CASE ScanUp \/ ScanDown
    BY <1>4, <2>12, ScanDense
  <2> QED BY <1>4, <2>1, <2>2, <2>3, <2>4, <2>5, <2>6, <2>7, <2>8, <2>9, <2>10, <2>11, <2>12 DEF Step
<1>5. CASE Densify
  BY <1>5, DensifyDense
<1>6. CASE DensifyDies \/ DenseConvertDies \/ DenseSplitDies \/ DenseScanDies \/ DenseScanDesc
  BY <1>6, DiesDense
<1>7. CASE DenseLookup \/ DenseRemoveMiss
  BY <1>7, ReadDense
<1>8. CASE DenseInsert
  BY <1>8, DenseInsertOK
<1>9. CASE DenseConvert
  BY <1>9, DenseConvertOK
<1>10. CASE DenseInsertFails
  BY <1>10, InsertFailsDense
<1>11. CASE pc = "split" /\ IsDense(page[node]) /\ MakeRoot
  BY <1>11, MakeRootDense DEF Walking
<1>12. CASE DenseSplit
  BY <1>12, SplitBehindArray
<1>13. CASE DenseEnsureSpace
  BY <1>13, EnsureSpaceDense
<1>14. CASE DenseRemove
  BY <1>14, DenseRemoveOK
<1>15. CASE DenseScan
  BY <1>15, ScanDense
<1> QED BY <1>1, <1>2, <1>3, <1>4, <1>5, <1>6, <1>7, <1>8, <1>9, <1>10, <1>11, <1>12, <1>13, <1>14, <1>15
        DEF DenseNext, DenseStep

(***************************************************************************)
(* The theorems.                                                           *)
(***************************************************************************)
THEOREM DenseInductiveInvariant == DenseSpec /\ []CutsInside => []DenseInv
<1>1. Init => DenseInv
  BY DenseInitOK
<1>2. DenseInv /\ CutsInside /\ [DenseNext]_vars => DenseInv'
  BY DenseNextOK
<1> QED BY <1>1, <1>2, PTL DEF DenseSpec

(* The view the properties speak of is an instance of BTree, the proofs'   *)
(* view one of BTreeSpace: keys mean the same in both,                     *)
LEMMA ViewOrder ==
    /\ View!Bytes = V!Bytes
    /\ \A a, b : View!Less(a, b) <=> V!Less(a, b)
    /\ \A k, a, b : View!InFences(k, a, b) <=> V!InFences(k, a, b)
<1>1. View!Bytes = V!Bytes
  BY DEF View!Bytes, V!Bytes, View!Byte, V!Byte
<1>2. \A a, b : (View!Less(a, b) <=> V!Less(a, b)) /\ (View!Leq(a, b) <=> V!Leq(a, b))
  BY DEF View!Less, V!Less, View!LessAt, V!LessAt, View!Leq, V!Leq
<1>3. \A k, a, b : View!InFences(k, a, b) <=> V!InFences(k, a, b)
  BY <1>2 DEF View!InFences, V!InFences, View!AboveFence, V!AboveFence, View!BelowFence, V!BelowFence
<1> QED BY <1>1, <1>2, <1>3

(* and so do pages.                                                        *)
LEMMA ViewPages ==
    /\ View!Pages = V!Pages /\ View!Inners = V!Inners
    /\ \A n : (View!IsLeaf(n) <=> V!IsLeaf(n)) /\ View!Count(n) = V!Count(n)
    /\ \A n, i : View!ChildAt(n, i) = V!ChildAt(n, i) /\ View!SepAt(n, i) = V!SepAt(n, i)
    /\ \A n : View!PageOK(n) <=> V!PageOK(n)
    /\ \A p, q : View!PointsTo(p, q) <=> V!PointsTo(p, q)
<1>1. \A n : (View!IsLeaf(n) <=> V!IsLeaf(n)) /\ View!Count(n) = V!Count(n)
  BY DEF View!IsLeaf, V!IsLeaf, View!Count, V!Count
<1>2. View!Pages = V!Pages /\ View!Inners = V!Inners
  BY <1>1 DEF View!Pages, V!Pages, View!Inners, V!Inners
<1>3. \A n, i : View!ChildAt(n, i) = V!ChildAt(n, i) /\ View!SepAt(n, i) = V!SepAt(n, i)
  BY <1>1 DEF View!ChildAt, V!ChildAt, View!SepAt, V!SepAt
<1>4. \A n : View!PageOK(n) <=> V!PageOK(n)
  BY <1>1, ViewOrder DEF View!PageOK, V!PageOK
<1>5. \A p, q : View!PointsTo(p, q) <=> V!PointsTo(p, q)
  BY <1>1, <1>3 DEF View!PointsTo, V!PointsTo
<1> QED BY <1>1, <1>2, <1>3, <1>4, <1>5

(* Each key a leaf holds, in slots or in an array, lies between the fences *)
(* of the leaf, through inserts, removes, changes of layout, splits and    *)
(* merges; separators are ordered as well. A lookup that ends at a leaf    *)
(* has thus found the only place of its key.                               *)
THEOREM DenseKeysStayInFences == DenseSpec /\ []CutsInside => []DenseKeysInFences
<1>1. DenseInv => DenseKeysInFences
  BY ViewPages DEF DenseInv, V!TreeOK, V!KeysInFences, DenseKeysInFences, View!KeysInFences
<1> QED BY <1>1, DenseInductiveInvariant, PTL

(* The fences of a child are the separators around it in the parent,       *)
(* whichever layout the child has: the boundary that splitNode1 hands to   *)
(* the parent is the fence that the two new pages keep.                    *)
THEOREM DenseFencesAgree == DenseSpec /\ []CutsInside => []DenseChildFences
<1>1. DenseInv => DenseChildFences
  BY ViewPages DEF DenseInv, V!TreeOK, V!ChildFences, DenseChildFences, View!ChildFences
<1> QED BY <1>1, DenseInductiveInvariant, PTL

(* The page where an operation is going to act is the child the parent's   *)
(* separators choose for its key, and its fences hold the key              *)
(* (traverseToLeaf and what follows it in btree2020.cpp).                  *)
THEOREM DenseDescentOnPath == DenseSpec /\ []CutsInside => []DenseCursorOnPath
<1>1. DenseInv => DenseCursorOnPath
  <2> SUFFICES ASSUME DenseInv PROVE View!CursorOnPath
    BY DEF DenseCursorOnPath
  <2>1. View!Walking <=> Walking
    BY DEF View!Walking, Walking
  <2>2. CASE ~Walking
    BY <2>1, <2>2 DEF View!CursorOnPath
  <2>3. CASE Walking
    <3>1. V!CursorOnPath
      BY <2>3, Cursor DEF V!IInv
    <3> QED BY <2>1, <2>3, <3>1, SameOps, ViewPages, ViewOrder DEF V!CursorOnPath, View!CursorOnPath
  <2> QED BY <2>2, <2>3
<1> QED BY <1>1, DenseInductiveInvariant, PTL

(* No page is lost: every page but the root has a parent that points to    *)
(* it, also after a split that replaces a dense page by two and a merge    *)
(* that frees one.                                                         *)
THEOREM DenseNothingLeaks == DenseSpec /\ []CutsInside => []DenseNoLeak
<1>1. DenseInv => DenseNoLeak
  <2> SUFFICES ASSUME DenseInv PROVE View!NoLeak
    BY DEF DenseNoLeak
  <2>1. V!NoLeak
    BY V!ReachedPagesHaveParents, ViewMaxByte, ViewConstants DEF DenseInv
  <2> QED BY <2>1, ViewPages DEF V!NoLeak, View!NoLeak
<1> QED BY <1>1, DenseInductiveInvariant, PTL

(* convertToBasic, which computes the space it needs from occupiedCount    *)
(* alone, has room for all records of the page: after a remove, and before *)
(* an insert whose payload is not shorter than those of the page.  For a   *)
(* shorter one it has not (run dense_estimate).                            *)
THEOREM DenseConversionsFit == DenseSpec /\ []CutsInside => []ConversionsFit
<1>1. DenseInv => ConversionsFit
  <2> SUFFICES ASSUME DenseInv PROVE ConversionsFit
    OBVIOUS
  <2> DEFINE n == page[node]
             i == KeyToIndex(n, skey)
             m == UnsetSlot(n, i)
  <2>1. ASSUME Converting, PayloadLen[op.val] >= n.valLen
        PROVE  Fits(ConvertToBasic(n))
    <3>1. pc = "descend" /\ op.kind = "insert" /\ IsDense(n) /\ EstimateFits(n)
      BY <2>1 DEF Converting, AtDense
    <3>2. op \in OpsAndNoOp /\ GoodPage(n)
      BY <3>1, Cursor, SameOps DEF Walking, V!IInv, V!TypeOK
    <3>3. op.val \in Val
      BY <3>1, <3>2, OpFacts
    <3>4. DenseOK(n)
      BY <3>1, <3>2, DenseShown
    <3>5. PayloadLen[op.val] \in Nat /\ n.valLen \in Nat
      BY <3>3, <3>4, DenseFacts, BTreeAssumption DEF DenseOK
    <3> QED BY <2>1, <3>1, <3>4, <3>5, EstimatedFits
  <2>2. ASSUME AtDense("remove"), HasKey(n, skey), BecomesBasic(m)
        PROVE  Fits(ConvertToBasic(m))
    <3>1. pc = "descend" /\ IsDense(n)
      BY <2>2 DEF AtDense
    <3>2. GoodPage(n) /\ skey \in Bytes /\ InFences(skey, n.lower, n.upper)
      BY <3>1, Cursor DEF Walking
    <3>3. DenseOK(n) /\ ValidDense(n)
      BY <3>1, <3>2, DenseShown
    <3>4. i \in Occupied(n)
      BY <2>2, <3>2, <3>3, IndexOfKey DEF HasKey, Occupied
    <3>5. DenseOK(m)
      BY <3>3, <3>4, UnsetSlotOK
    <3> QED BY <2>2, <3>5, ConvertedFits DEF BecomesBasic
  <2> HIDE DEF m, i, n
  <2> QED BY <2>1, <2>2 DEF ConversionsFit, m, i, n
<1> QED BY <1>1, DenseInductiveInvariant, PTL

(* The array of a dense page ends before its fences, its first slot stands *)
(* for the least number above the lower fence, the fence has the bytes     *)
(* that the array does not stand for, and occupiedCount is the number of   *)
(* records.                                                                *)
THEOREM DenseArraysSound == DenseSpec /\ []CutsInside => []DenseArraySound
<1>1. DenseInv => DenseArraySound
  BY DEF DenseInv, GoodPages, GoodPage, DenseOK, ValidDense, DenseArraySound, DensePages
<1> QED BY <1>1, DenseInductiveInvariant, PTL

(* A key that is asked of a dense page has a numeric part not below the    *)
(* array's start: the unsigned difference in keyToIndex does not wrap      *)
(* around.                                                                 *)
THEOREM KeysAboveArrayStart == DenseSpec /\ []CutsInside => []KeyAboveArrayStart
<1>1. DenseInv => KeyAboveArrayStart
  <2> SUFFICES ASSUME DenseInv, Walking, IsDense(page[node]), Len(skey) = page[node].fullKeyLen,
                      SharesNumericPrefix(page[node], skey)
               PROVE  GetNumericPart(skey, page[node].fullKeyLen) >= page[node].arrayStart
    BY DEF KeyAboveArrayStart
  <2> DEFINE n == page[node]
             x == GetNumericPart(skey, n.fullKeyLen)
  <2>1. ValidDense(n) /\ skey \in Bytes /\ InFences(skey, n.lower, n.upper)
    BY Cursor DEF GoodPage, DenseOK
  <2>2. x - n.arrayStart \in Nat
    BY <2>1, IndexOfKey
  <2>3. x \in Nat /\ n.arrayStart \in Nat
    BY <2>1, DenseFacts, NumericPartBound
  <2> HIDE DEF x, n
  <2> QED BY <2>2, <2>3 DEF x, n
<1> QED BY <1>1, DenseInductiveInvariant, PTL

(***************************************************************************)
(* Records of one shape.                                                   *)
(***************************************************************************)
(* A key of a page's lengths whose number is not below the array's start   *)
(* is above the page's lower fence.                                        *)
LEMMA AboveArrayStart ==
    ASSUME NEW a \in Bytes, NEW len \in Nat \ {0}, Len(a) >= ComputeNumericPrefixLength(len),
           NEW b, LikeFence(b, a, len), GetNumericPart(b, len) >= LeastGreaterKey(a, len)
    PROVE  AboveFence(b, a)
<1> DEFINE p == ComputeNumericPrefixLength(len)
           c == ComputeNumericPartLen(len)
           x == GetNumericPart(b, len)
           y == GetNumericPart(a, len)
<1>1. /\ p \in Nat /\ c \in Nat /\ p + c = len /\ b \in Bytes /\ Len(b) = len
      /\ x = NumberOf(b, p, c)
      /\ \A j \in 1 .. p : b[j] = a[j]
      /\ \A j \in 1 .. p : PaddedByte(a, j) = PaddedByte(b, j)
  <2>1. len \in Nat
    OBVIOUS
  <2>2. /\ p \in Nat /\ c \in Nat /\ p + c = len /\ b \in Bytes /\ Len(b) = len
        /\ x = NumberOf(b, p, c)
        /\ \A j \in 1 .. p : b[j] = a[j]
        /\ \A j \in 1 .. p : PaddedByte(b, j) = a[j] /\ PaddedByte(a, j) = a[j]
    BY <2>1, LikeFenceParts
  <2> QED BY <2>2
<1>2. y = NumberOf(a, p, c)
  BY DEF GetNumericPart, ComputeNumericPrefixLength
<1>3. x \in Nat /\ y \in Nat /\ Len(a) \in Nat
  BY <1>1, NumericPartBound, BytesType
<1>4. CASE y < x
  BY <1>1, <1>2, <1>4, NumbersDecide DEF AboveFence
<1>5. CASE ~(y < x)
  <2>1. x = y /\ Len(a) < len
    <3> HIDE DEF x, y
    <3> QED BY <1>3, <1>5 DEF LeastGreaterKey, x, y
  <2> DEFINE e == [i \in 1 .. len |-> PaddedByte(a, i)]
  <2>2. e \in Bytes /\ Len(e) = len /\ \A i \in 1 .. len : e[i] = PaddedByte(a, i)
    <3>1. \A i \in 1 .. len : PaddedByte(a, i) \in Byte
      BY PaddedByteType DEF Byte
    <3>2. e \in [1 .. len -> Byte]
      BY <3>1
    <3>3. e \in Seq(Byte) /\ Len(e) = len
      BY <3>2
    <3> QED BY <3>3 DEF Bytes
  <2> HIDE DEF e
  <2>3. \A i \in 1 .. c : PaddedByte(e, p + i) = PaddedByte(a, p + i)
    <3> TAKE i \in 1 .. c
    <3>1. p + i \in 1 .. len
      BY <1>1
    <3> HIDE DEF p, c
    <3> QED BY <2>2, <3>1 DEF PaddedByte
  <2>4. NumberOf(e, p, c) = NumberOf(a, p, c)
    <3> HIDE DEF p, c
    <3>1. ~(NumberOf(e, p, c) < NumberOf(a, p, c))
      <4>1. ASSUME NEW j \in 1 .. c, PaddedByte(e, p + j) < PaddedByte(a, p + j) PROVE FALSE
        <5>1. PaddedByte(a, p + j) \in 0 .. MaxByte
          BY <1>1, PaddedByteType
        <5> QED BY <2>3, <4>1, <5>1
      <4> QED BY <1>1, <2>2, <4>1, DigitsDiffer
    <3>2. ~(NumberOf(a, p, c) < NumberOf(e, p, c))
      <4>1. ASSUME NEW j \in 1 .. c, PaddedByte(a, p + j) < PaddedByte(e, p + j) PROVE FALSE
        <5>1. PaddedByte(a, p + j) \in 0 .. MaxByte
          BY <1>1, PaddedByteType
        <5> QED BY <2>3, <4>1, <5>1
      <4> QED BY <1>1, <2>2, <4>1, DigitsDiffer
    <3>3. NumberOf(e, p, c) \in Nat /\ NumberOf(a, p, c) \in Nat
      BY <1>1, <2>2, NumberType
    <3> QED BY <3>1, <3>2, <3>3
  <2>5. GetNumericPart(e, len) = GetNumericPart(b, len)
    <3>1. GetNumericPart(e, len) = NumberOf(e, p, c)
      BY DEF GetNumericPart, ComputeNumericPrefixLength
    <3> QED BY <1>2, <2>1, <2>4, <3>1
  <2>6. LikeFence(e, a, len)
    <3>1. \A j \in 1 .. p : e[j] = a[j]
      <4> TAKE j \in 1 .. p
      <4>1. j \in 1 .. len /\ j <= Len(a)
        BY <1>1, <1>3
      <4> HIDE DEF p
      <4> QED BY <2>2, <4>1 DEF PaddedByte
    <3> QED BY <2>2, <3>1 DEF LikeFence
  <2>7. b = e
    <3>1. len \in Nat
      OBVIOUS
    <3> QED BY <2>5, <2>6, <3>1, SameNumberSameKey
  <2>8. LessAt(a, e, Len(a) + 1) /\ Len(a) + 1 \in 1 .. Len(e)
    BY <1>3, <2>1, <2>2 DEF LessAt, PaddedByte
  <2> QED BY <2>7, <2>8 DEF AboveFence, Less
<1> QED BY <1>4, <1>5

(* All keys have one length and differ only in the bytes that a dense      *)
(* page's array stands for, and all payloads have one length.              *)
UniformRecords ==
    /\ \A k, l \in Key :
          /\ Len(k) = Len(l)
          /\ \A i \in 1 .. ComputeNumericPrefixLength(Len(k)) : k[i] = l[i]
    /\ \A v, w \in Val : PayloadLen[v] = PayloadLen[w]

(* A dense page of such records is split only for a key behind its array.  *)
LEMMA UniformCutsInside == UniformRecords /\ DenseInv => CutsInside
<1> SUFFICES ASSUME UniformRecords, DenseInv, SplittingDense
             PROVE  /\ InsideNumbers(page[node])
                    /\ InFences(Boundary(page[node]), page[node].lower, page[node].upper)
  BY DEF CutsInside
<1> DEFINE n == page[node]
           b == Boundary(n)
           len == n.fullKeyLen
           x == GetNumericPart(skey, len)
<1>1. pc = "split" /\ Walking /\ IsDense(n)
  BY DEF SplittingDense, Walking
<1>2. /\ V!IInv /\ GoodPage(n) /\ op.kind = "insert" /\ skey = op.key
      /\ skey \in Bytes /\ InFences(skey, n.lower, n.upper)
  BY <1>1, Cursor
<1>3. op.key \in Key /\ op.val \in Val
  <2>1. op \in OpsAndNoOp
    BY <1>2, SameOps DEF V!IInv, V!TypeOK
  <2> QED BY <1>2, <2>1, OpFacts
<1>4. DenseOK(n) /\ ValidDense(n)
  BY <1>1, <1>2 DEF GoodPage, DenseOK
<1>5. PICK k \in Key : LikeFence(k, n.lower, len)
  BY <1>1, <1>2 DEF GoodPage
<1>6. PICK v \in Val : n.valLen = PayloadLen[v]
  BY <1>1, <1>2 DEF GoodPage
<1>7. OwnLengths(n)
  <2>1. Len(op.key) = Len(k) /\ PayloadLen[op.val] = PayloadLen[v]
    BY <1>3, <1>5, <1>6 DEF UniformRecords
  <2> QED BY <1>5, <1>6, <2>1 DEF OwnLengths, LikeFence
<1>8. KeyToIndex(n, skey) < 0
  BY <1>1, <1>7 DEF DenseInv, SplitCause
<1>9. LikeFence(skey, n.lower, len)
  <2>1. /\ Len(skey) = Len(k)
        /\ \A i \in 1 .. ComputeNumericPrefixLength(Len(k)) : skey[i] = k[i]
    BY <1>2, <1>3, <1>5 DEF UniformRecords
  <2> QED BY <1>2, <1>5, <2>1 DEF LikeFence
<1>10. /\ n.lower \in Bytes /\ n.upper \in Bytes /\ len \in Nat \ {0} /\ len \in Nat
       /\ n.arrayStart \in Nat /\ n.slotCount \in Nat \ {0}
       /\ Len(n.lower) >= ComputeNumericPrefixLength(len)
       /\ n.arrayStart = LeastGreaterKey(n.lower, len)
  BY <1>4, DenseFacts
<1> HIDE DEF n
<1>11. x \in Nat /\ x < Powers[ComputeNumericPartLen(len)] /\ x >= n.arrayStart + n.slotCount
  <2>1. x - n.arrayStart \in Nat /\ ~(x - n.arrayStart < n.slotCount)
    <3>1. /\ x - n.arrayStart \in Nat
          /\ x - n.arrayStart < n.slotCount <=> KeyToIndex(n, skey) >= 0
      BY <1>2, <1>4, <1>9, IndexOfKey
    <3>2. ~(KeyToIndex(n, skey) >= 0)
      <4>1. KeyToIndex(n, skey) \in Int
        <5> DEFINE i == (x - n.arrayStart) % NumericLimit
        <5>1. i \in Int
          <6>1. NumericLimit \in Nat \ {0}
            BY NumericConstants, PowersStep DEF NumericLimit
          <6> HIDE DEF x
          <6> QED BY <3>1, <6>1
        <5> HIDE DEF i
        <5> QED BY <5>1 DEF KeyToIndex, i, WrongLen, NotNumericRange, SlightlyTooLarge, FarTooLarge
      <4> QED BY <1>8, <4>1
    <3> QED BY <3>1, <3>2
  <2>2. x \in Nat /\ x < Powers[ComputeNumericPartLen(len)]
    BY <1>2, <1>10, NumericPartBound
  <2> HIDE DEF x
  <2> QED BY <1>10, <2>1, <2>2
<1>12. InsideNumbers(n)
  <2>1. Powers[ComputeNumericPartLen(len)] \in Nat
    BY <1>10, PartLen, PowersStep
  <2> HIDE DEF x
  <2> QED BY <1>10, <1>11, <2>1 DEF InsideNumbers
<1>13. /\ b \in Bytes /\ LikeFence(b, n.lower, len)
       /\ GetNumericPart(b, len) = n.arrayStart + n.slotCount - 1
  BY <1>4, <1>12, BoundaryKey
<1> HIDE DEF b
<1>14. AboveFence(b, n.lower)
  <2>1. GetNumericPart(b, len) >= LeastGreaterKey(n.lower, len)
    BY <1>10, <1>13
  <2> QED BY <1>10, <1>13, <2>1, AboveArrayStart
<1>15. BelowFence(b, n.upper)
  <2>1. GetNumericPart(b, len) < x
    <3> HIDE DEF x
    <3> QED BY <1>10, <1>11, <1>13
  <2>2. Less(b, skey)
    BY <1>9, <1>10, <1>13, <2>1, NumericOrder
  <2>3. n.upper = << >> \/ Leq(skey, n.upper)
    BY <1>2 DEF InFences, BelowFence
  <2> QED BY <1>2, <1>10, <1>13, <2>2, <2>3, LessLeq DEF BelowFence, Leq
<1> QED BY <1>12, <1>14, <1>15 DEF InFences, b, n

(* With records of one shape the cut behind a dense page's array always    *)
(* lies between the fences, and the tree is sound, from every reachable    *)
(* state on: densifying, splitting and merging uniform records needs no    *)
(* further premise.                                                        *)
THEOREM UniformTreeSound ==
    ASSUME UniformRecords
    PROVE  DenseSpec => [](CutsInside /\ DenseInv)
<1>1. Init => DenseInv
  BY DenseInitOK
<1>2. DenseInv => CutsInside
  BY UniformCutsInside
<1>3. DenseInv /\ CutsInside /\ [DenseNext]_vars => DenseInv'
  BY DenseNextOK
<1> QED BY <1>1, <1>2, <1>3, PTL DEF DenseSpec

(* So for records of one shape all the safety properties above hold of     *)
(* every behaviour of the tree.                                            *)
THEOREM UniformTreePromises ==
    ASSUME UniformRecords
    PROVE  DenseSpec => [](/\ DenseKeysInFences /\ DenseChildFences /\ DenseCursorOnPath /\ DenseNoLeak
                           /\ ConversionsFit /\ DenseArraySound /\ KeyAboveArrayStart)
BY UniformTreeSound, DenseKeysStayInFences, DenseFencesAgree, DenseDescentOnPath, DenseNothingLeaks,
   DenseConversionsFit, DenseArraysSound, KeysAboveArrayStart, PTL
=============================================================================
