--------------------------- MODULE KeyOrderProofs ---------------------------
(***************************************************************************)
(* The order of keys is a strict total order, and it respects prefixes:    *)
(* what lies between two keys with a common prefix has that prefix too.    *)
(* The tree's invariants rest on these facts and on nothing else about     *)
(* keys.                                                                   *)
(***************************************************************************)
EXTENDS KeyOrder, SequenceTheorems, WellFoundedInduction, TLAPS

(* Every nonempty set of naturals has a least element.                     *)
LEMMA NatMin ==
    ASSUME NEW T \in SUBSET Nat, T # {}
    PROVE  \E m \in T : \A t \in T : m <= t
<1> DEFINE R == OpToRel(<, Nat)
<1>1. IsWellFoundedOn(R, Nat)
  BY NatLessThanWellFounded
<1>2. PICK m \in T : \A t \in T : ~ (<<t, m>> \in R)
  BY <1>1, WFMin
<1>3. \A t \in T : m <= t
  <2> TAKE t \in T
  <2>1. t \in Nat /\ m \in Nat
    OBVIOUS
  <2>2. ~ (t < m)
    BY <1>2, <2>1 DEF OpToRel
  <2> QED BY <2>1, <2>2
<1> QED BY <1>3

(* Induction over an interval, for a set.                                  *)
LEMMA UpTo ==
    ASSUME NEW c \in Nat, NEW T, 0 \in T, \A i \in 1 .. c : i - 1 \in T => i \in T
    PROVE  0 .. c \subseteq T
<1> DEFINE P == (0 .. c) \ T
<1>1. SUFFICES ASSUME P # {} PROVE FALSE
  BY DEF P
<1>2. P \in SUBSET Nat
  OBVIOUS
<1>3. \E m \in P : \A t \in P : m <= t
  <2> HIDE DEF P
  <2> QED BY <1>1, <1>2, NatMin
<1>4. PICK m \in P : \A t \in P : m <= t
  BY <1>3
<1>5. m \in 1 .. c /\ m - 1 \in 0 .. c /\ ~ (m <= m - 1)
  BY <1>4
<1>6. m - 1 \in T
  BY <1>4, <1>5
<1> QED BY <1>4, <1>5, <1>6

(* A function on an interval can be defined step by step.                  *)
IsStepwise(g, f, a, c) == g[0] = a /\ \A i \in 1 .. c : g[i] = f[<<i, g[i - 1]>>]

LEMMA Stepwise ==
    ASSUME NEW c \in Nat, NEW X, NEW a \in X, NEW f \in [(1 .. c) \X X -> X]
    PROVE  \E g \in [0 .. c -> X] : IsStepwise(g, f, a, c)
<1> DEFINE Good(g, m) == /\ g \in [0 .. m -> X]
                         /\ g[0] = a
                         /\ \A i \in 1 .. m : g[i] = f[<<i, g[i - 1]>>]
           T == {m \in 0 .. c : \E g : Good(g, m)}
<1>1. 0 \in T
  <2>1. Good([i \in 0 .. 0 |-> a], 0)
    OBVIOUS
  <2> HIDE DEF Good
  <2>2. \E g : Good(g, 0)
    BY <2>1
  <2> QED BY <2>2
<1>2. ASSUME NEW m \in 1 .. c, m - 1 \in T
      PROVE  m \in T
  <2>1. PICK g : Good(g, m - 1)
    BY <1>2
  <2> DEFINE h == [i \in 0 .. m |-> IF i = m THEN f[<<m, g[m - 1]>>] ELSE g[i]]
  <2>2. m - 1 \in 0 .. (m - 1) /\ m \in 0 .. m /\ 0 \in 0 .. m /\ 0 # m
    OBVIOUS
  <2>3. \A i \in 0 .. m : i # m => i \in 0 .. (m - 1) /\ h[i] = g[i] /\ g[i] \in X
    <3> TAKE i \in 0 .. m
    <3> HAVE i # m
    <3>1. i \in 0 .. (m - 1)
      OBVIOUS
    <3> QED BY <2>1, <3>1
  <2>4. g[m - 1] \in X
    BY <2>1, <2>2
  <2>5. h[m] = f[<<m, g[m - 1]>>] /\ h[m] \in X
    <3>1. <<m, g[m - 1]>> \in (1 .. c) \X X
      BY <2>4
    <3>2. f[<<m, g[m - 1]>>] \in X
      BY <3>1
    <3> QED BY <2>2, <3>2
  <2>6. h \in [0 .. m -> X]
    BY <2>3, <2>5
  <2>7. h[0] = a
    BY <2>1, <2>2, <2>3
  <2>8. \A i \in 1 .. m : h[i] = f[<<i, h[i - 1]>>]
    <3> TAKE i \in 1 .. m
    <3>1. i - 1 \in 0 .. m /\ i - 1 # m /\ i \in 0 .. m
      OBVIOUS
    <3>2. h[i - 1] = g[i - 1]
      BY <2>3, <3>1
    <3> HIDE DEF h
    <3>3. CASE i = m
      BY <2>5, <3>2, <3>3
    <3>4. CASE i # m
      <4>1. i \in 1 .. (m - 1)
        BY <3>4
      <4> QED BY <2>1, <2>3, <3>1, <3>2, <3>4, <4>1
    <3> QED BY <3>3, <3>4
  <2>9. Good(h, m)
    <3> HIDE DEF h
    <3> QED BY <2>6, <2>7, <2>8
  <2> HIDE DEF Good, h
  <2>10. \E e : Good(e, m)
    BY <2>9
  <2> QED BY <2>10
<1> HIDE DEF T
<1>3. 0 .. c \subseteq T
  BY <1>1, <1>2, UpTo
<1>4. c \in T
  BY <1>3
<1> QED BY <1>4 DEF T, IsStepwise

(* Bytes are integers and keys are functions on 1 .. Len.                  *)
LEMMA BytesType ==
    ASSUME NEW a \in Bytes
    PROVE  /\ Len(a) \in Nat
           /\ DOMAIN a = 1 .. Len(a)
           /\ \A i \in 1 .. Len(a) : a[i] \in Nat
BY MaxByteAssumption, ElementOfSeq, LenProperties DEF Bytes, Byte

LEMMA BytesEqual ==
    ASSUME NEW a \in Bytes, NEW b \in Bytes, Len(a) = Len(b),
           \A i \in 1 .. Len(a) : a[i] = b[i]
    PROVE  a = b
BY SeqEqual DEF Bytes

(* No key is less than itself.                                             *)
LEMMA LessIrreflexive ==
    ASSUME NEW a \in Bytes
    PROVE  ~ Less(a, a)
BY BytesType DEF Less, LessAt

LEMMA LessTransitive ==
    ASSUME NEW a \in Bytes, NEW b \in Bytes, NEW c \in Bytes,
           Less(a, b), Less(b, c)
    PROVE  Less(a, c)
<1>1. PICK i \in 1 .. Len(b) : LessAt(a, b, i)
  BY DEF Less
<1>2. PICK j \in 1 .. Len(c) : LessAt(b, c, j)
  BY DEF Less
<1>3. /\ Len(a) \in Nat /\ Len(b) \in Nat /\ Len(c) \in Nat
      /\ \A x \in 1 .. Len(a) : a[x] \in Nat
      /\ \A x \in 1 .. Len(b) : b[x] \in Nat
      /\ \A x \in 1 .. Len(c) : c[x] \in Nat
  BY BytesType
<1>4. CASE i <= j
  <2>1. i \in 1 .. Len(c) /\ LessAt(a, c, i)
    BY <1>1, <1>2, <1>3, <1>4 DEF LessAt
  <2> QED BY <2>1 DEF Less
<1>5. CASE j < i
  <2>1. LessAt(a, c, j)
    BY <1>1, <1>2, <1>3, <1>5 DEF LessAt
  <2> QED BY <2>1 DEF Less
<1> QED BY <1>3, <1>4, <1>5

LEMMA LessTotal ==
    ASSUME NEW a \in Bytes, NEW b \in Bytes
    PROVE  Less(a, b) \/ a = b \/ Less(b, a)
<1> DEFINE D == {i \in 1 .. Len(a) : i <= Len(b) /\ a[i] # b[i]}
<1>1. /\ Len(a) \in Nat /\ Len(b) \in Nat
      /\ \A x \in 1 .. Len(a) : a[x] \in Nat
      /\ \A x \in 1 .. Len(b) : b[x] \in Nat
  BY BytesType
<1>2. CASE D = {}
  <2>1. \A i \in 1 .. Len(a) : i <= Len(b) => a[i] = b[i]
    BY <1>2
  <2>2. CASE Len(a) = Len(b)
    BY <1>1, <2>1, <2>2, BytesEqual
  <2>3. CASE Len(a) < Len(b)
    <3>1. LessAt(a, b, Len(a) + 1) /\ Len(a) + 1 \in 1 .. Len(b)
      BY <1>1, <2>1, <2>3 DEF LessAt
    <3> QED BY <3>1 DEF Less
  <2>4. CASE Len(b) < Len(a)
    <3>1. LessAt(b, a, Len(b) + 1) /\ Len(b) + 1 \in 1 .. Len(a)
      BY <1>1, <2>1, <2>4 DEF LessAt
    <3> QED BY <3>1 DEF Less
  <2> QED BY <1>1, <2>2, <2>3, <2>4
<1>3. CASE D # {}
  <2>1. D \in SUBSET Nat
    BY <1>1
  <2>2. PICK m \in D : \A t \in D : m <= t
    BY <1>3, <2>1, NatMin
  <2>3. \A j \in 1 .. (m - 1) : a[j] = b[j]
    BY <1>1, <2>2
  <2>4. m \in 1 .. Len(a) /\ m \in 1 .. Len(b) /\ a[m] # b[m]
    BY <1>1, <2>2
  <2>5. CASE a[m] < b[m]
    <3>1. LessAt(a, b, m)
      BY <1>1, <2>3, <2>4, <2>5 DEF LessAt
    <3> QED BY <3>1, <2>4 DEF Less
  <2>6. CASE b[m] < a[m]
    <3>1. LessAt(b, a, m)
      BY <1>1, <2>3, <2>4, <2>6 DEF LessAt
    <3> QED BY <3>1, <2>4 DEF Less
  <2> QED BY <1>1, <2>4, <2>5, <2>6
<1> QED BY <1>2, <1>3

(* Mixed forms of transitivity, and antisymmetry.                          *)
LEMMA LeqLess ==
    ASSUME NEW a \in Bytes, NEW b \in Bytes, NEW c \in Bytes,
           Leq(a, b), Less(b, c)
    PROVE  Less(a, c)
BY LessTransitive DEF Leq

LEMMA LessLeq ==
    ASSUME NEW a \in Bytes, NEW b \in Bytes, NEW c \in Bytes,
           Less(a, b), Leq(b, c)
    PROVE  Less(a, c)
BY LessTransitive DEF Leq

LEMMA LeqLeq ==
    ASSUME NEW a \in Bytes, NEW b \in Bytes, NEW c \in Bytes,
           Leq(a, b), Leq(b, c)
    PROVE  Leq(a, c)
BY LessTransitive DEF Leq

LEMMA NotBoth ==
    ASSUME NEW a \in Bytes, NEW b \in Bytes, Less(a, b)
    PROVE  ~ Leq(b, a)
BY LessTransitive, LessIrreflexive DEF Leq

(* A key between two keys with a common prefix has that prefix.  This is   *)
(* why a page may cut the common prefix of its fences off its keys and     *)
(* off the keys it is asked for.                                           *)
THEOREM BetweenSharesPrefix ==
    ASSUME NEW a \in Bytes, NEW b \in Bytes, NEW c \in Bytes, NEW n \in Nat,
           SharePrefix(a, c, n), Less(a, b), Leq(b, c)
    PROVE  SharePrefix(b, a, n)
<1>1. /\ Len(a) \in Nat /\ Len(b) \in Nat /\ Len(c) \in Nat
      /\ \A x \in 1 .. Len(a) : a[x] \in Nat
      /\ \A x \in 1 .. Len(b) : b[x] \in Nat
      /\ \A x \in 1 .. Len(c) : c[x] \in Nat
  BY BytesType
<1>2. PICK i \in 1 .. Len(b) : LessAt(a, b, i)
  BY DEF Less
<1>3. CASE n < i
  BY <1>1, <1>2, <1>3 DEF LessAt, SharePrefix
<1>4. CASE i <= n
  <2>1. i \in 1 .. Len(a) /\ i \in 1 .. Len(c) /\ a[i] < b[i] /\ a[i] = c[i]
    BY <1>1, <1>2, <1>4 DEF LessAt, SharePrefix
  <2>2. b # c
    BY <1>1, <2>1
  <2>3. PICK j \in 1 .. Len(c) : LessAt(b, c, j)
    BY <2>2 DEF Leq, Less
  <2>4. CASE j < i
    BY <1>1, <1>2, <1>4, <2>3, <2>4 DEF LessAt, SharePrefix
  <2>5. CASE j = i
    BY <1>1, <2>1, <2>3, <2>5 DEF LessAt
  <2>6. CASE i < j
    BY <1>1, <2>1, <2>3, <2>6 DEF LessAt
  <2> QED BY <2>4, <2>5, <2>6
<1> QED BY <1>1, <1>3, <1>4

(* The longest common prefix exists.                                       *)
LEMMA CommonPrefixProperties ==
    ASSUME NEW a \in Bytes, NEW b \in Bytes
    PROVE  LET n == CommonPrefixLen(a, b)
           IN  /\ n \in 0 .. Len(a)
               /\ SharePrefix(a, b, n)
               /\ n < Len(a) /\ n < Len(b) => a[n + 1] # b[n + 1]
<1> DEFINE P(n) == /\ SharePrefix(a, b, n)
                   /\ n < Len(a) /\ n < Len(b) => a[n + 1] # b[n + 1]
           T == {n \in 0 .. Len(a) : ~ SharePrefix(a, b, n + 1)}
<1>1. Len(a) \in Nat /\ Len(b) \in Nat
  BY BytesType
<1>2. T \in SUBSET Nat /\ T # {}
  <2>1. Len(a) \in T
    BY <1>1 DEF SharePrefix
  <2> QED BY <1>1, <2>1
<1>3. PICK m \in T : \A t \in T : m <= t
  BY <1>2, NatMin
<1>4. SharePrefix(a, b, m)
  <2>1. CASE m = 0
    BY <1>1, <2>1 DEF SharePrefix
  <2>2. CASE m # 0
    <3>1. m \in 1 .. Len(a)
      BY <1>1, <1>3, <2>2
    <3>2. m - 1 \in 0 .. Len(a) /\ (m - 1) + 1 = m
      BY <1>1, <3>1
    <3>3. ~ (m - 1 \in T)
      <4> HIDE DEF T
      <4> QED BY <1>3, <3>1, <3>2
    <3> QED BY <3>2, <3>3
  <2> QED BY <2>1, <2>2
<1>5. m < Len(a) /\ m < Len(b) => a[m + 1] # b[m + 1]
  BY <1>1, <1>3, <1>4 DEF SharePrefix
<1>6. \E n \in 0 .. Len(a) : P(n)
  BY <1>3, <1>4, <1>5
<1> HIDE DEF P
<1>7. CommonPrefixLen(a, b) = CHOOSE n \in 0 .. Len(a) : P(n)
  BY DEF P, CommonPrefixLen
<1>8. CommonPrefixLen(a, b) \in 0 .. Len(a) /\ P(CommonPrefixLen(a, b))
  BY <1>6, <1>7
<1> QED BY <1>8 DEF P

(* Cutting a key short gives a smaller key.                                *)
LEMMA TakeProperties ==
    ASSUME NEW a \in Bytes, NEW n \in 0 .. Len(a)
    PROVE  /\ Take(a, n) \in Bytes
           /\ Len(Take(a, n)) = n
           /\ \A j \in 1 .. n : Take(a, n)[j] = a[j]
           /\ n < Len(a) => Less(Take(a, n), a)
<1>1. Len(a) \in Nat
  BY BytesType
<1>2. /\ Take(a, n) \in Bytes
      /\ Len(Take(a, n)) = n
      /\ \A j \in 1 .. n : Take(a, n)[j] = a[j]
  BY <1>1, SubSeqProperties DEF Take, Bytes
<1>3. ASSUME n < Len(a)
      PROVE  Less(Take(a, n), a)
  <2>1. LessAt(Take(a, n), a, n + 1) /\ n + 1 \in 1 .. Len(a)
    BY <1>1, <1>2, <1>3 DEF LessAt
  <2> QED BY <2>1 DEF Less
<1> QED BY <1>2, <1>3

(* After a common prefix the next byte decides.                            *)
LEMMA NextByte ==
    ASSUME NEW a \in Bytes, NEW b \in Bytes, NEW n \in Nat,
           SharePrefix(a, b, n), n < Len(a), Less(a, b)
    PROVE  n < Len(b) /\ a[n + 1] <= b[n + 1]
<1>1. /\ Len(a) \in Nat /\ Len(b) \in Nat
      /\ \A x \in 1 .. Len(a) : a[x] \in Nat
      /\ \A x \in 1 .. Len(b) : b[x] \in Nat
  BY BytesType
<1>2. PICK i \in 1 .. Len(b) : LessAt(a, b, i)
  BY DEF Less
<1>3. i > n
  BY <1>1, <1>2 DEF LessAt, SharePrefix
<1>4. n < Len(b)
  BY <1>1, <1>2, <1>3
<1>5. CASE i = n + 1
  BY <1>1, <1>2, <1>4, <1>5 DEF LessAt
<1>6. CASE i > n + 1
  <2>1. a[n + 1] = b[n + 1]
    BY <1>1, <1>2, <1>6 DEF LessAt
  <2> QED BY <1>1, <1>4, <2>1
<1> QED BY <1>1, <1>2, <1>3, <1>4, <1>5, <1>6

LEMMA NextByteLess ==
    ASSUME NEW a \in Bytes, NEW b \in Bytes, NEW n \in Nat,
           SharePrefix(a, b, n), n < Len(a), n < Len(b), a[n + 1] < b[n + 1]
    PROVE  Less(a, b)
<1>1. Len(a) \in Nat /\ Len(b) \in Nat
  BY BytesType
<1>2. n + 1 \in 1 .. Len(b) /\ LessAt(a, b, n + 1)
  BY <1>1 DEF LessAt, SharePrefix
<1> QED BY <1>2 DEF Less

(* A key with a zero byte added is the next one: a scan that goes on from  *)
(* it misses no key and meets none twice.                                  *)
LEMMA SuccessorNext ==
    ASSUME NEW a \in Bytes
    PROVE  /\ Successor(a) \in Bytes
           /\ Less(a, Successor(a))
           /\ \A k \in Bytes : Less(k, Successor(a)) <=> Leq(k, a)
<1> DEFINE s == Successor(a)
           n == Len(a)
<1>1. n \in Nat /\ a \in Seq(Byte) /\ 0 \in Byte
  BY BytesType, MaxByteAssumption DEF Bytes, Byte
<1>2. /\ s \in Seq(Byte) /\ Len(s) = n + 1
      /\ \A i \in 1 .. n : s[i] = a[i]
      /\ s[n + 1] = 0
  BY <1>1, AppendProperties DEF Successor
<1>3. s \in Bytes
  BY <1>2 DEF Bytes
<1> HIDE DEF s, n
<1>4. Less(a, s)
  <2>1. n + 1 \in 1 .. Len(s) /\ LessAt(a, s, n + 1)
    BY <1>1, <1>2 DEF LessAt, n
  <2> QED BY <2>1 DEF Less
<1>5. ASSUME NEW k \in Bytes, Less(k, s)
      PROVE  Leq(k, a)
  <2>1. PICK i \in 1 .. n + 1 : LessAt(k, s, i)
    BY <1>2, <1>5 DEF Less
  <2>2. Len(k) \in Nat /\ \A j \in 1 .. Len(k) : k[j] \in Nat
    BY BytesType
  <2>3. CASE i \in 1 .. n
    <3>1. LessAt(k, a, i)
      BY <1>1, <1>2, <2>1, <2>3 DEF LessAt
    <3> QED BY <2>3, <3>1 DEF Leq, Less, n
  <2>4. CASE i = n + 1
    <3>1. \A j \in 1 .. n : k[j] = a[j]
      BY <1>1, <1>2, <2>1, <2>4 DEF LessAt
    <3>2. Len(k) = n
      BY <1>1, <1>2, <2>1, <2>2, <2>4 DEF LessAt
    <3> QED BY <3>1, <3>2, BytesEqual DEF Leq, n
  <2> QED BY <1>1, <2>3, <2>4
<1>6. ASSUME NEW k \in Bytes, Leq(k, a)
      PROVE  Less(k, s)
  BY <1>3, <1>4, <1>6, LeqLess
<1> QED BY <1>3, <1>4, <1>5, <1>6 DEF s

(***************************************************************************)
(* Numbers made of bytes.                                                  *)
(***************************************************************************)
LEMMA PaddedByteType ==
    ASSUME NEW key \in Bytes, NEW i \in Nat \ {0}
    PROVE  PaddedByte(key, i) \in 0 .. MaxByte
<1>1. i <= Len(key) => key[i] \in Byte
  BY BytesType, ElementOfSeq DEF Bytes
<1> QED BY <1>1, MaxByteAssumption DEF PaddedByte, Byte

LEMMA DigitSteps ==
    ASSUME NEW key \in Bytes, NEW from \in Nat, NEW c \in Nat,
           NEW number, number = Digits(key, from, c)
    PROVE  /\ \A i \in 0 .. c : number[i] \in Nat
           /\ number[0] = 0
           /\ \A i \in 1 .. c :
                 number[i] = number[i - 1] * (MaxByte + 1) + PaddedByte(key, from + i)
<1> DEFINE f == [p \in (1 .. c) \X Nat |-> p[2] * (MaxByte + 1) + PaddedByte(key, from + p[1])]
<1>1. c \in Nat
  OBVIOUS
<1>2. ASSUME NEW i \in 1 .. c, NEW a \in Nat
      PROVE  a * (MaxByte + 1) + PaddedByte(key, from + i) \in Nat
  <2>1. PaddedByte(key, from + i) \in Nat /\ MaxByte + 1 \in Nat
    BY PaddedByteType, MaxByteAssumption
  <2>2. a * (MaxByte + 1) \in Nat
    BY <2>1
  <2> QED BY <2>1, <2>2
<1>3. f \in [(1 .. c) \X Nat -> Nat]
  BY <1>2
<1> HIDE DEF f
<1>4. PICK g \in [0 .. c -> Nat] : IsStepwise(g, f, 0, c)
  BY <1>1, <1>3, Stepwise
<1>5. g[0] = 0 /\ \A i \in 1 .. c : g[i] = f[<<i, g[i - 1]>>]
  BY <1>4 DEF IsStepwise
<1>6. \A i \in 1 .. c : g[i] = g[i - 1] * (MaxByte + 1) + PaddedByte(key, from + i)
  <2> TAKE i \in 1 .. c
  <2>1. i - 1 \in 0 .. c
    BY <1>1
  <2>2. g[i - 1] \in Nat /\ <<i, g[i - 1]>> \in (1 .. c) \X Nat
    BY <2>1
  <2> QED BY <1>5, <2>2 DEF f
<1>7. g = [i \in 0 .. c |-> IF i = 0 THEN 0 ELSE g[i - 1] * (MaxByte + 1) + PaddedByte(key, from + i)]
  BY <1>5, <1>6
<1>8. number = [i \in 0 .. c |-> IF i = 0 THEN 0 ELSE number[i - 1] * (MaxByte + 1) + PaddedByte(key, from + i)]
  BY <1>7 DEF Digits, Base
<1>9. number[0] = 0 /\ \A i \in 1 .. c : number[i] = number[i - 1] * (MaxByte + 1) + PaddedByte(key, from + i)
  <2>1. 0 \in 0 .. c
    BY <1>1
  <2>2. \A i \in 1 .. c : i \in 0 .. c /\ i # 0
    OBVIOUS
  <2> QED BY <1>8, <2>1, <2>2, Zenon
<1> DEFINE T == {i \in 0 .. c : number[i] \in Nat}
<1>10. 0 .. c \subseteq T
  <2>1. 0 \in T
    BY <1>1, <1>9
  <2>2. ASSUME NEW i \in 1 .. c, i - 1 \in T
        PROVE  i \in T
    <3>1. number[i - 1] * (MaxByte + 1) + PaddedByte(key, from + i) \in Nat
      BY <1>2, <2>2
    <3>2. i \in 0 .. c
      BY <1>1
    <3> QED BY <1>9, <3>1, <3>2
  <2> HIDE DEF T
  <2> QED BY <1>1, <2>1, <2>2, UpTo
<1> QED BY <1>9, <1>10

LEMMA NumberType ==
    ASSUME NEW key \in Bytes, NEW from \in Nat, NEW len \in Nat
    PROVE  NumberOf(key, from, len) \in Nat
BY DigitSteps DEF NumberOf

(* A digit more keeps the order of two numbers.                            *)
LEMMA OneMoreDigit ==
    ASSUME NEW x \in Nat, NEW y \in Nat, NEW b \in Nat, NEW u \in 0 .. b, NEW v \in 0 .. b
    PROVE  /\ x < y => x * (b + 1) + u < y * (b + 1) + v
           /\ x = y => x * (b + 1) = y * (b + 1)
           /\ x * (b + 1) \in Nat
<1>1. ASSUME x < y PROVE x * (b + 1) + (b + 1) <= y * (b + 1)
  <2>1. PICK d \in Nat : y = x + 1 + d
    <3>1. y - x - 1 \in Nat /\ y = x + 1 + (y - x - 1)
      BY <1>1
    <3> QED BY <3>1
  <2>2. y * (b + 1) = x * (b + 1) + (b + 1) + d * (b + 1)
    BY <2>1
  <2>3. d * (b + 1) \in Nat
    OBVIOUS
  <2> QED BY <2>2, <2>3
<1>2. x * (b + 1) \in Nat /\ y * (b + 1) \in Nat
  OBVIOUS
<1> QED BY <1>1, <1>2

(* Where two numbers differ the first byte in which the keys differ        *)
(* decides.                                                                *)
LEMMA DigitsDiffer ==
    ASSUME NEW a \in Bytes, NEW b \in Bytes, NEW from \in Nat, NEW c \in Nat,
           NumberOf(a, from, c) < NumberOf(b, from, c)
    PROVE  \E j \in 1 .. c :
              /\ \A i \in 1 .. (j - 1) : PaddedByte(a, from + i) = PaddedByte(b, from + i)
              /\ PaddedByte(a, from + j) < PaddedByte(b, from + j)
<1> DEFINE x == Digits(a, from, c)
           y == Digits(b, from, c)
           Same(i) == \A k \in 1 .. i : PaddedByte(a, from + k) = PaddedByte(b, from + k)
           Below(i) == \E j \in 1 .. i : Same(j - 1) /\ PaddedByte(a, from + j) < PaddedByte(b, from + j)
           Above(i) == \E j \in 1 .. i : Same(j - 1) /\ PaddedByte(a, from + j) > PaddedByte(b, from + j)
           T == {i \in 0 .. c : \/ Same(i) /\ x[i] = y[i]
                                \/ Below(i) /\ x[i] < y[i]
                                \/ Above(i) /\ x[i] > y[i]}
<1>1. c \in Nat /\ c \in 0 .. c /\ MaxByte \in Nat
  BY MaxByteAssumption
<1>2. /\ x[0] = 0 /\ y[0] = 0
      /\ \A i \in 0 .. c : x[i] \in Nat /\ y[i] \in Nat
      /\ \A i \in 1 .. c : /\ x[i] = x[i - 1] * (MaxByte + 1) + PaddedByte(a, from + i)
                           /\ y[i] = y[i - 1] * (MaxByte + 1) + PaddedByte(b, from + i)
  <2>1. /\ x[0] = 0
        /\ \A i \in 0 .. c : x[i] \in Nat
        /\ \A i \in 1 .. c : x[i] = x[i - 1] * (MaxByte + 1) + PaddedByte(a, from + i)
    BY DigitSteps
  <2>2. /\ y[0] = 0
        /\ \A i \in 0 .. c : y[i] \in Nat
        /\ \A i \in 1 .. c : y[i] = y[i - 1] * (MaxByte + 1) + PaddedByte(b, from + i)
    BY DigitSteps
  <2> QED BY <2>1, <2>2
<1>3. x[c] < y[c]
  BY DEF NumberOf
<1> HIDE DEF x, y
<1>4. 0 .. c \subseteq T
  <2>1. 0 \in T
    BY <1>1, <1>2
  <2>2. ASSUME NEW i \in 1 .. c, i - 1 \in T
        PROVE  i \in T
    <3> DEFINE u == PaddedByte(a, from + i)
               v == PaddedByte(b, from + i)
    <3>1. u \in 0 .. MaxByte /\ v \in 0 .. MaxByte /\ i - 1 \in 0 .. c
      BY <1>1, PaddedByteType
    <3>2. x[i - 1] \in Nat /\ y[i - 1] \in Nat
      BY <1>2, <3>1
    <3>3. /\ x[i] = x[i - 1] * (MaxByte + 1) + u
          /\ y[i] = y[i - 1] * (MaxByte + 1) + v
      BY <1>2
    <3>4. CASE Same(i - 1) /\ x[i - 1] = y[i - 1]
      <4>1. x[i] - y[i] = u - v /\ x[i] \in Nat /\ y[i] \in Nat
        <5>1. x[i - 1] * (MaxByte + 1) \in Nat
          BY <1>1, <3>2, <3>1, OneMoreDigit
        <5> QED BY <3>1, <3>3, <3>4, <5>1
      <4>2. u = v => Same(i)
        <5>1. ASSUME u = v, NEW k \in 1 .. i PROVE PaddedByte(a, from + k) = PaddedByte(b, from + k)
          <6>1. CASE k = i
            BY <5>1, <6>1
          <6>2. CASE k # i
            <7>1. k \in 1 .. (i - 1)
              BY <6>2
            <7> QED BY <3>4, <7>1
          <6> QED BY <6>1, <6>2
        <5> QED BY <5>1
      <4>3. u < v => Below(i)
        BY <3>4
      <4>4. u > v => Above(i)
        BY <3>4
      <4> HIDE DEF Same, Below, Above, u, v
      <4> QED BY <3>1, <4>1, <4>2, <4>3, <4>4
    <3>5. CASE Below(i - 1) /\ x[i - 1] < y[i - 1]
      <4>1. Below(i)
        BY <3>5
      <4>2. x[i] < y[i]
        BY <1>1, <3>1, <3>2, <3>3, <3>5, OneMoreDigit
      <4> QED BY <4>1, <4>2
    <3>6. CASE Above(i - 1) /\ x[i - 1] > y[i - 1]
      <4>1. Above(i)
        BY <3>6
      <4>2. y[i - 1] < x[i - 1]
        BY <3>2, <3>6
      <4>3. y[i - 1] * (MaxByte + 1) + v < x[i - 1] * (MaxByte + 1) + u
        BY <1>1, <3>1, <3>2, <4>2, OneMoreDigit
      <4>4. x[i] > y[i]
        <5>1. i \in 0 .. c
          BY <1>1
        <5> QED BY <1>2, <3>3, <4>3, <5>1
      <4> QED BY <4>1, <4>4
    <3> QED BY <2>2, <3>4, <3>5, <3>6
  <2> HIDE DEF T
  <2> QED BY <1>1, <2>1, <2>2, UpTo
<1>5. Below(c)
  <2>1. c \in T
    BY <1>1, <1>4
  <2>2. x[c] \in Nat /\ y[c] \in Nat
    BY <1>1, <1>2
  <2> HIDE DEF Same, Below, Above
  <2> QED BY <1>3, <2>1, <2>2
<1> QED BY <1>5

(* Keys that begin in the same way are ordered as the numbers made of the  *)
(* bytes behind are, if these differ: lowerBound may trust heads, and the  *)
(* order of numeric parts is the order of keys.                            *)
LEMMA NumbersDecide ==
    ASSUME NEW a \in Bytes, NEW b \in Bytes, NEW from \in Nat, NEW c \in Nat,
           \A i \in 1 .. from : PaddedByte(a, i) = PaddedByte(b, i),
           NumberOf(a, from, c) < NumberOf(b, from, c)
    PROVE  Less(a, b)
<1>1. PICK d \in 1 .. c :
              /\ \A i \in 1 .. (d - 1) : PaddedByte(a, from + i) = PaddedByte(b, from + i)
              /\ PaddedByte(a, from + d) < PaddedByte(b, from + d)
  BY DigitsDiffer
<1> DEFINE j == from + d
<1>0. \A i \in 1 .. (j - 1) : PaddedByte(a, i) = PaddedByte(b, i)
  <2> TAKE i \in 1 .. (j - 1)
  <2>1. CASE i <= from
    BY <2>1
  <2>2. CASE i > from
    <3>1. i - from \in 1 .. (d - 1) /\ from + (i - from) = i
      BY <2>2
    <3> QED BY <1>1, <3>1
  <2> QED BY <2>1, <2>2
<1>2. /\ Len(a) \in Nat /\ Len(b) \in Nat /\ j \in Nat \ {0}
      /\ \A i \in 1 .. Len(a) : a[i] \in Nat
      /\ \A i \in 1 .. Len(b) : b[i] \in Nat
  BY BytesType
<1>6. PaddedByte(a, j) < PaddedByte(b, j)
  BY <1>1
<1> HIDE DEF j
<1>3. j \in 1 .. Len(b) /\ (\A i \in 1 .. (j - 1) : i \in 1 .. Len(b))
  <2>1. PaddedByte(a, j) \in 0 .. MaxByte
    BY <1>2, PaddedByteType
  <2> QED BY <1>6, <1>2, <2>1, MaxByteAssumption DEF PaddedByte
<1>4. CASE j <= Len(a) + 1
  <2>1. LessAt(a, b, j)
    BY <1>0, <1>6, <1>2, <1>3, <1>4 DEF LessAt, PaddedByte
  <2> QED BY <1>3, <2>1 DEF Less
<1>5. CASE j > Len(a) + 1
  <2>1. /\ Len(a) + 1 \in 1 .. Len(b)
        /\ \A i \in 1 .. Len(a) : a[i] = b[i]
    BY <1>0, <1>2, <1>3, <1>5 DEF PaddedByte
  <2>2. LessAt(a, b, Len(a) + 1)
    BY <1>2, <2>1 DEF LessAt
  <2> QED BY <2>1, <2>2 DEF Less
<1> QED BY <1>2, <1>4, <1>5

=============================================================================
