-------------------------- MODULE BTreeRefinement ---------------------------
(***************************************************************************)
(* The B-tree implements the map of KVStore: for every set of keys,        *)
(* payloads and page sizes, each step of BTree is a step of KVStore on the *)
(* map that the leaves hold, or is invisible to it.                        *)
(***************************************************************************)
EXTENDS BTreeProofs

(***************************************************************************)
(* The map that a set of records stands for.                               *)
(***************************************************************************)
MapOf(E) ==
    [k \in Key |-> IF \E e \in E : e.key = k
                   THEN (CHOOSE e \in E : e.key = k).val
                   ELSE NoVal]

(* No key has two records.                                                 *)
OnePerKey(E) ==
    /\ E \subseteq LeafSlot
    /\ \A e, f \in E : e.key = f.key => e = f

Record(k, v) == [key |-> k, val |-> v]

LEMMA RecordFacts ==
    ASSUME NEW e \in LeafSlot
    PROVE  e.key \in Key /\ e.key \in Bytes /\ e.val \in Val /\ e.val # NoVal
BY BTreeAssumption DEF LeafSlot

LEMMA MapOfPresent ==
    ASSUME NEW E, OnePerKey(E), NEW e \in E
    PROVE  MapOf(E)[e.key] = e.val /\ MapOf(E)[e.key] # NoVal
<1>1. e.key \in Key /\ e.val # NoVal
  BY RecordFacts DEF OnePerKey
<1>2. \A f \in E : f.key = e.key => f = e
  BY DEF OnePerKey
<1>3. (CHOOSE f \in E : f.key = e.key) = e
  BY <1>2
<1> QED BY <1>1, <1>3 DEF MapOf

LEMMA MapOfMissing ==
    ASSUME NEW E, NEW k \in Key, \A e \in E : e.key # k
    PROVE  MapOf(E)[k] = NoVal
BY DEF MapOf

(* A record for a new key adds it to the map ...                           *)
LEMMA MapOfAdded ==
    ASSUME NEW E, OnePerKey(E), NEW k \in Key, NEW v \in Val, \A e \in E : e.key # k
    PROVE  MapOf(E \cup {Record(k, v)}) = [MapOf(E) EXCEPT ![k] = v]
<1> DEFINE F == E \cup {Record(k, v)}
<1>1. Record(k, v) \in LeafSlot /\ Record(k, v).key = k /\ Record(k, v).val = v
  BY DEF Record, LeafSlot
<1>2. OnePerKey(F)
  BY <1>1 DEF OnePerKey
<1>3. ASSUME NEW x \in Key
      PROVE  MapOf(F)[x] = [MapOf(E) EXCEPT ![k] = v][x]
  <2>0. x \in DOMAIN MapOf(E)
    BY DEF MapOf
  <2>1. CASE x = k
    <3>1. MapOf(F)[k] = v
      BY <1>1, <1>2, MapOfPresent
    <3> QED BY <2>0, <2>1, <3>1
  <2>2. CASE x # k /\ \E e \in E : e.key = x
    <3>1. PICK e \in E : e.key = x
      BY <2>2
    <3>2. MapOf(E)[x] = e.val /\ MapOf(F)[x] = e.val
      BY <1>2, <3>1, MapOfPresent
    <3> QED BY <2>2, <2>0, <3>2
  <2>3. CASE x # k /\ \A e \in E : e.key # x
    <3>1. MapOf(E)[x] = NoVal /\ MapOf(F)[x] = NoVal
      BY <1>1, <2>3, MapOfMissing
    <3> QED BY <2>3, <2>0, <3>1
  <2> QED BY <2>1, <2>2, <2>3
<1> HIDE DEF F
<1>4. DOMAIN MapOf(F) = Key /\ DOMAIN [MapOf(E) EXCEPT ![k] = v] = Key
  BY DEF MapOf
<1>5. /\ MapOf(F) = [x \in Key |-> MapOf(F)[x]]
      /\ [MapOf(E) EXCEPT ![k] = v] = [x \in Key |-> [MapOf(E) EXCEPT ![k] = v][x]]
  BY DEF MapOf
<1> QED BY <1>3, <1>5 DEF F

(* ... and taking a record away removes its key.                           *)
LEMMA MapOfDropped ==
    ASSUME NEW E, OnePerKey(E), NEW e \in E
    PROVE  MapOf(E \ {e}) = [MapOf(E) EXCEPT ![e.key] = NoVal]
<1> DEFINE F == E \ {e}
           k == e.key
<1>1. k \in Key
  BY RecordFacts DEF OnePerKey
<1>2. OnePerKey(F)
  BY DEF OnePerKey
<1>3. ASSUME NEW x \in Key
      PROVE  MapOf(F)[x] = [MapOf(E) EXCEPT ![k] = NoVal][x]
  <2>0. x \in DOMAIN MapOf(E)
    BY DEF MapOf
  <2>1. CASE x = k
    <3>1. \A f \in F : f.key # k
      BY DEF OnePerKey
    <3>2. MapOf(F)[k] = NoVal
      BY <1>1, <3>1, MapOfMissing
    <3> QED BY <2>0, <2>1, <3>2
  <2>2. CASE x # k /\ \E f \in E : f.key = x
    <3>1. PICK f \in E : f.key = x
      BY <2>2
    <3>2. f \in F
      BY <2>2, <3>1
    <3>3. MapOf(E)[x] = f.val /\ MapOf(F)[x] = f.val
      BY <1>2, <3>1, <3>2, MapOfPresent
    <3> QED BY <2>2, <2>0, <3>3
  <2>3. CASE x # k /\ \A f \in E : f.key # x
    <3>1. MapOf(E)[x] = NoVal /\ MapOf(F)[x] = NoVal
      BY <2>3, MapOfMissing
    <3> QED BY <2>3, <2>0, <3>1
  <2> QED BY <2>1, <2>2, <2>3
<1> HIDE DEF F
<1>4. /\ MapOf(F) = [x \in Key |-> MapOf(F)[x]]
      /\ [MapOf(E) EXCEPT ![k] = NoVal] = [x \in Key |-> [MapOf(E) EXCEPT ![k] = NoVal][x]]
  BY DEF MapOf
<1> QED BY <1>3, <1>4 DEF F

(***************************************************************************)
(* The records in the leaves.                                              *)
(***************************************************************************)
Holds(n, e) == \E i \in 1 .. Count(n) : n.slot[i] = e

LEMMA SlotsHeld ==
    ASSUME NEW pg, \A p \in DOMAIN pg : pg[p] \in Page
    PROVE  \A e : e \in UNION {Range(pg[p].slot) : p \in {q \in DOMAIN pg : IsLeaf(pg[q])}}
                  <=> \E p \in DOMAIN pg : IsLeaf(pg[p]) /\ Holds(pg[p], e)
<1> DEFINE L == {q \in DOMAIN pg : IsLeaf(pg[q])}
<1>1. \A p \in L : DOMAIN pg[p].slot = 1 .. Count(pg[p])
  <2> TAKE p \in L
  <2>1. pg[p].slot \in Seq(LeafSlot)
    BY PageFacts
  <2> QED BY <2>1 DEF Count
<1>2. \A p \in L : Range(pg[p].slot) = {pg[p].slot[i] : i \in 1 .. Count(pg[p])}
  BY <1>1 DEF Range
<1> QED BY <1>2 DEF Holds

(* Entries, without the ranges of slot arrays.                             *)
LEMMA EntryIff ==
    ASSUME PageType
    PROVE  \A e : e \in Entries <=> \E p \in Leaves : Holds(page[p], e)
<1>1. \A p \in DOMAIN page : page[p] \in Page
  BY DEF PageType, Pages
<1> QED BY <1>1, SlotsHeld DEF Entries, Leaves, Pages

LEMMA EntryIffNext ==
    ASSUME PageType'
    PROVE  \A e : e \in Entries' <=> \E p \in Leaves' : Holds(page'[p], e)
<1>1. \A p \in DOMAIN page' : page'[p] \in Page
  BY DEF PageType, Pages
<1> QED BY <1>1, SlotsHeld DEF Entries, Leaves, Pages

LEMMA LeafFacts ==
    ASSUME PageType, TreeOK, NEW p \in Leaves
    PROVE  /\ p \in Pages /\ page[p] \in Page /\ IsLeaf(page[p]) /\ PageOK(page[p])
           /\ Count(page[p]) \in Nat /\ page[p].slot \in Seq(LeafSlot)
           /\ \A i \in 1 .. Count(page[p]) :
                 /\ page[p].slot[i] \in LeafSlot
                 /\ page[p].slot[i] \in Entries
                 /\ page[p].slot[i].key \in Bytes
                 /\ InFences(page[p].slot[i].key, page[p].lower, page[p].upper)
           /\ page[p].lower \in Bytes /\ page[p].upper \in Bytes
<1>1. p \in Pages /\ page[p] \in Page /\ IsLeaf(page[p]) /\ PageOK(page[p])
  BY DEF PageType, Leaves, TreeOK, KeysInFences
<1>2. \A i \in 1 .. Count(page[p]) : page[p].slot[i] \in Entries
  BY EntryIff DEF Holds
<1>3. \A i \in 1 .. Count(page[p]) :
         InFences(page[p].slot[i].key, page[p].lower, page[p].upper)
  BY <1>1 DEF PageOK
<1> QED BY <1>1, <1>2, <1>3, PageFacts

(* A record is in the leaf that is responsible for its key.                *)
LEMMA EntryInLeaf ==
    ASSUME PageType, TreeOK, NEW p \in Leaves, NEW e \in Entries,
           InFences(e.key, page[p].lower, page[p].upper)
    PROVE  Holds(page[p], e)
<1>1. PICK q \in Leaves : Holds(page[q], e)
  BY EntryIff
<1>2. e.key \in Bytes /\ InFences(e.key, page[q].lower, page[q].upper)
  BY <1>1, LeafFacts DEF Holds
<1>3. p = q
  BY <1>2 DEF TreeOK, LeavesApart
<1> QED BY <1>1, <1>3

LEMMA EntriesOnePerKey ==
    ASSUME PageType, TreeOK
    PROVE  OnePerKey(Entries)
<1>1. ASSUME NEW e \in Entries
      PROVE  e \in LeafSlot
  BY EntryIff, LeafFacts DEF Holds
<1>2. ASSUME NEW e \in Entries, NEW f \in Entries, e.key = f.key
      PROVE  e = f
  <2>1. PICK p \in Leaves : Holds(page[p], e)
    BY EntryIff
  <2>2. InFences(f.key, page[p].lower, page[p].upper)
    BY <1>2, <2>1, LeafFacts DEF Holds
  <2>3. Holds(page[p], f)
    BY <2>2, EntryInLeaf
  <2>4. PICK i \in 1 .. Count(page[p]), j \in 1 .. Count(page[p]) :
           page[p].slot[i] = e /\ page[p].slot[j] = f
    BY <2>1, <2>3 DEF Holds
  <2>5. Count(page[p]) \in Nat /\ PageOK(page[p]) /\ e.key \in Bytes
    BY <2>4, LeafFacts
  <2>6. ~ (i < j) /\ ~ (j < i)
    BY <1>2, <2>4, <2>5, LessIrreflexive DEF PageOK
  <2>7. i = j
    BY <2>5, <2>6
  <2> QED BY <2>4, <2>7
<1> QED BY <1>1, <1>2 DEF OnePerKey

LEMMA ContentsIsMap == Contents = MapOf(Entries)
BY DEF Contents, MapOf

(***************************************************************************)
(* What the operations on a leaf do to its records.                        *)
(***************************************************************************)
LEMMA InsertHolds ==
    ASSUME NEW n \in Page, IsLeaf(n), NEW i \in 1 .. Count(n) + 1, NEW k \in Key, NEW v \in Val
    PROVE  \A e : Holds(InsertSlot(n, i, k, v), e) <=> Holds(n, e) \/ e = Record(k, v)
<1> DEFINE c == Count(n)
           q == n.slot
           r == Record(k, v)
           s == InsertAt(q, i, r)
           m == InsertSlot(n, i, k, v)
<1>1. c \in Nat /\ q \in Seq(LeafSlot) /\ c = Len(q) /\ r \in LeafSlot
  BY PageFacts DEF Count, Record, LeafSlot
<1>2. /\ s \in Seq(LeafSlot) /\ Len(s) = c + 1
      /\ \A j \in 1 .. (i - 1) : s[j] = q[j]
      /\ s[i] = r
      /\ \A j \in (i + 1) .. (c + 1) : s[j] = q[j - 1]
  <2>1. q \in Seq(LeafSlot) /\ r \in LeafSlot /\ i \in 1 .. Len(q) + 1 /\ c = Len(q)
    BY <1>1
  <2> DEFINE X == LeafSlot
  <2> HIDE DEF q, r, c, X
  <2>2. /\ InsertAt(q, i, r) \in Seq(X)
        /\ Len(InsertAt(q, i, r)) = Len(q) + 1
        /\ \A j \in 1 .. (i - 1) : InsertAt(q, i, r)[j] = q[j]
        /\ InsertAt(q, i, r)[i] = r
        /\ \A j \in (i + 1) .. (Len(q) + 1) : InsertAt(q, i, r)[j] = q[j - 1]
    <3>1. q \in Seq(X) /\ r \in X /\ i \in 1 .. Len(q) + 1
      BY <2>1 DEF X
    <3> QED BY ONLY <3>1, InsertAtProperties
  <2> QED BY <2>1, <2>2 DEF X
<1>3. m.slot = s /\ Count(m) = c + 1
  <2>1. m = [n EXCEPT !.slot = s]
    BY DEF InsertSlot, Record
  <2>2. s \in Seq(SlotType(n))
    BY <1>2 DEF SlotType
  <2> HIDE DEF s, m
  <2> QED BY <1>2, <2>1, <2>2, WithSlots DEF Count
<1>4. i \in 1 .. c + 1
  OBVIOUS
<1> HIDE DEF c, q, r, s, m
<1>5. ASSUME NEW j \in 1 .. c + 1
      PROVE  s[j] = r \/ \E x \in 1 .. c : s[j] = q[x]
  <2>1. CASE j < i
    BY <1>1, <1>2, <1>4, <2>1
  <2>2. CASE j = i
    BY <1>2, <2>2
  <2>3. CASE j > i
    <3>1. j - 1 \in 1 .. c /\ s[j] = q[j - 1]
      BY <1>1, <1>2, <1>4, <2>3
    <3> QED BY <3>1
  <2> QED BY <1>4, <2>1, <2>2, <2>3
<1>6. ASSUME NEW x \in 1 .. c
      PROVE  \E j \in 1 .. c + 1 : s[j] = q[x]
  <2>1. CASE x < i
    <3>1. x \in 1 .. c + 1 /\ s[x] = q[x]
      BY <1>1, <1>2, <1>4, <2>1
    <3> QED BY <3>1
  <2>2. CASE ~ (x < i)
    <3>1. x + 1 \in 1 .. c + 1 /\ x + 1 \in (i + 1) .. (c + 1) /\ (x + 1) - 1 = x
      BY <1>1, <1>4, <2>2
    <3>2. s[x + 1] = q[x]
      BY <1>2, <3>1
    <3> QED BY <3>1, <3>2
  <2> QED BY <2>1, <2>2
<1>7. i \in 1 .. c + 1 /\ s[i] = r
  BY <1>2, <1>4
<1>8. \A e : Holds(m, e) <=> (\E x \in 1 .. c : q[x] = e) \/ e = r
  BY <1>3, <1>5, <1>6, <1>7 DEF Holds
<1> QED BY <1>8 DEF Holds, m, c, q, r

LEMMA RemoveHolds ==
    ASSUME NEW n \in Page, IsLeaf(n), PageOK(n), NEW i \in 1 .. Count(n)
    PROVE  \A e : Holds(RemoveSlot(n, i), e) <=> Holds(n, e) /\ e # n.slot[i]
<1> DEFINE c == Count(n)
           q == n.slot
           s == RemoveAt(q, i)
           m == RemoveSlot(n, i)
<1>1. c \in Nat /\ q \in Seq(LeafSlot) /\ c = Len(q) /\ i \in 1 .. c
      /\ \A x \in 1 .. c : q[x].key \in Bytes
  BY PageFacts DEF Count
<1>2. /\ s \in Seq(LeafSlot) /\ Len(s) = c - 1
      /\ \A j \in 1 .. (i - 1) : s[j] = q[j]
      /\ \A j \in i .. (c - 1) : s[j] = q[j + 1]
  <2> HIDE DEF q, c
  <2> QED BY <1>1, RemoveAtProperties
<1>3. m.slot = s /\ Count(m) = c - 1
  <2>1. m = [n EXCEPT !.slot = s]
    BY DEF RemoveSlot
  <2>2. s \in Seq(SlotType(n))
    BY <1>2 DEF SlotType
  <2> HIDE DEF s, m
  <2> QED BY <1>2, <2>1, <2>2, WithSlots DEF Count
<1>4. \A x, y \in 1 .. c : q[x] = q[y] => x = y
  <2>1. \A x, y \in 1 .. c : x < y => Less(q[x].key, q[y].key)
    BY DEF PageOK
  <2> HIDE DEF q, c
  <2>2. \A x, y \in 1 .. c : x < y => q[x] # q[y]
    BY <1>1, <2>1, LessIrreflexive
  <2> QED BY <1>1, <2>2
<1> HIDE DEF c, q, s, m
<1>5. ASSUME NEW j \in 1 .. c - 1
      PROVE  \E x \in 1 .. c : s[j] = q[x] /\ x # i
  <2>1. CASE j < i
    <3>1. j \in 1 .. c /\ s[j] = q[j] /\ j # i
      BY <1>1, <1>2, <2>1
    <3> QED BY <3>1
  <2>2. CASE ~ (j < i)
    <3>1. j + 1 \in 1 .. c /\ s[j] = q[j + 1] /\ j + 1 # i
      BY <1>1, <1>2, <2>2
    <3> QED BY <3>1
  <2> QED BY <2>1, <2>2
<1>6. ASSUME NEW x \in 1 .. c, x # i
      PROVE  \E j \in 1 .. c - 1 : s[j] = q[x]
  <2>1. CASE x < i
    <3>1. x \in 1 .. c - 1 /\ s[x] = q[x]
      BY <1>1, <1>2, <2>1
    <3> QED BY <3>1
  <2>2. CASE ~ (x < i)
    <3>1. x - 1 \in 1 .. c - 1 /\ x - 1 \in i .. (c - 1) /\ (x - 1) + 1 = x
      BY <1>1, <1>6, <2>2
    <3>2. s[x - 1] = q[x]
      BY <1>2, <3>1
    <3> QED BY <3>1, <3>2
  <2> QED BY <2>1, <2>2
<1>7. \A e : Holds(m, e) <=> (\E x \in 1 .. c : q[x] = e) /\ e # q[i]
  <2> TAKE e
  <2>1. Holds(m, e) => (\E x \in 1 .. c : q[x] = e) /\ e # q[i]
    <3> SUFFICES ASSUME NEW j \in 1 .. c - 1, s[j] = e
                 PROVE  (\E x \in 1 .. c : q[x] = e) /\ e # q[i]
      BY <1>3 DEF Holds
    <3>1. PICK x \in 1 .. c : s[j] = q[x] /\ x # i
      BY <1>5
    <3> QED BY <1>1, <1>4, <3>1
  <2>2. (\E x \in 1 .. c : q[x] = e) /\ e # q[i] => Holds(m, e)
    BY <1>3, <1>6 DEF Holds
  <2> QED BY <2>1, <2>2
<1> QED BY <1>7 DEF Holds, m, c, q

LEMMA SplitHolds ==
    ASSUME NEW n \in Page, PageOK(n), IsLeaf(n), Count(n) > 1,
           NEW s, s = FindSeparator(n), s.at >= 2
    PROVE  \A e : Holds(SplitLeft(n, s), e) \/ Holds(SplitRight(n, s), e) <=> Holds(n, e)
<1> DEFINE l == SplitLeft(n, s)
           r == SplitRight(n, s)
           c == Count(n)
           a == s.at
<1>1. c \in Nat /\ a \in 1 .. c
  BY PageFacts, SeparatorProperties
<1>2. Count(l) = a /\ \A j \in 1 .. a : l.slot[j] = n.slot[j]
  BY SplitLeftOK
<1>3. Count(r) = c - a /\ \A j \in 1 .. c - a : r.slot[j] = n.slot[a + j]
  BY SplitRightOK
<1> HIDE DEF l, r, c, a
<1>4. ASSUME NEW j \in 1 .. c
      PROVE  \/ \E x \in 1 .. a : l.slot[x] = n.slot[j]
             \/ \E x \in 1 .. c - a : r.slot[x] = n.slot[j]
  <2>1. CASE j <= a
    <3>1. j \in 1 .. a
      BY <1>1, <2>1
    <3> QED BY <1>2, <3>1
  <2>2. CASE ~ (j <= a)
    <3>1. j - a \in 1 .. c - a /\ a + (j - a) = j
      BY <1>1, <2>2
    <3>2. r.slot[j - a] = n.slot[j]
      BY <1>3, <3>1
    <3> QED BY <3>1, <3>2
  <2> QED BY <2>1, <2>2
<1>5. /\ \A x \in 1 .. a : x \in 1 .. c
      /\ \A x \in 1 .. c - a : a + x \in 1 .. c
  BY <1>1
<1>6. \A e : /\ Holds(l, e) <=> \E x \in 1 .. a : l.slot[x] = e
             /\ Holds(r, e) <=> \E x \in 1 .. c - a : r.slot[x] = e
             /\ Holds(n, e) <=> \E x \in 1 .. c : n.slot[x] = e
  BY <1>2, <1>3 DEF Holds, c
<1>7. \A e : Holds(l, e) \/ Holds(r, e) <=> Holds(n, e)
  <2> TAKE e
  <2>1. Holds(l, e) => Holds(n, e)
    BY <1>2, <1>5, <1>6
  <2>2. Holds(r, e) => Holds(n, e)
    BY <1>3, <1>5, <1>6
  <2>3. Holds(n, e) => Holds(l, e) \/ Holds(r, e)
    BY <1>4, <1>6
  <2> QED BY <2>1, <2>2, <2>3
<1> QED BY <1>7 DEF l, r

LEMMA MergeHolds ==
    ASSUME NEW l \in Page, NEW r \in Page, IsLeaf(l), IsLeaf(r)
    PROVE  \A e : Holds(Merged(l, r), e) <=> Holds(l, e) \/ Holds(r, e)
<1> DEFINE a == Count(l)
           b == Count(r)
           q == l.slot \o r.slot
           m == Merged(l, r)
<1>1. /\ a \in Nat /\ b \in Nat /\ l.lower \in Bytes /\ r.upper \in Bytes
      /\ l.slot \in Seq(LeafSlot) /\ r.slot \in Seq(LeafSlot)
      /\ a = Len(l.slot) /\ b = Len(r.slot)
  BY PageFacts DEF Count
<1>0. a \in Nat /\ b \in Nat
  BY <1>1
<1>2. /\ q \in Seq(LeafSlot) /\ Len(q) = a + b
      /\ \A j \in 1 .. a + b : q[j] = IF j <= a THEN l.slot[j] ELSE r.slot[j - a]
  <2> HIDE DEF a, b
  <2> QED BY <1>1, ConcatProperties
<1>3. m.slot = q /\ Count(m) = a + b
  <2>1. m = Leaf(l.lower, r.upper, q)
    BY DEF Merged
  <2> HIDE DEF q, m, a, b
  <2>2. m.slot = q
    BY <1>1, <1>2, <2>1, LeafFields
  <2> QED BY <1>2, <2>2 DEF Count
<1> HIDE DEF a, b, q, m
<1>4. ASSUME NEW j \in 1 .. a + b
      PROVE  \/ \E x \in 1 .. a : q[j] = l.slot[x]
             \/ \E x \in 1 .. b : q[j] = r.slot[x]
  <2>1. CASE j <= a
    <3>1. j \in 1 .. a /\ q[j] = l.slot[j]
      BY <1>0, <1>2, <2>1
    <3> QED BY <3>1
  <2>2. CASE ~ (j <= a)
    <3>1. j - a \in 1 .. b /\ q[j] = r.slot[j - a]
      BY <1>0, <1>2, <2>2
    <3> QED BY <3>1
  <2> QED BY <2>1, <2>2
<1>5. \A x \in 1 .. a : x \in 1 .. a + b /\ q[x] = l.slot[x]
  BY <1>0, <1>2
<1>6. ASSUME NEW x \in 1 .. b
      PROVE  a + x \in 1 .. a + b /\ q[a + x] = r.slot[x]
  <2>1. a + x \in 1 .. a + b /\ ~ (a + x <= a) /\ (a + x) - a = x
    BY <1>0
  <2> QED BY <1>2, <2>1
<1>7. \A e : Holds(m, e) <=> (\E x \in 1 .. a : l.slot[x] = e) \/ (\E x \in 1 .. b : r.slot[x] = e)
  BY <1>3, <1>4, <1>5, <1>6 DEF Holds
<1> QED BY <1>7 DEF Holds, m, a, b

(***************************************************************************)
(* What the steps that change the tree do to the records in its leaves.    *)
(***************************************************************************)
(* No other leaf holds a record of this one.                               *)
LEMMA HeldOnce ==
    ASSUME PageType, TreeOK, NEW p \in Leaves, NEW q \in Leaves, NEW e,
           Holds(page[p], e), Holds(page[q], e)
    PROVE  p = q
<1>1. /\ e.key \in Bytes
      /\ InFences(e.key, page[p].lower, page[p].upper)
      /\ InFences(e.key, page[q].lower, page[q].upper)
  BY LeafFacts DEF Holds
<1> QED BY <1>1 DEF TreeOK, LeavesApart

LEMMA LeafChanged ==
    ASSUME PageType, NEW x \in Leaves, NEW n \in Page, IsLeaf(n),
           page' = [page EXCEPT ![x] = n], PageType'
    PROVE  \A e : e \in Entries' <=> Holds(n, e) \/ \E p \in Leaves \ {x} : Holds(page[p], e)
<1>1. x \in Pages /\ IsLeaf(page[x])
  BY DEF Leaves
<1>2. /\ Pages' = Pages /\ page'[x] = n
      /\ \A q \in Pages \ {x} : page'[q] = page[q]
  BY <1>1 DEF PageType, Pages
<1>3. Leaves' = Leaves
  BY <1>1, <1>2 DEF Leaves
<1>4. \A q \in Leaves \ {x} : page'[q] = page[q]
  BY <1>2 DEF Leaves
<1> QED BY <1>2, <1>3, <1>4, EntryIffNext

LEMMA InsertEntries ==
    ASSUME PageType, NEW x \in Leaves, NEW i \in 1 .. Count(page[x]) + 1,
           NEW k \in Key, NEW v \in Val,
           NEW n \in Page, IsLeaf(n), n = InsertSlot(page[x], i, k, v),
           page' = [page EXCEPT ![x] = n], PageType'
    PROVE  Entries' = Entries \cup {Record(k, v)}
<1>1. page[x] \in Page /\ IsLeaf(page[x])
  BY DEF PageType, Leaves
<1>2. \A e : Holds(n, e) <=> Holds(page[x], e) \/ e = Record(k, v)
  BY <1>1, InsertHolds
<1>3. \A e : e \in Entries' <=> Holds(n, e) \/ \E p \in Leaves \ {x} : Holds(page[p], e)
  BY LeafChanged
<1>4. \A e : e \in Entries <=> \E p \in Leaves : Holds(page[p], e)
  BY EntryIff
<1>5. \A e : e \in Entries' <=> e \in Entries \/ e = Record(k, v)
  BY <1>2, <1>3, <1>4
<1> QED BY <1>5

LEMMA RemoveEntries ==
    ASSUME PageType, TreeOK, NEW x \in Leaves, NEW i \in 1 .. Count(page[x]),
           NEW n \in Page, IsLeaf(n), n = RemoveSlot(page[x], i),
           page' = [page EXCEPT ![x] = n], PageType'
    PROVE  Entries' = Entries \ {page[x].slot[i]}
<1> DEFINE r == page[x].slot[i]
<1>1. page[x] \in Page /\ IsLeaf(page[x]) /\ PageOK(page[x])
  BY LeafFacts
<1>2. \A e : Holds(n, e) <=> Holds(page[x], e) /\ e # r
  BY <1>1, RemoveHolds
<1>3. \A e : e \in Entries' <=> Holds(n, e) \/ \E p \in Leaves \ {x} : Holds(page[p], e)
  BY LeafChanged
<1>4. \A e : e \in Entries <=> \E p \in Leaves : Holds(page[p], e)
  BY EntryIff
<1>5. \A p \in Leaves \ {x} : ~Holds(page[p], r)
  <2>1. Holds(page[x], r)
    BY DEF Holds
  <2> QED BY <2>1, HeldOnce
<1> HIDE DEF r
<1>6. \A e : e \in Entries' <=> e \in Entries /\ e # r
  BY <1>2, <1>3, <1>4, <1>5
<1> QED BY <1>6 DEF r

LEMMA RootEntries ==
    ASSUME PageType, PageType', NEW p, p \notin Pages, NEW n, ~IsLeaf(n),
           page' = [q \in DOMAIN page \cup {p} |-> IF q = p THEN n ELSE page[q]]
    PROVE  Entries' = Entries
<1>1. /\ Pages' = Pages \cup {p} /\ page'[p] = n
      /\ \A q \in Pages : page'[q] = page[q]
  BY DEF Pages
<1>2. Leaves' = Leaves /\ \A q \in Leaves : page'[q] = page[q]
  BY <1>1 DEF Leaves
<1>3. \A e : e \in Entries' <=> e \in Entries
  BY <1>2, EntryIff, EntryIffNext
<1> QED BY <1>3

(* A split moves records, it neither loses nor copies one.                 *)
LEMMA SplitEntries ==
    ASSUME PageType, TreeOK, PageType',
           NEW x \in Pages, NEW p \in Inners, NEW left, left \notin Pages, x # p,
           Count(page[x]) > 1, NEW s, s = FindSeparator(page[x]), s.at >= 2,
           NEW m, ~IsLeaf(m),
           page' = [q \in DOMAIN page \cup {left} |->
                       CASE q = left -> SplitLeft(page[x], s)
                         [] q = x    -> SplitRight(page[x], s)
                         [] q = p    -> m
                         [] OTHER    -> page[q]]
    PROVE  Entries' = Entries
<1> DEFINE n == page[x]
           l == SplitLeft(n, s)
           r == SplitRight(n, s)
<1>1. n \in Page /\ PageOK(n) /\ p \in Pages /\ ~IsLeaf(page[p]) /\ x # left /\ p # left
  BY DEF PageType, TreeOK, KeysInFences, Inners
<1>2. (IsLeaf(l) <=> IsLeaf(n)) /\ (IsLeaf(r) <=> IsLeaf(n))
  BY <1>1, SplitLeftOK, SplitRightOK
<1>3. IsLeaf(n) => \A e : Holds(l, e) \/ Holds(r, e) <=> Holds(n, e)
  BY <1>1, SplitHolds
<1> HIDE DEF l, r
<1>4. /\ Pages' = Pages \cup {left}
      /\ page'[left] = l /\ page'[x] = r /\ page'[p] = m
      /\ \A q \in Pages \ {x, p} : page'[q] = page[q]
  <2>1. DOMAIN page = Pages /\ x \in Pages
    BY DEF Pages
  <2> QED BY <1>1, <2>1 DEF Pages, l, r, n
<1>5. CASE IsLeaf(n)
  <2>1. Leaves' = Leaves \cup {left} /\ x \in Leaves /\ p \notin Leaves /\ left \notin Leaves
    BY <1>1, <1>2, <1>4, <1>5 DEF Leaves
  <2>2. \A q \in Leaves \ {x} : page'[q] = page[q] /\ q \in Leaves'
    BY <1>4, <2>1 DEF Leaves
  <2>3. \A e : e \in Entries' <=> \/ Holds(l, e) \/ Holds(r, e)
                                  \/ \E q \in Leaves \ {x} : Holds(page[q], e)
    BY <1>4, <2>1, <2>2, EntryIffNext
  <2>4. \A e : e \in Entries <=> Holds(n, e) \/ \E q \in Leaves \ {x} : Holds(page[q], e)
    BY <2>1, EntryIff
  <2>5. \A e : e \in Entries' <=> e \in Entries
    BY <1>3, <1>5, <2>3, <2>4
  <2> QED BY <2>5
<1>6. CASE ~IsLeaf(n)
  <2>1. Leaves' = Leaves /\ x \notin Leaves /\ p \notin Leaves
    BY <1>1, <1>2, <1>4, <1>6 DEF Leaves
  <2>2. \A q \in Leaves : page'[q] = page[q]
    BY <1>4, <2>1 DEF Leaves
  <2>3. \A e : e \in Entries' <=> e \in Entries
    BY <2>1, <2>2, EntryIff, EntryIffNext
  <2> QED BY <2>3
<1> QED BY <1>5, <1>6

(* A merge moves the records that are left into the right neighbour.       *)
LEMMA MergeEntries ==
    ASSUME PageType, TreeOK, PageType',
           NEW x \in Leaves, NEW y \in Leaves, x # y, NEW p \in Inners,
           NEW i \in 1 .. Count(page[x]),
           NEW n \in Page, IsLeaf(n), n = RemoveSlot(page[x], i),
           NEW m, ~IsLeaf(m),
           page' = [q \in DOMAIN page \ {x} |->
                       CASE q = p   -> m
                         [] q = y   -> Merged(n, page[y])
                         [] OTHER   -> page[q]]
    PROVE  Entries' = Entries \ {page[x].slot[i]}
<1> DEFINE r == page[x].slot[i]
           w == Merged(n, page[y])
<1>1. /\ page[x] \in Page /\ IsLeaf(page[x]) /\ PageOK(page[x])
      /\ page[y] \in Page /\ IsLeaf(page[y]) /\ x \in Pages /\ y \in Pages
      /\ p \in Pages /\ p \notin Leaves /\ p # x /\ p # y
  <2>1. p \in Pages /\ p \notin Leaves
    BY DEF Inners, Leaves
  <2> QED BY <2>1, LeafFacts
<1>2. \A e : Holds(n, e) <=> Holds(page[x], e) /\ e # r
  BY <1>1, RemoveHolds
<1>3. \A e : Holds(w, e) <=> Holds(n, e) \/ Holds(page[y], e)
  BY <1>1, MergeHolds
<1>4. IsLeaf(w)
  BY DEF Merged, Leaf, IsLeaf
<1>5. \A q \in Leaves \ {x} : ~Holds(page[q], r)
  <2>1. Holds(page[x], r)
    BY DEF Holds
  <2> QED BY <2>1, HeldOnce
<1> HIDE DEF w, r
<1>6. /\ Pages' = Pages \ {x} /\ page'[p] = m /\ page'[y] = w
      /\ \A q \in Pages \ {x, y, p} : page'[q] = page[q]
  BY <1>1 DEF Pages, w
<1>7. Leaves' = Leaves \ {x} /\ \A q \in Leaves \ {x, y} : page'[q] = page[q]
  BY <1>1, <1>4, <1>6 DEF Leaves
<1>8. \A e : e \in Entries' <=> Holds(w, e) \/ \E q \in Leaves \ {x, y} : Holds(page[q], e)
  BY <1>6, <1>7, EntryIffNext
<1>9. \A e : e \in Entries <=> \/ Holds(page[x], e) \/ Holds(page[y], e)
                               \/ \E q \in Leaves \ {x, y} : Holds(page[q], e)
  BY EntryIff
<1>10. \A e : e \in Entries' <=> e \in Entries /\ e # r
  BY <1>2, <1>3, <1>5, <1>8, <1>9
<1> QED BY <1>10 DEF r

LEMMA SameEntries ==
    ASSUME UNCHANGED tree
    PROVE  Entries' = Entries /\ Leaves' = Leaves /\ Contents' = Contents
BY DEF tree, Entries, Leaves, Pages, Contents

(***************************************************************************)
(* Scans.  An order is a set of pairs of keys, so that what is said of the *)
(* two directions is said once.                                            *)
(***************************************************************************)
Ascending  == {p \in Bytes \X Bytes : Less(p[1], p[2])}
Descending == {p \in Bytes \X Bytes : Less(p[2], p[1])}

Listed(recs, e) == \E i \in 1 .. Len(recs) : recs[i] = e

InOrder(recs, O) ==
    \A i, j \in 1 .. Len(recs) : i < j => <<recs[i].key, recs[j].key>> \in O

Reach(start, k, O) == k = start \/ <<start, k>> \in O

(* recs answers a scan of the records in E (Store!IsScan).                 *)
ScanOf(E, recs, start, limit, O) ==
    /\ \A i \in 1 .. Len(recs) :
          /\ Reach(start, recs[i].key, O)
          /\ MapOf(E)[recs[i].key] # NoVal
          /\ recs[i].val = MapOf(E)[recs[i].key]
    /\ InOrder(recs, O)
    /\ \A k \in Key :
          /\ \A i \in 1 .. Len(recs) : recs[i].key # k
          /\ MapOf(E)[k] # NoVal
          /\ Reach(start, k, O)
          => Len(recs) = limit /\ <<recs[limit].key, k>> \in O

(* A scan may stop in a leaf when it has listed all there is on this side  *)
(* of the leaf's far fence, and either has enough or there is no fence.    *)
LEMMA ScanAnswer ==
    ASSUME NEW E, OnePerKey(E), NEW O, NEW start, NEW limit \in Nat \ {0},
           NEW all \in Seq(LeafSlot), InOrder(all, O),
           NEW B,
           \A e : Listed(all, e) <=> e \in E /\ Reach(start, e.key, O) /\ e.key \in B,
           \A k, l \in Key : k \in B /\ l \notin B => <<k, l>> \in O,
           NEW recs,
           \/ Len(all) >= limit /\ recs = SubSeq(all, 1, limit)
           \/ Len(all) < limit /\ Key \subseteq B /\ recs = all
    PROVE  ScanOf(E, recs, start, limit, O)
<1>0. Len(all) \in Nat /\ \A i \in 1 .. Len(all) : all[i] \in LeafSlot /\ Listed(all, all[i])
  BY LenProperties, ElementOfSeq DEF Listed
<1>1. /\ Len(recs) \in Nat /\ Len(recs) <= Len(all)
      /\ \A i \in 1 .. Len(recs) : recs[i] = all[i]
      /\ Len(recs) # limit => recs = all /\ Key \subseteq B
  <2>1. CASE Len(all) >= limit /\ recs = SubSeq(all, 1, limit)
    <3>1. Len(recs) = limit /\ \A i \in 1 .. limit : recs[i] = all[i]
      <4>1. 1 \in 1 .. Len(all) + 1 /\ limit \in 1 - 1 .. Len(all) /\ limit \in Nat
        BY <1>0, <2>1
      <4>2. /\ Len(SubSeq(all, 1, limit)) = limit - 1 + 1
            /\ \A i \in 1 .. limit - 1 + 1 : SubSeq(all, 1, limit)[i] = all[1 + i - 1]
        BY <4>1, SubSeqProperties
      <4> QED BY <2>1, <4>1, <4>2
    <3> QED BY <2>1, <3>1
  <2>2. CASE Len(all) < limit /\ Key \subseteq B /\ recs = all
    BY <1>0, <2>2
  <2> QED BY <2>1, <2>2
<1>2. ASSUME NEW i \in 1 .. Len(recs)
      PROVE  /\ Reach(start, recs[i].key, O)
             /\ MapOf(E)[recs[i].key] # NoVal
             /\ recs[i].val = MapOf(E)[recs[i].key]
  <2>1. i \in 1 .. Len(all) /\ recs[i] = all[i]
    BY <1>0, <1>1
  <2>2. all[i] \in E /\ Reach(start, all[i].key, O)
    BY <1>0, <2>1
  <2> QED BY <2>1, <2>2, MapOfPresent
<1>3. InOrder(recs, O)
  <2>1. \A i \in 1 .. Len(recs) : i \in 1 .. Len(all) /\ recs[i] = all[i]
    BY <1>0, <1>1
  <2> QED BY <2>1 DEF InOrder
<1>4. ASSUME NEW k \in Key, \A i \in 1 .. Len(recs) : recs[i].key # k,
             MapOf(E)[k] # NoVal, Reach(start, k, O)
      PROVE  Len(recs) = limit /\ <<recs[limit].key, k>> \in O
  <2>1. PICK e \in E : e.key = k
    BY <1>4, MapOfMissing
  <2>2. CASE k \in B
    <3>1. PICK i \in 1 .. Len(all) : all[i] = e
      BY <1>4, <2>1, <2>2 DEF Listed
    <3>2. ~ (i \in 1 .. Len(recs)) /\ Len(recs) # Len(all)
      BY <1>1, <1>4, <2>1, <3>1
    <3>3. Len(recs) = limit
      BY <1>1, <3>2
    <3>4. limit \in 1 .. Len(all) /\ limit \in 1 .. Len(recs) /\ limit < i
      BY <1>0, <1>1, <3>1, <3>2, <3>3
    <3> QED BY <1>1, <2>1, <3>1, <3>3, <3>4 DEF InOrder
  <2>3. CASE k \notin B
    <3>1. Len(recs) = limit
      BY <1>1, <2>3
    <3>2. limit \in 1 .. Len(recs) /\ limit \in 1 .. Len(all) /\ recs[limit] = all[limit]
      BY <1>0, <1>1, <3>1
    <3>3. all[limit].key \in B /\ all[limit].key \in Key
      BY <1>0, <3>2, RecordFacts
    <3> QED BY <2>3, <3>1, <3>2, <3>3
  <2> QED BY <2>2, <2>3
<1> QED BY <1>2, <1>3, <1>4 DEF ScanOf

(* What a scan has listed before this leaf comes before what it meets here.*)
LEMMA ConcatInOrder ==
    ASSUME NEW O, NEW a \in Seq(LeafSlot), NEW b \in Seq(LeafSlot),
           InOrder(a, O), InOrder(b, O),
           \A e, f : Listed(a, e) /\ Listed(b, f) => <<e.key, f.key>> \in O
    PROVE  /\ a \o b \in Seq(LeafSlot)
           /\ InOrder(a \o b, O)
           /\ \A e : Listed(a \o b, e) <=> Listed(a, e) \/ Listed(b, e)
<1> DEFINE q == a \o b
           m == Len(a)
           n == Len(b)
<1>0. m \in Nat /\ n \in Nat
  BY LenProperties
<1>1. /\ q \in Seq(LeafSlot) /\ Len(q) = m + n
      /\ \A j \in 1 .. m + n : q[j] = IF j <= m THEN a[j] ELSE b[j - m]
  BY ConcatProperties
<1> HIDE DEF q, m, n
<1>2. ASSUME NEW j \in 1 .. m + n
      PROVE  \/ j \in 1 .. m /\ q[j] = a[j]
             \/ j > m /\ j - m \in 1 .. n /\ q[j] = b[j - m]
  BY <1>0, <1>1
<1>3. \A j \in 1 .. m : j \in 1 .. m + n /\ q[j] = a[j]
  BY <1>0, <1>1
<1>4. \A j \in 1 .. n : j + m \in 1 .. m + n /\ q[j + m] = b[j]
  <2> TAKE j \in 1 .. n
  <2>1. j + m \in 1 .. m + n /\ ~ (j + m <= m) /\ (j + m) - m = j
    BY <1>0
  <2> QED BY <1>1, <2>1
<1>5. \A e : Listed(q, e) <=> Listed(a, e) \/ Listed(b, e)
  BY <1>1, <1>2, <1>3, <1>4 DEF Listed, m, n
<1>6. ASSUME NEW i \in 1 .. m + n, NEW j \in 1 .. m + n, i < j
      PROVE  <<q[i].key, q[j].key>> \in O
  <2>1. CASE j \in 1 .. m /\ q[j] = a[j]
    <3>1. i \in 1 .. m /\ q[i] = a[i]
      BY <1>0, <1>2, <1>6, <2>1
    <3> QED BY <1>6, <2>1, <3>1 DEF InOrder, m
  <2>2. CASE j > m /\ j - m \in 1 .. n /\ q[j] = b[j - m]
    <3>1. CASE i \in 1 .. m /\ q[i] = a[i]
      BY <2>2, <3>1 DEF Listed, m, n
    <3>2. CASE i > m /\ i - m \in 1 .. n /\ q[i] = b[i - m]
      <4>1. i - m < j - m
        BY <1>0, <1>6
      <4> QED BY <2>2, <3>2, <4>1 DEF InOrder, n
    <3> QED BY <1>2, <3>1, <3>2
  <2> QED BY <1>2, <2>1, <2>2
<1>7. InOrder(q, O)
  BY <1>1, <1>6 DEF InOrder
<1> QED BY <1>1, <1>5, <1>7 DEF q

LEMMA InAscending ==
    ASSUME NEW a \in Bytes, NEW b \in Bytes
    PROVE  /\ <<a, b>> \in Ascending <=> Less(a, b)
           /\ <<a, b>> \in Descending <=> Less(b, a)
BY DEF Ascending, Descending

(* One of slots f to m of page n.                                          *)
Among(n, f, m, e) == \E i \in f .. m : n.slot[i] = e

(* A leaf's slots from index f on ...                                      *)
LEMMA SlotsUp ==
    ASSUME NEW n \in Page, IsLeaf(n), PageOK(n), NEW f \in 1 .. Count(n) + 1,
           NEW recs, recs = SubSeq(n.slot, f, Count(n))
    PROVE  /\ recs \in Seq(LeafSlot)
           /\ InOrder(recs, Ascending)
           /\ \A e : Listed(recs, e) <=> Among(n, f, Count(n), e)
<1> DEFINE q == n.slot
           c == Count(n)
<1>1. /\ c \in Nat /\ c = Len(q) /\ q \in Seq(LeafSlot)
      /\ \A i \in 1 .. c : q[i].key \in Bytes
  BY PageFacts DEF Count
<1>2. \A x, y \in 1 .. c : x < y => Less(q[x].key, q[y].key)
  BY DEF PageOK
<1>3. f \in 1 .. c + 1 /\ recs = SubSeq(q, f, c)
  OBVIOUS
<1> HIDE DEF q, c
<1>4. /\ recs \in Seq(LeafSlot) /\ Len(recs) = c - f + 1
      /\ \A i \in 1 .. c - f + 1 : recs[i] = q[f + i - 1]
  <2>1. f \in 1 .. Len(q) + 1 /\ c \in f - 1 .. Len(q)
    BY <1>1, <1>3
  <2> QED BY <1>1, <1>3, <2>1, SubSeqProperties
<1>5. \A i \in 1 .. c - f + 1 : f + i - 1 \in f .. c /\ f + i - 1 \in 1 .. c
  BY <1>1, <1>3
<1>6. InOrder(recs, Ascending)
  <2> SUFFICES ASSUME NEW i \in 1 .. c - f + 1, NEW j \in 1 .. c - f + 1, i < j
               PROVE  <<recs[i].key, recs[j].key>> \in Ascending
    BY <1>4 DEF InOrder
  <2>1. f + i - 1 < f + j - 1
    BY <1>3
  <2> QED BY <1>1, <1>2, <1>4, <1>5, <2>1, InAscending
<1>7. ASSUME NEW x \in f .. c
      PROVE  Listed(recs, q[x])
  <2>1. x - f + 1 \in 1 .. c - f + 1 /\ f + (x - f + 1) - 1 = x
    BY <1>1, <1>3
  <2>2. recs[x - f + 1] = q[x]
    BY <1>4, <2>1
  <2> QED BY <1>4, <2>1, <2>2 DEF Listed
<1>8. ASSUME NEW e, Listed(recs, e)
      PROVE  \E i \in f .. c : q[i] = e
  <2>1. PICK i \in 1 .. c - f + 1 : recs[i] = e
    BY <1>4, <1>8 DEF Listed
  <2>2. q[f + i - 1] = e /\ f + i - 1 \in f .. c
    BY <1>4, <1>5, <2>1
  <2> QED BY <2>2
<1>9. \A e : Listed(recs, e) <=> \E i \in f .. c : q[i] = e
  BY <1>7, <1>8
<1> QED BY <1>4, <1>6, <1>9 DEF c, q, Among

(* ... and those up to index m, last one first.                            *)
LEMMA SlotsDown ==
    ASSUME NEW n \in Page, IsLeaf(n), PageOK(n), NEW m \in 0 .. Count(n),
           NEW recs, recs = Reverse(SubSeq(n.slot, 1, m))
    PROVE  /\ recs \in Seq(LeafSlot)
           /\ InOrder(recs, Descending)
           /\ \A e : Listed(recs, e) <=> Among(n, 1, m, e)
<1> DEFINE q == n.slot
           c == Count(n)
           t == SubSeq(q, 1, m)
<1>1. /\ c \in Nat /\ c = Len(q) /\ q \in Seq(LeafSlot)
      /\ \A i \in 1 .. c : q[i].key \in Bytes
  BY PageFacts DEF Count
<1>2. \A x, y \in 1 .. c : x < y => Less(q[x].key, q[y].key)
  BY DEF PageOK
<1>3. m \in 0 .. c /\ recs = Reverse(t)
  OBVIOUS
<1>4. /\ t \in Seq(LeafSlot) /\ Len(t) = m
      /\ \A i \in 1 .. m : t[i] = q[i] /\ t[i] \in LeafSlot
  <2> HIDE DEF q, c
  <2>1. 1 \in 1 .. Len(q) + 1 /\ m \in 1 - 1 .. Len(q) /\ m \in Nat
    BY <1>1, <1>3
  <2>2. /\ t \in Seq(LeafSlot) /\ Len(t) = m - 1 + 1
        /\ \A i \in 1 .. m - 1 + 1 : t[i] = q[1 + i - 1]
    BY <1>1, <2>1, SubSeqProperties
  <2> QED BY <2>1, <2>2, ElementOfSeq
<1> HIDE DEF q, c, t
<1>5. recs = [i \in 1 .. m |-> t[(m - i) + 1]]
  BY <1>3, <1>4 DEF Reverse
<1>6. \A i \in 1 .. m : (m - i) + 1 \in 1 .. m /\ (m - i) + 1 \in 1 .. c
  BY <1>1, <1>3
<1>7. recs \in Seq(LeafSlot) /\ Len(recs) = m /\ \A i \in 1 .. m : recs[i] = q[(m - i) + 1]
  <2>1. m \in Nat /\ \A i \in 1 .. m : t[(m - i) + 1] \in LeafSlot /\ recs[i] = t[(m - i) + 1]
    BY <1>3, <1>4, <1>5, <1>6
  <2>2. recs \in Seq(LeafSlot)
    BY <1>5, <2>1, IsASeq
  <2>3. Len(recs) = m
    BY <1>5, <2>1, <2>2, LenProperties
  <2> QED BY <1>4, <1>6, <2>1, <2>2, <2>3
<1>8. InOrder(recs, Descending)
  <2> SUFFICES ASSUME NEW i \in 1 .. m, NEW j \in 1 .. m, i < j
               PROVE  <<recs[i].key, recs[j].key>> \in Descending
    BY <1>7 DEF InOrder
  <2>1. (m - j) + 1 < (m - i) + 1
    BY <1>3
  <2> QED BY <1>1, <1>2, <1>6, <1>7, <2>1, InAscending
<1>9. ASSUME NEW x \in 1 .. m
      PROVE  Listed(recs, q[x])
  <2>1. (m - x) + 1 \in 1 .. m /\ (m - ((m - x) + 1)) + 1 = x
    BY <1>3
  <2>2. recs[(m - x) + 1] = q[x]
    BY <1>7, <2>1
  <2> QED BY <1>7, <2>1, <2>2 DEF Listed
<1>10. ASSUME NEW e, Listed(recs, e)
       PROVE  \E i \in 1 .. m : q[i] = e
  <2>1. PICK i \in 1 .. m : recs[i] = e
    BY <1>7, <1>10 DEF Listed
  <2>2. q[(m - i) + 1] = e /\ (m - i) + 1 \in 1 .. m
    BY <1>6, <1>7, <2>1
  <2> QED BY <2>2
<1>11. \A e : Listed(recs, e) <=> \E i \in 1 .. m : q[i] = e
  BY <1>9, <1>10
<1> QED BY <1>7, <1>8, <1>11 DEF q, Among

(***************************************************************************)
(* The invariant.  What a running scan has passed to its callback is all   *)
(* that lies between its start key and the key it goes on with, in order.  *)
(* That key is the successor of some leaf's upper fence, or the lower      *)
(* fence itself, when it is not the start key.                             *)
(***************************************************************************)
UpSoFar ==
    /\ Leq(op.key, skey)
    /\ InOrder(out, Ascending)
    /\ {out[i] : i \in 1 .. Len(out)} =
          {e \in Entries : Leq(op.key, e.key) /\ Less(e.key, skey)}
    /\ skey # op.key =>
          \E q \in Leaves : /\ page[q].upper # << >>
                            /\ skey = Successor(page[q].upper)
                            /\ AboveFence(page[q].upper, page[q].lower)

DownSoFar ==
    /\ Leq(skey, op.key)
    /\ InOrder(out, Descending)
    /\ {out[i] : i \in 1 .. Len(out)} =
          {e \in Entries : Leq(e.key, op.key) /\ Less(skey, e.key)}

Scans == {"scan", "scandesc"}

Between ==
    /\ pc = "idle" => op = NoOp
    /\ pc # "idle" => op \in Ops
    /\ op.kind \notin Scans => out = << >>

ScanSoFar ==
    pc = "descend" =>
        /\ op.kind = "scan" => UpSoFar
        /\ op.kind = "scandesc" => DownSoFar

SInv == IInv /\ Between /\ ScanSoFar

(* A scan that goes on from a fence finds no smaller key in the next leaf. *)
LEMMA NoSmallerKey ==
    ASSUME SInv, AtLeaf("scan"), skey # op.key, NEW e, Holds(page[node], e)
    PROVE  Leq(skey, e.key)
<1> DEFINE n == page[node]
<1>1. /\ PageType /\ TreeOK /\ node \in Leaves /\ skey \in Bytes
      /\ InFences(skey, n.lower, n.upper)
  BY AtLeafFacts DEF SInv
<1>2. PICK q \in Leaves : /\ page[q].upper # << >>
                          /\ skey = Successor(page[q].upper)
                          /\ AboveFence(page[q].upper, page[q].lower)
  BY DEF SInv, ScanSoFar, UpSoFar, AtLeaf
<1> DEFINE u == page[q].upper
<1>3. /\ u \in Bytes /\ n.lower \in Bytes /\ n.upper \in Bytes
      /\ e.key \in Bytes /\ InFences(e.key, n.lower, n.upper)
  BY <1>1, <1>2, LeafFacts DEF Holds
<1>4. Less(u, skey) /\ \A k \in Bytes : Less(k, skey) <=> Leq(k, u)
  BY <1>2, <1>3, SuccessorNext
<1>5. u # << >> /\ InFences(u, page[q].lower, u)
  BY <1>2 DEF InFences, BelowFence, Leq
<1>6. SUFFICES ASSUME Less(e.key, skey) PROVE FALSE
  BY <1>1, <1>3, LessTotal DEF Leq
<1>7. Leq(e.key, u)
  BY <1>3, <1>4, <1>6
<1> HIDE DEF u, n
<1>8. AboveFence(u, n.lower)
  BY <1>3, <1>7, LessLeq DEF InFences, AboveFence, Leq
<1>9. n.upper = << >> \/ Less(u, n.upper)
  BY <1>1, <1>3, <1>4, LessLeq DEF InFences, BelowFence
<1>10. InFences(u, n.lower, n.upper)
  BY <1>8, <1>9 DEF InFences, BelowFence, Leq
<1>11. q = node
  BY <1>1, <1>2, <1>3, <1>5, <1>10 DEF TreeOK, LeavesApart, n, u
<1> QED BY <1>3, <1>5, <1>9, <1>11, LessIrreflexive DEF n, u

(* What a scan upwards has listed after the leaf it is in.                 *)
LEMMA UpListed ==
    ASSUME SInv, AtLeaf("scan"), NEW all, all = out \o Upwards(page[node])
    PROVE  /\ all \in Seq(LeafSlot)
           /\ InOrder(all, Ascending)
           /\ \A e : Listed(all, e) <=> /\ e \in Entries
                                        /\ Leq(op.key, e.key)
                                        /\ BelowFence(e.key, page[node].upper)
<1> DEFINE n == page[node]
           recs == Upwards(n)
           f == IF skey = op.key THEN LowerBound(n, skey) ELSE 1
<1>1. /\ PageType /\ TreeOK /\ LocalType /\ node \in Leaves
      /\ n \in Page /\ PageOK(n) /\ IsLeaf(n) /\ Count(n) \in Nat
      /\ skey \in Bytes /\ InFences(skey, n.lower, n.upper)
      /\ LowerBound(n, skey) \in 1 .. Count(n) + 1
  BY AtLeafFacts DEF SInv
<1>2. op.kind = "scan" /\ op.key \in Bytes /\ UpSoFar
  <2>1. op.key \in Bytes
    BY <1>1, OpFacts DEF LocalType
  <2> QED BY <2>1 DEF AtLeaf, SInv, ScanSoFar
<1>3. f \in 1 .. Count(n) + 1 /\ recs = SubSeq(n.slot, f, Count(n))
  BY <1>1 DEF Upwards
<1>4. /\ recs \in Seq(LeafSlot)
      /\ InOrder(recs, Ascending)
      /\ \A e : Listed(recs, e) <=> \E i \in f .. Count(n) : n.slot[i] = e
  <2>1. /\ n \in Page /\ PageOK(n) /\ IsLeaf(n) /\ f \in 1 .. Count(n) + 1
        /\ recs = SubSeq(n.slot, f, Count(n))
    BY <1>1, <1>3
  <2> HIDE DEF recs, f, n
  <2>2. /\ recs \in Seq(LeafSlot) /\ InOrder(recs, Ascending)
        /\ \A e : Listed(recs, e) <=> Among(n, f, Count(n), e)
    BY ONLY <2>1, SlotsUp
  <2> QED BY <2>2 DEF Among
<1>5. \A i \in 1 .. Count(n) : n.slot[i].key \in Bytes /\ Holds(n, n.slot[i])
  BY <1>1, LeafFacts DEF Holds
<1>6. \A e : Listed(recs, e) <=> Holds(n, e) /\ Leq(skey, e.key)
  <2>1. CASE skey = op.key
    <3>1. /\ \A i \in 1 .. (f - 1) : Less(n.slot[i].key, skey)
          /\ \A i \in f .. Count(n) : Leq(skey, n.slot[i].key)
      BY <1>1, <2>1, LowerBoundProperties
    <3>2. \A i \in 1 .. Count(n) : Leq(skey, n.slot[i].key) <=> i \in f .. Count(n)
      <4> TAKE i \in 1 .. Count(n)
      <4>1. i \in f .. Count(n) \/ i \in 1 .. (f - 1)
        BY <1>1, <1>3
      <4>2. i \in 1 .. (f - 1) => ~ Leq(skey, n.slot[i].key)
        BY <1>1, <1>5, <3>1, NotBoth
      <4> QED BY <3>1, <4>1, <4>2
    <3> HIDE DEF f, recs, n
    <3>3. f .. Count(n) \subseteq 1 .. Count(n)
      BY <1>1, <1>3
    <3> QED BY <1>4, <3>2, <3>3 DEF Holds
  <2>2. CASE skey # op.key
    <3>1. \A e : Holds(n, e) => Leq(skey, e.key)
      BY <2>2, NoSmallerKey
    <3> QED BY <1>4, <2>2, <3>1 DEF Holds
  <2> QED BY <2>1, <2>2
<1>7. out \in Seq(LeafSlot) /\ InOrder(out, Ascending)
      /\ \A e : Listed(out, e) <=> e \in Entries /\ Leq(op.key, e.key) /\ Less(e.key, skey)
  BY <1>1, <1>2 DEF LocalType, UpSoFar, Listed
<1> HIDE DEF recs, f, n
<1>8. /\ \A e \in Entries : e.key \in Bytes
      /\ \A e : Holds(n, e) => e \in Entries /\ InFences(e.key, n.lower, n.upper)
      /\ n.lower \in Bytes /\ n.upper \in Bytes
  <2>1. \A e \in Entries : e.key \in Bytes
    BY <1>1, EntriesOnePerKey, RecordFacts DEF OnePerKey
  <2>2. \A e : Holds(n, e) => e \in Entries /\ InFences(e.key, n.lower, n.upper)
    BY <1>1, LeafFacts DEF Holds, n
  <2> QED BY <1>1, <2>1, <2>2, PageFacts
<1>9. \A e, g : Listed(out, e) /\ Listed(recs, g) => <<e.key, g.key>> \in Ascending
  <2> SUFFICES ASSUME NEW e, NEW g, Listed(out, e), Listed(recs, g)
               PROVE  <<e.key, g.key>> \in Ascending
    OBVIOUS
  <2>1. e.key \in Bytes /\ g.key \in Bytes /\ Less(e.key, skey) /\ Leq(skey, g.key)
    BY <1>6, <1>7, <1>8
  <2> QED BY <1>1, <2>1, LessLeq, InAscending
<1>10. /\ all \in Seq(LeafSlot) /\ InOrder(all, Ascending)
       /\ \A e : Listed(all, e) <=> Listed(out, e) \/ Listed(recs, e)
  <2>1. all = out \o recs
    BY DEF recs, n
  <2> QED BY <1>4, <1>7, <1>9, <2>1, ConcatInOrder
<1>11. ASSUME NEW e \in Entries, Leq(op.key, e.key), BelowFence(e.key, n.upper)
       PROVE  Listed(out, e) \/ Listed(recs, e)
  <2>1. CASE Less(e.key, skey)
    BY <1>7, <1>11, <2>1
  <2>2. CASE ~Less(e.key, skey)
    <3>1. e.key \in Bytes /\ Leq(skey, e.key)
      BY <1>1, <1>8, <2>2, LessTotal DEF Leq
    <3>2. AboveFence(e.key, n.lower)
      BY <1>1, <1>8, <3>1, LessLeq DEF InFences, AboveFence
    <3>3. Holds(n, e)
      BY <1>1, <1>11, <3>2, EntryInLeaf DEF InFences, n
    <3> QED BY <1>6, <3>1, <3>3
  <2> QED BY <2>1, <2>2
<1>12. ASSUME NEW e, Listed(out, e)
       PROVE  e \in Entries /\ Leq(op.key, e.key) /\ BelowFence(e.key, n.upper)
  <2>1. e \in Entries /\ e.key \in Bytes /\ Leq(op.key, e.key) /\ Less(e.key, skey)
    BY <1>7, <1>8, <1>12
  <2> QED BY <1>1, <1>8, <2>1, LessLeq DEF InFences, BelowFence, Leq
<1>13. ASSUME NEW e, Listed(recs, e)
       PROVE  e \in Entries /\ Leq(op.key, e.key) /\ BelowFence(e.key, n.upper)
  <2>1. e \in Entries /\ e.key \in Bytes /\ Leq(skey, e.key) /\ BelowFence(e.key, n.upper)
    BY <1>6, <1>8, <1>13 DEF InFences
  <2>2. Leq(op.key, skey)
    BY <1>2 DEF UpSoFar
  <2> QED BY <1>1, <1>2, <2>1, <2>2, LeqLeq
<1> QED BY <1>10, <1>11, <1>12, <1>13 DEF n

(* What a scan downwards has listed after the leaf it is in.               *)
LEMMA DownListed ==
    ASSUME SInv, AtLeaf("scandesc"), NEW all, all = out \o Downwards(page[node])
    PROVE  /\ all \in Seq(LeafSlot)
           /\ InOrder(all, Descending)
           /\ \A e : Listed(all, e) <=> /\ e \in Entries
                                        /\ Leq(e.key, op.key)
                                        /\ AboveFence(e.key, page[node].lower)
<1> DEFINE n == page[node]
           recs == Downwards(n)
           i0 == LowerBound(n, skey)
           m == IF FoundAt(n, skey, i0) THEN i0 ELSE i0 - 1
<1>1. /\ PageType /\ TreeOK /\ LocalType /\ node \in Leaves
      /\ n \in Page /\ PageOK(n) /\ IsLeaf(n) /\ Count(n) \in Nat
      /\ skey \in Bytes /\ InFences(skey, n.lower, n.upper)
      /\ i0 \in 1 .. Count(n) + 1
  BY AtLeafFacts DEF SInv
<1>2. op.kind = "scandesc" /\ op.key \in Bytes /\ DownSoFar
  <2>1. op.key \in Bytes
    BY <1>1, OpFacts DEF LocalType
  <2> QED BY <2>1 DEF AtLeaf, SInv, ScanSoFar
<1>3. m \in 0 .. Count(n) /\ recs = Reverse(SubSeq(n.slot, 1, m))
  BY <1>1 DEF Downwards, FoundAt
<1>4. /\ recs \in Seq(LeafSlot)
      /\ InOrder(recs, Descending)
      /\ \A e : Listed(recs, e) <=> \E i \in 1 .. m : n.slot[i] = e
  <2>1. /\ n \in Page /\ PageOK(n) /\ IsLeaf(n) /\ m \in 0 .. Count(n)
        /\ recs = Reverse(SubSeq(n.slot, 1, m))
    BY <1>1, <1>3
  <2> HIDE DEF recs, m, n
  <2>2. /\ recs \in Seq(LeafSlot) /\ InOrder(recs, Descending)
        /\ \A e : Listed(recs, e) <=> Among(n, 1, m, e)
    BY ONLY <2>1, SlotsDown
  <2> QED BY <2>2 DEF Among
<1>5. \A i \in 1 .. Count(n) : n.slot[i].key \in Bytes /\ Holds(n, n.slot[i])
  BY <1>1, LeafFacts DEF Holds
<1>6. \A e : Listed(recs, e) <=> Holds(n, e) /\ Leq(e.key, skey)
  <2>1. /\ \A i \in 1 .. (i0 - 1) : Less(n.slot[i].key, skey)
        /\ \A i \in i0 .. Count(n) : Leq(skey, n.slot[i].key)
    BY <1>1, LowerBoundProperties
  <2>2. \A i, j \in 1 .. Count(n) : i < j => Less(n.slot[i].key, n.slot[j].key)
    BY <1>1 DEF PageOK
  <2>3. ASSUME NEW i \in 1 .. Count(n)
        PROVE  Leq(n.slot[i].key, skey) <=> i \in 1 .. m
    <3>1. CASE i \in 1 .. (i0 - 1)
      <4>1. i \in 1 .. m
        BY <1>1, <3>1
      <4> QED BY <2>1, <3>1, <4>1 DEF Leq
    <3>2. CASE i = i0 /\ n.slot[i].key = skey
      <4>1. FoundAt(n, skey, i0)
        BY <1>1, <3>2 DEF FoundAt
      <4> QED BY <1>1, <3>2, <4>1 DEF Leq
    <3>3. CASE i = i0 /\ n.slot[i].key # skey
      <4>1. ~FoundAt(n, skey, i0)
        BY <3>3 DEF FoundAt
      <4>2. Less(skey, n.slot[i].key)
        BY <1>1, <2>1, <3>3 DEF Leq
      <4> QED BY <1>1, <1>5, <3>3, <4>1, <4>2, NotBoth
    <3>4. CASE i > i0
      <4>1. i0 \in 1 .. Count(n) /\ i0 \in i0 .. Count(n)
        BY <1>1, <3>4
      <4>2. Less(skey, n.slot[i].key)
        BY <1>1, <1>5, <2>1, <2>2, <3>4, <4>1, LeqLess
      <4>3. i \notin 1 .. m
        BY <1>1, <3>4
      <4> QED BY <1>1, <1>5, <4>2, <4>3, NotBoth
    <3> QED BY <1>1, <3>1, <3>2, <3>3, <3>4
  <2> HIDE DEF m, recs, n, i0
  <2>4. 1 .. m \subseteq 1 .. Count(n)
    BY <1>1, <1>3
  <2> QED BY <1>4, <2>3, <2>4 DEF Holds
<1>7. out \in Seq(LeafSlot) /\ InOrder(out, Descending)
      /\ \A e : Listed(out, e) <=> e \in Entries /\ Leq(e.key, op.key) /\ Less(skey, e.key)
  BY <1>1, <1>2 DEF LocalType, DownSoFar, Listed
<1> HIDE DEF recs, m, n, i0
<1>8. /\ \A e \in Entries : e.key \in Bytes
      /\ \A e : Holds(n, e) => e \in Entries /\ InFences(e.key, n.lower, n.upper)
      /\ n.lower \in Bytes /\ n.upper \in Bytes
  <2>1. \A e \in Entries : e.key \in Bytes
    BY <1>1, EntriesOnePerKey, RecordFacts DEF OnePerKey
  <2>2. \A e : Holds(n, e) => e \in Entries /\ InFences(e.key, n.lower, n.upper)
    BY <1>1, LeafFacts DEF Holds, n
  <2> QED BY <1>1, <2>1, <2>2, PageFacts
<1>9. \A e, g : Listed(out, e) /\ Listed(recs, g) => <<e.key, g.key>> \in Descending
  <2> SUFFICES ASSUME NEW e, NEW g, Listed(out, e), Listed(recs, g)
               PROVE  <<e.key, g.key>> \in Descending
    OBVIOUS
  <2>1. e.key \in Bytes /\ g.key \in Bytes /\ Less(skey, e.key) /\ Leq(g.key, skey)
    BY <1>6, <1>7, <1>8
  <2> QED BY <1>1, <2>1, LeqLess, InAscending
<1>10. /\ all \in Seq(LeafSlot) /\ InOrder(all, Descending)
       /\ \A e : Listed(all, e) <=> Listed(out, e) \/ Listed(recs, e)
  <2>1. all = out \o recs
    BY DEF recs, n
  <2> QED BY <1>4, <1>7, <1>9, <2>1, ConcatInOrder
<1>11. ASSUME NEW e \in Entries, Leq(e.key, op.key), AboveFence(e.key, n.lower)
       PROVE  Listed(out, e) \/ Listed(recs, e)
  <2>1. CASE Less(skey, e.key)
    BY <1>7, <1>11, <2>1
  <2>2. CASE ~Less(skey, e.key)
    <3>1. e.key \in Bytes /\ Leq(e.key, skey)
      BY <1>1, <1>8, <2>2, LessTotal DEF Leq
    <3>2. BelowFence(e.key, n.upper)
      BY <1>1, <1>8, <3>1, LeqLeq DEF InFences, BelowFence
    <3>3. Holds(n, e)
      BY <1>1, <1>11, <3>2, EntryInLeaf DEF InFences, n
    <3> QED BY <1>6, <3>1, <3>3
  <2> QED BY <2>1, <2>2
<1>12. ASSUME NEW e, Listed(out, e)
       PROVE  e \in Entries /\ Leq(e.key, op.key) /\ AboveFence(e.key, n.lower)
  <2>1. e \in Entries /\ e.key \in Bytes /\ Leq(e.key, op.key) /\ Less(skey, e.key)
    BY <1>7, <1>8, <1>12
  <2> QED BY <1>1, <1>8, <2>1, LessTransitive DEF InFences, AboveFence
<1>13. ASSUME NEW e, Listed(recs, e)
       PROVE  e \in Entries /\ Leq(e.key, op.key) /\ AboveFence(e.key, n.lower)
  <2>1. e \in Entries /\ e.key \in Bytes /\ Leq(e.key, skey) /\ AboveFence(e.key, n.lower)
    BY <1>6, <1>8, <1>13 DEF InFences
  <2>2. Leq(skey, op.key)
    BY <1>2 DEF DownSoFar
  <2> QED BY <1>1, <1>2, <2>1, <2>2, LeqLeq
<1> QED BY <1>10, <1>11, <1>12, <1>13 DEF n

(***************************************************************************)
(* The steps as KVStore sees them.                                         *)
(***************************************************************************)
Rest == Between /\ ScanSoFar

Invisible == UNCHANGED <<Contents, Request, res>>

LEMMA StoreNames ==
    /\ Store!NoOp = NoOp /\ Store!Ops = Ops /\ Store!NoAnswer = NoAnswer
    /\ \A f, v, r : Store!Answer(f, v, r) = Answer(f, v, r)
BY DEF Store!NoOp, Store!Ops, Store!NoAnswer, Store!Answer, Store!Op,
       NoOp, Ops, InsertOps, PointOps, ScanOps, NoAnswer, Answer, Op

(* KVStore brings its own copy of the order of keys.                       *)
LEMMA StoreLess == \A a, b : Store!Less(a, b) <=> Less(a, b)
BY DEF Store!Less, Store!LessAt, Less, LessAt

LEMMA ContentsFacts ==
    ASSUME PageType, TreeOK
    PROVE  /\ Contents = MapOf(Entries) /\ Contents' = MapOf(Entries')
           /\ OnePerKey(Entries)
           /\ \A e \in Entries : /\ e \in LeafSlot /\ e.key \in Bytes /\ e.key \in Key
                                 /\ Contents[e.key] = e.val /\ e.val # NoVal
<1>1. Contents = MapOf(Entries) /\ Contents' = MapOf(Entries')
  BY DEF Contents, MapOf
<1>2. OnePerKey(Entries)
  BY EntriesOnePerKey
<1>3. ASSUME NEW e \in Entries
      PROVE  /\ e \in LeafSlot /\ e.key \in Bytes /\ e.key \in Key
             /\ Contents[e.key] = e.val /\ e.val # NoVal
  <2>1. e \in LeafSlot
    BY <1>2 DEF OnePerKey
  <2> QED BY <1>1, <1>2, <2>1, RecordFacts, MapOfPresent
<1> QED BY <1>1, <1>2, <1>3

LEMMA RequestAlive == pc \notin {"abort", "assert"} => Request = op
BY DEF Request

LEMMA NoOpFacts == NoOp.kind = "none" /\ NoOp \notin Ops
<1>1. NoOp.kind = "none"
  BY DEF NoOp, Op
<1>2. \A o \in Ops : o.kind # "none"
  BY DEF Ops, InsertOps, PointOps, ScanOps, Op
<1> QED BY <1>1, <1>2

(* An operation that returns leaves no scan behind.                        *)
LEMMA ReturnRest ==
    ASSUME NEW a, Return(a)
    PROVE  Rest' /\ Request' = NoOp /\ res' = a
<1>1. pc' = "idle" /\ op' = NoOp /\ out' = << >> /\ res' = a
  BY DEF Return
<1> QED BY <1>1, NoOpFacts DEF Rest, Between, ScanSoFar, Scans, Request

(* A step of an operation that is not a scan.                              *)
LEMMA NoScanRest ==
    ASSUME Between, op.kind \notin Scans, pc # "idle", pc' # "idle", op' = op, out' = out
    PROVE  Rest'
BY DEF Rest, Between, ScanSoFar, Scans

(* Where a key is not found there is no record of it, here or elsewhere.   *)
LEMMA NotFound ==
    ASSUME SInv, NEW kind \in {"insert", "remove", "lookup"}, AtLeaf(kind),
           ~FoundAt(page[node], skey, LowerBound(page[node], skey))
    PROVE  /\ \A e \in Entries : e.key # op.key
           /\ op.key \in Key /\ Contents[op.key] = NoVal
<1> DEFINE n == page[node]
           i == LowerBound(n, skey)
<1>1. /\ PageType /\ TreeOK /\ LocalType /\ node \in Leaves
      /\ n \in Page /\ PageOK(n) /\ IsLeaf(n) /\ Count(n) \in Nat
      /\ skey \in Bytes /\ InFences(skey, n.lower, n.upper)
      /\ i \in 1 .. Count(n) + 1 /\ skey = op.key
  BY AtLeafFacts DEF SInv
<1>2. /\ \A j \in 1 .. (i - 1) : Less(n.slot[j].key, skey)
      /\ \A j \in i .. Count(n) : Leq(skey, n.slot[j].key)
  BY <1>1, LowerBoundProperties
<1>3. \A x, y \in 1 .. Count(n) : x < y => Less(n.slot[x].key, n.slot[y].key)
  BY <1>1 DEF PageOK
<1>4. \A j \in 1 .. Count(n) : n.slot[j].key \in Bytes
  BY <1>1, LeafFacts
<1>5. ~FoundAt(n, skey, i)
  OBVIOUS
<1> HIDE DEF n, i
<1>6. ASSUME NEW j \in 1 .. Count(n), n.slot[j].key = skey
      PROVE  FALSE
  <2>1. CASE j \in 1 .. (i - 1)
    BY <1>1, <1>2, <1>6, <2>1, LessIrreflexive
  <2>2. CASE j = i
    BY <1>1, <1>5, <1>6, <2>2 DEF FoundAt
  <2>3. CASE j > i
    <3>1. i \in 1 .. Count(n) /\ i \in i .. Count(n)
      BY <1>1, <2>3
    <3>2. Leq(skey, n.slot[i].key) /\ Less(n.slot[i].key, skey)
      BY <1>2, <1>3, <1>6, <2>3, <3>1
    <3> QED BY <1>1, <1>4, <3>1, <3>2, NotBoth
  <2> QED BY <1>1, <2>1, <2>2, <2>3
<1>7. \A e \in Entries : e.key # op.key
  <2> SUFFICES ASSUME NEW e \in Entries, e.key = skey PROVE FALSE
    BY <1>1
  <2>1. Holds(n, e)
    BY <1>1, EntryInLeaf DEF n
  <2> QED BY <1>6, <2>1 DEF Holds
<1>8. op.key \in Key
  <2>1. op \in Ops
    BY DEF SInv, Between, AtLeaf
  <2> QED BY <2>1, OpFacts DEF OpsAndNoOp
<1> QED BY <1>1, <1>7, <1>8, ContentsFacts, MapOfMissing

(* Where a key is found there is its record.                               *)
LEMMA Found ==
    ASSUME SInv, NEW kind \in {"insert", "remove", "lookup"}, AtLeaf(kind),
           NEW i, i = LowerBound(page[node], skey), FoundAt(page[node], skey, i)
    PROVE  /\ i \in 1 .. Count(page[node])
           /\ page[node].slot[i] \in Entries /\ page[node].slot[i].key = op.key
           /\ op.key \in Key
           /\ Contents[op.key] = page[node].slot[i].val /\ Contents[op.key] # NoVal
<1>1. /\ PageType /\ TreeOK /\ node \in Leaves /\ Count(page[node]) \in Nat
      /\ i \in 1 .. Count(page[node]) + 1 /\ skey = op.key
  BY AtLeafFacts DEF SInv
<1>2. i \in 1 .. Count(page[node]) /\ page[node].slot[i].key = skey
  BY <1>1 DEF FoundAt
<1>3. page[node].slot[i] \in Entries
  BY <1>1, <1>2, LeafFacts
<1> QED BY <1>1, <1>2, <1>3, ContentsFacts

LEMMA CallRefines ==
    ASSUME SInv, NEW o \in Ops, Call(o)
    PROVE  Rest' /\ Store!Call
<1>1. /\ pc = "idle" /\ pc' = "descend" /\ op' = o /\ res' = NoAnswer
      /\ UNCHANGED <<root, page, toSplit, out>> /\ skey' = o.key
  BY DEF Call, FromRoot
<1>2. op = NoOp /\ out = << >>
  BY <1>1, NoOpFacts DEF SInv, Between, Scans
<1>3. /\ Entries' = Entries /\ Contents' = Contents
  BY <1>1, SameEntries DEF tree
<1>4. Request = NoOp /\ Request' = o
  BY <1>1, <1>2 DEF Request
<1>5. Store!Call
  BY <1>1, <1>3, <1>4, StoreNames DEF Store!Call
<1>6. Between'
  BY <1>1, <1>2 DEF Between
<1>7. PageType /\ TreeOK /\ o.key \in Bytes
  BY TypeParts, OpFacts DEF SInv, IInv, OpsAndNoOp
<1>8. ScanSoFar'
  <2>1. InOrder(out', Ascending) /\ InOrder(out', Descending) /\ {out'[i] : i \in 1 .. Len(out')} = {}
    BY <1>1, <1>2 DEF InOrder
  <2>2. \A e \in Entries : /\ ~ (Leq(o.key, e.key) /\ Less(e.key, o.key))
                           /\ ~ (Leq(e.key, o.key) /\ Less(o.key, e.key))
    BY <1>7, ContentsFacts, NotBoth
  <2>3. UpSoFar' /\ DownSoFar'
    BY <1>1, <1>3, <2>1, <2>2 DEF UpSoFar, DownSoFar, Leq
  <2> QED BY <2>3 DEF ScanSoFar
<1> QED BY <1>5, <1>6, <1>8 DEF Rest

LEMMA ClearRefines ==
    ASSUME SInv, IInv', Clear
    PROVE  Rest' /\ Store!Clear
<1>1. /\ pc = "idle" /\ pc' = "idle" /\ res' = NoAnswer /\ UNCHANGED <<op, out>>
      /\ page' = [p \in {root'} |-> EmptyLeaf]
  BY DEF Clear
<1>2. op = NoOp /\ out = << >>
  BY <1>1, NoOpFacts DEF SInv, Between, Scans
<1>3. Rest'
  BY <1>1, <1>2, NoOpFacts DEF Rest, Between, ScanSoFar
<1>4. Entries' = {}
  <2>1. \A e : ~Holds(EmptyLeaf, e)
    BY DEF Holds, EmptyLeaf, Leaf, Count
  <2>2. \A p \in Leaves' : page'[p] = EmptyLeaf
    BY <1>1 DEF Leaves, Pages
  <2>3. PageType'
    BY TypeParts DEF IInv, TypeOK, PageType, Page
  <2> QED BY <2>1, <2>2, <2>3, EntryIffNext
<1>5. Contents' = [k \in Key |-> NoVal]
  BY <1>4 DEF Contents
<1>6. Request = NoOp /\ Request' = NoOp
  BY <1>1, <1>2 DEF Request
<1> QED BY <1>1, <1>3, <1>5, <1>6, StoreNames DEF Store!Clear

LEMMA DescendRefines ==
    ASSUME SInv, Descend
    PROVE  Rest' /\ Invisible
<1>1. UNCHANGED <<root, page, pc, op, skey, toSplit, out, res>>
  BY DEF Descend, StepDown
<1>2. Entries' = Entries /\ Leaves' = Leaves /\ Contents' = Contents
  BY <1>1, SameEntries DEF tree
<1>3. Rest'
  BY <1>1, <1>2 DEF SInv, Rest, Between, ScanSoFar, UpSoFar, DownSoFar
<1> QED BY <1>1, <1>2, <1>3 DEF Invisible, Request

(* The steps of an insert that do not change the tree.                     *)
LEMMA QuietRefines ==
    ASSUME SInv, LeafInsertFull \/ EnsureSpace \/ EnsureStep \/ EnsureFound
    PROVE  Rest' /\ Invisible
<1>1. /\ pc \in {"descend", "ensure", "split"} /\ pc' \in {"ensure", "split"}
      /\ UNCHANGED <<root, page, op, out, res>> /\ op.kind = "insert"
  <2>1. CASE LeafInsertFull
    BY <2>1 DEF LeafInsertFull, AtLeaf
  <2>2. CASE EnsureSpace
    BY <2>2 DEF EnsureSpace, Splitting, SInv, IInv, CursorOnPath, Walking
  <2>3. CASE EnsureStep
    BY <2>3 DEF EnsureStep, StepDown, SInv, IInv, CursorOnPath, Walking
  <2>4. CASE EnsureFound
    BY <2>4 DEF EnsureFound, SInv, IInv, CursorOnPath, Walking
  <2> QED BY <2>1, <2>2, <2>3, <2>4
<1>2. Contents' = Contents
  BY <1>1, SameEntries DEF tree
<1>3. Rest'
  BY <1>1, NoScanRest DEF SInv, Scans
<1> QED BY <1>1, <1>2, <1>3 DEF Invisible, Request

LEMMA LookupRefines ==
    ASSUME SInv, LeafLookup
    PROVE  Rest' /\ Store!Lookup
<1> DEFINE n == page[node]
           i == LowerBound(n, skey)
           a == IF FoundAt(n, skey, i) THEN Answer(TRUE, n.slot[i].val, << >>) ELSE NoAnswer
<1>1. AtLeaf("lookup") /\ Return(a) /\ UNCHANGED tree
  BY DEF LeafLookup
<1>2. Contents' = Contents
  BY <1>1, SameEntries
<1>3. a = Answer(Contents[op.key] # NoVal, Contents[op.key], << >>)
  <2>1. CASE FoundAt(n, skey, i)
    BY <1>1, <2>1, Found
  <2>2. CASE ~FoundAt(n, skey, i)
    BY <1>1, <2>2, NotFound DEF NoAnswer
  <2> QED BY <2>1, <2>2
<1> HIDE DEF a
<1>4. Request = op /\ op.kind = "lookup"
  BY <1>1, RequestAlive DEF AtLeaf
<1>5. Rest' /\ Request' = NoOp /\ res' = a
  BY <1>1, ReturnRest
<1> QED BY <1>2, <1>3, <1>4, <1>5, StoreNames DEF Store!Lookup, Store!Return

(* Inserts.                                                                *)
LEMMA InsertRefines ==
    ASSUME SInv, IInv', LeafInsert
    PROVE  Rest' /\ Store!Insert
<1> DEFINE n == page[node]
           i == LowerBound(n, skey)
           w == InsertSlot(n, i, op.key, op.val)
<1>1. /\ AtLeaf("insert") /\ ~FoundAt(n, skey, i)
      /\ page' = [page EXCEPT ![node] = w] /\ Return(NoAnswer)
  BY DEF LeafInsert
<1>2. /\ PageType /\ TreeOK /\ LocalType /\ node \in Leaves
      /\ n \in Page /\ PageOK(n) /\ IsLeaf(n) /\ skey \in Bytes
      /\ i \in 1 .. Count(n) + 1
      /\ InFences(skey, n.lower, n.upper) /\ skey = op.key
  BY <1>1, AtLeafFacts DEF SInv
<1>3. op.key \in Key /\ op.val \in Val /\ op.kind = "insert"
  BY <1>1, <1>2, OpFacts DEF AtLeaf, LocalType
<1>4. [key |-> op.key, val |-> op.val] \in SlotType(n)
  BY <1>2, <1>3 DEF SlotType, LeafSlot
<1>5. w \in Page /\ IsLeaf(w)
  <2> HIDE DEF n
  <2> QED BY <1>1, <1>2, <1>4, InsertSlotOK
<1>6. PageType'
  BY TypeParts DEF IInv, TypeOK, PageType, Page
<1> HIDE DEF w
<1>7. Entries' = Entries \cup {Record(op.key, op.val)}
  <2> DEFINE k == op.key
             v == op.val
  <2>1. /\ PageType /\ PageType' /\ node \in Leaves /\ i \in 1 .. Count(page[node]) + 1
        /\ k \in Key /\ v \in Val /\ w \in Page /\ IsLeaf(w)
        /\ w = InsertSlot(page[node], i, k, v)
        /\ page' = [page EXCEPT ![node] = w]
    BY <1>1, <1>2, <1>3, <1>5, <1>6 DEF w
  <2> HIDE DEF k, v, i
  <2>2. Entries' = Entries \cup {Record(k, v)}
    BY ONLY <2>1, InsertEntries
  <2> QED BY <2>2 DEF k, v
<1>8. (\A e \in Entries : e.key # op.key) /\ Contents[op.key] = NoVal
  BY <1>1, NotFound
<1>9. Contents' = [Contents EXCEPT ![op.key] = op.val]
  <2>1. Contents = MapOf(Entries) /\ Contents' = MapOf(Entries') /\ OnePerKey(Entries)
    BY <1>2, ContentsFacts
  <2>2. MapOf(Entries \cup {Record(op.key, op.val)}) = [MapOf(Entries) EXCEPT ![op.key] = op.val]
    BY <1>3, <1>8, <2>1, MapOfAdded
  <2> QED BY <1>7, <2>1, <2>2
<1>10. Request = op
  BY <1>1, RequestAlive DEF AtLeaf
<1>11. Rest' /\ Request' = NoOp /\ res' = NoAnswer
  BY <1>1, ReturnRest
<1> QED BY <1>3, <1>8, <1>9, <1>10, <1>11, StoreNames DEF Store!Insert, Store!Return

(* The process ends where a key is inserted a second time.                 *)
LEMMA DieRefines ==
    ASSUME SInv, NEW how \in {"abort", "assert"}, Die(how), pc # "idle",
           op.kind = "insert", Contents[op.key] # NoVal,
           pc \notin {"abort", "assert"}
    PROVE  Store!InsertDuplicate
<1>1. pc' = how /\ UNCHANGED <<root, page, op, out, res>>
  BY DEF Die
<1>2. Contents' = Contents
  BY <1>1, SameEntries DEF tree
<1>3. Request = op /\ Request' = Store!Aborted(op)
  BY <1>1 DEF Request, Store!Aborted
<1> QED BY <1>1, <1>2, <1>3 DEF Store!InsertDuplicate

LEMMA DieRest ==
    ASSUME SInv, NEW how \in {"abort", "assert"}, Die(how), pc # "idle"
    PROVE  Rest'
<1>1. pc' = how /\ op' = op /\ out' = out
  BY DEF Die
<1> QED BY <1>1 DEF SInv, Rest, Between, ScanSoFar

LEMMA InsertFoundRefines ==
    ASSUME SInv, LeafInsertFound
    PROVE  Rest' /\ Store!InsertDuplicate
<1>1. /\ AtLeaf("insert") /\ Die("abort")
      /\ FoundAt(page[node], skey, LowerBound(page[node], skey))
  BY DEF LeafInsertFound
<1>2. Contents[op.key] # NoVal
  BY <1>1, Found
<1>3. pc = "descend" /\ op.kind = "insert"
  BY <1>1 DEF AtLeaf
<1> QED BY <1>1, <1>2, <1>3, DieRefines, DieRest

LEMMA SplitDiesRefines ==
    ASSUME SInv, SplitDies
    PROVE  Rest' /\ (DiesOnlyOnDuplicate' => Store!InsertDuplicate)
<1>1. pc = "split" /\ Die(SplitChecks) /\ SplitChecks \in {"assert", "abort"}
  BY DEF SplitDies, Splitting
<1>2. op.kind = "insert"
  BY <1>1 DEF SInv, IInv, CursorOnPath, Walking
<1>3. pc' \in {"assert", "abort"} /\ UNCHANGED <<root, page, op>>
  BY <1>1 DEF Die
<1>4. Contents' = Contents
  BY <1>3, SameEntries DEF tree
<1>5. DiesOnlyOnDuplicate' => Contents[op.key] # NoVal
  BY <1>3, <1>4 DEF DiesOnlyOnDuplicate
<1> QED BY <1>1, <1>2, <1>5, DieRefines, DieRest

LEMMA MakeRootRefines ==
    ASSUME SInv, IInv', MakeRoot
    PROVE  Rest' /\ Invisible
<1> DEFINE n == Inner(<< >>, << >>, << >>, node)
<1>1. /\ pc = "split" /\ NewPage \notin Pages
      /\ page' = [q \in DOMAIN page \cup {NewPage} |-> IF q = NewPage THEN n ELSE page[q]]
      /\ UNCHANGED <<pc, op, out, res>>
  BY NewPageFacts DEF MakeRoot
<1>2. op.kind = "insert"
  BY <1>1 DEF SInv, IInv, CursorOnPath, Walking
<1>3. ~IsLeaf(n)
  BY DEF Inner, IsLeaf
<1>4. PageType /\ PageType'
  BY TypeParts DEF SInv, IInv, TypeOK, PageType, Page
<1>5. Entries' = Entries
  <2> HIDE DEF n
  <2> QED BY <1>1, <1>3, <1>4, RootEntries
<1>6. Contents' = Contents
  BY <1>4, <1>5, ContentsFacts DEF SInv, IInv
<1>7. Rest'
  BY <1>1, <1>2, NoScanRest DEF SInv, Scans
<1> QED BY <1>1, <1>6, <1>7 DEF Invisible, Request

LEMMA SplitNodeRefines ==
    ASSUME SInv, IInv', SplitNode
    PROVE  Rest' /\ Invisible
<1> DEFINE n == page[node]
           p == page[parent]
           s == FindSeparator(n)
           m == InsertSlot(p, LowerBound(p, s.sep), s.sep, NewPage)
<1>1. /\ pc = "split" /\ pc' = "descend" /\ parent # NoPage /\ SplitChecks = "split"
      /\ NewPage \in PageId /\ NewPage \notin Pages
      /\ page' = [q \in DOMAIN page \cup {NewPage} |->
                     CASE q = NewPage -> SplitLeft(n, s)
                       [] q = node    -> SplitRight(n, s)
                       [] q = parent  -> m
                       [] OTHER       -> page[q]]
      /\ UNCHANGED <<op, out, res>>
  BY NewPageFacts DEF SplitNode, Splitting
<1>2. ~ (Count(n) < 2) /\ ~ (s.at < 2)
  BY <1>1 DEF SplitChecks
<1>3. /\ node \in Pages /\ parent \in Inners /\ pos \in 1 .. Count(p) + 1
      /\ node = ChildAt(p, pos) /\ op.kind = "insert"
  BY <1>1 DEF SInv, IInv, CursorOnPath, Walking
<1>4. PageType /\ PageType' /\ TreeOK
  BY TypeParts DEF SInv, IInv, TypeOK, PageType, Page
<1>5. n \in Page /\ PageOK(n) /\ p \in Page /\ PageOK(p) /\ ~IsLeaf(p)
  BY <1>3, <1>4 DEF PageType, TreeOK, KeysInFences, Inners
<1>6. Count(n) > 1 /\ s.at \in 1 .. Count(n) /\ s.at >= 2 /\ s.sep \in Bytes
  <2>1. Count(n) \in Nat /\ Count(n) > 1
    BY <1>2, <1>5, PageFacts
  <2>2. s.at \in Nat
    <3>1. CASE IsLeaf(n)
      <4>1. Cut(n, s)
        BY <1>5, <2>1, <3>1, LeafSeparator DEF FindSeparator
      <4> QED BY <2>1, <4>1 DEF Cut
    <3>2. CASE ~IsLeaf(n)
      <4>1. s.at = Count(n) \div 2
        BY <3>2 DEF FindSeparator
      <4> QED BY <2>1, <4>1
    <3> QED BY <3>1, <3>2
  <2>3. s.at >= 2
    BY <1>2, <2>2
  <2> QED BY <1>5, <2>1, <2>3, SeparatorProperties
<1>7. node # parent
  BY <1>3, <1>4 DEF TreeOK, OneParent
<1> HIDE DEF s
<1>8. ~IsLeaf(m)
  <2>1. LowerBound(p, s.sep) \in 1 .. Count(p) + 1
    BY <1>5, <1>6, LowerBoundProperties
  <2> HIDE DEF p
  <2> QED BY <1>1, <1>5, <1>6, <2>1, InsertChild
<1>9. Entries' = Entries
  <2>1. s = FindSeparator(page[node])
    BY DEF s
  <2> HIDE DEF m
  <2> QED BY <1>1, <1>3, <1>4, <1>6, <1>7, <1>8, <2>1, SplitEntries
<1>10. Contents' = Contents
  BY <1>4, <1>9, ContentsFacts
<1>11. Rest'
  BY <1>1, <1>3, NoScanRest DEF SInv, Scans
<1> QED BY <1>1, <1>10, <1>11 DEF Invisible, Request

(* Removals.                                                               *)
LEMMA RemoveMissRefines ==
    ASSUME SInv, RemoveMiss
    PROVE  Rest' /\ Store!Remove
<1>1. /\ AtLeaf("remove") /\ Return(NoAnswer) /\ UNCHANGED tree
      /\ ~FoundAt(page[node], skey, LowerBound(page[node], skey))
  BY DEF RemoveMiss
<1>2. op.key \in Key /\ Contents[op.key] = NoVal
  BY <1>1, NotFound
<1>3. Contents' = Contents
  BY <1>1, SameEntries
<1>4. [Contents EXCEPT ![op.key] = NoVal] = Contents
  BY <1>2 DEF Contents
<1>5. Request = op /\ op.kind = "remove"
  BY <1>1, RequestAlive DEF AtLeaf
<1>6. Rest' /\ Request' = NoOp /\ res' = NoAnswer
  BY <1>1, ReturnRest
<1>7. NoAnswer = Answer(Contents[op.key] # NoVal, NoVal, << >>)
  BY <1>2 DEF NoAnswer
<1> QED BY <1>2, <1>3, <1>4, <1>5, <1>6, <1>7, StoreNames DEF Store!Remove, Store!Return

(* What is common to the two ways of removing a record.                    *)
LEMMA RemovingRefines ==
    ASSUME SInv, Removing,
           Entries' = Entries \ {page[node].slot[LowerBound(page[node], skey)]}
    PROVE  Rest' /\ Store!Remove
<1> DEFINE e == page[node].slot[LowerBound(page[node], skey)]
<1>1. /\ AtLeaf("remove") /\ Return(Answer(TRUE, NoVal, << >>))
      /\ FoundAt(page[node], skey, LowerBound(page[node], skey))
  BY DEF Removing
<1>2. e \in Entries /\ e.key = op.key /\ Contents[op.key] # NoVal
  BY <1>1, Found
<1> HIDE DEF e
<1>3. Contents = MapOf(Entries) /\ Contents' = MapOf(Entries') /\ OnePerKey(Entries)
  BY <1>1, AtLeafFacts, ContentsFacts DEF SInv
<1>4. MapOf(Entries \ {e}) = [MapOf(Entries) EXCEPT ![op.key] = NoVal]
  BY <1>2, <1>3, MapOfDropped
<1>5. Contents' = [Contents EXCEPT ![op.key] = NoVal]
  BY <1>3, <1>4 DEF e
<1>6. Request = op /\ op.kind = "remove"
  BY <1>1, RequestAlive DEF AtLeaf
<1>7. Rest' /\ Request' = NoOp /\ res' = Answer(TRUE, NoVal, << >>)
  BY <1>1, ReturnRest
<1>8. (Contents[op.key] # NoVal) = TRUE
  BY <1>2
<1>9. res' = Answer(Contents[op.key] # NoVal, NoVal, << >>)
  BY <1>7, <1>8
<1> QED BY <1>5, <1>6, <1>7, <1>9, StoreNames DEF Store!Remove, Store!Return

LEMMA RemoveOnlyRefines ==
    ASSUME SInv, IInv', RemoveOnly
    PROVE  Rest' /\ Store!Remove
<1> DEFINE n == Removed(page[node])
           i == LowerBound(page[node], skey)
<1>1. Removing /\ page' = [page EXCEPT ![node] = n]
  BY DEF RemoveOnly
<1>2. AtLeaf("remove") /\ FoundAt(page[node], skey, i)
  BY <1>1 DEF Removing
<1>3. n \in Page /\ IsLeaf(n)
  BY <1>1, RemovedOK DEF SInv
<1>4. PageType /\ TreeOK /\ node \in Leaves /\ i \in 1 .. Count(page[node])
  BY <1>2, AtLeafFacts, Found DEF SInv
<1>5. PageType' /\ n = RemoveSlot(page[node], i)
  BY TypeParts DEF IInv, TypeOK, PageType, Page, Removed
<1> HIDE DEF n, i
<1>6. Entries' = Entries \ {page[node].slot[i]}
  BY <1>1, <1>3, <1>4, <1>5, RemoveEntries
<1> QED BY <1>1, <1>6, RemovingRefines DEF i

LEMMA RemoveAndMergeRefines ==
    ASSUME SInv, IInv', RemoveAndMerge
    PROVE  Rest' /\ Store!Remove
<1> DEFINE n == Removed(page[node])
           i == LowerBound(page[node], skey)
           y == RightNeighbour
           m == RemoveSlot(page[parent], pos)
<1>1. /\ Removing /\ CanMerge(n)
      /\ page' = [q \in DOMAIN page \ {node} |->
                     CASE q = parent -> m
                       [] q = y      -> Merged(n, page[y])
                       [] OTHER      -> page[q]]
  BY DEF RemoveAndMerge, PagesAfterMerge
<1>2. AtLeaf("remove") /\ FoundAt(page[node], skey, i)
  BY <1>1 DEF Removing
<1>3. n \in Page /\ IsLeaf(n)
  BY <1>1, RemovedOK DEF SInv
<1>4. PageType /\ TreeOK /\ node \in Leaves /\ i \in 1 .. Count(page[node])
  BY <1>2, AtLeafFacts, Found DEF SInv
<1>5. PageType' /\ n = RemoveSlot(page[node], i)
  BY TypeParts DEF IInv, TypeOK, PageType, Page, Removed
<1>6. /\ parent # NoPage /\ pos + 1 <= Count(page[parent]) /\ IsLeaf(page[y])
      /\ y = ChildAt(page[parent], pos + 1)
  BY <1>1 DEF CanMerge, RightNeighbour
<1>7. /\ parent \in Inners /\ pos \in 1 .. Count(page[parent]) + 1
      /\ node = ChildAt(page[parent], pos)
  BY <1>2, <1>6 DEF SInv, IInv, CursorOnPath, Walking, AtLeaf
<1>8. page[parent] \in Page /\ ~IsLeaf(page[parent]) /\ Count(page[parent]) \in Nat
  <2>1. page[parent] \in Page /\ ~IsLeaf(page[parent])
    BY <1>4, <1>7 DEF PageType, Inners
  <2> QED BY <2>1, PageFacts
<1>9. pos \in 1 .. Count(page[parent]) /\ pos + 1 \in 1 .. Count(page[parent]) + 1 /\ pos # pos + 1
  BY <1>6, <1>7, <1>8
<1>10. y \in Leaves /\ y # node
  <2>1. y \in Pages
    BY <1>4, <1>6, <1>7, <1>9 DEF TreeOK, ChildFences
  <2>2. y # node
    BY <1>4, <1>6, <1>7, <1>9 DEF TreeOK, OneParent
  <2> QED BY <1>6, <2>1, <2>2 DEF Leaves
<1>11. ~IsLeaf(m)
  BY <1>8, <1>9, RemoveChild
<1> HIDE DEF n, i, y, m
<1>12. Entries' = Entries \ {page[node].slot[i]}
  BY <1>1, <1>3, <1>4, <1>5, <1>7, <1>10, <1>11, MergeEntries
<1> QED BY <1>1, <1>12, RemovingRefines DEF i

(* Scans.                                                                  *)
LEMMA StoreScanUp ==
    ASSUME PageType, TreeOK, NEW recs \in Seq(LeafSlot), NEW o \in Ops,
           ScanOf(Entries, recs, o.key, o.limit, Ascending)
    PROVE  Store!IsScan(recs, o, Store!Less)
<1>1. /\ DOMAIN recs = 1 .. Len(recs) /\ Len(recs) \in Nat
      /\ \A i \in 1 .. Len(recs) : recs[i] \in LeafSlot
  BY LenProperties, ElementOfSeq
<1>2. Contents = MapOf(Entries) /\ Key \subseteq Bytes /\ o.key \in Key
  BY ContentsFacts, OpFacts, BTreeAssumption DEF OpsAndNoOp
<1>3. \A i \in 1 .. Len(recs) : recs[i].key \in Bytes
  BY <1>1, RecordFacts
<1>4. \A i \in 1 .. Len(recs) :
         /\ recs[i].key = o.key \/ Store!Less(o.key, recs[i].key)
         /\ Contents[recs[i].key] # NoVal
         /\ recs[i].val = Contents[recs[i].key]
  BY <1>2, <1>3, InAscending, StoreLess DEF ScanOf, Reach
<1>5. \A i, j \in 1 .. Len(recs) : i < j => Store!Less(recs[i].key, recs[j].key)
  BY <1>3, InAscending, StoreLess DEF ScanOf, InOrder
<1>6. ASSUME NEW k \in Key, \A i \in 1 .. Len(recs) : recs[i].key # k,
             Contents[k] # NoVal, k = o.key \/ Store!Less(o.key, k)
      PROVE  Len(recs) = o.limit /\ Store!Less(recs[o.limit].key, k)
  <2>1. Reach(o.key, k, Ascending)
    BY <1>2, <1>6, InAscending, StoreLess DEF Reach
  <2>2. Len(recs) = o.limit /\ <<recs[o.limit].key, k>> \in Ascending
    BY <1>2, <1>6, <2>1 DEF ScanOf
  <2> QED BY <2>2, StoreLess DEF Ascending
<1> QED BY <1>1, <1>4, <1>5, <1>6, Zenon DEF Store!IsScan

LEMMA StoreScanDown ==
    ASSUME PageType, TreeOK, NEW recs \in Seq(LeafSlot), NEW o \in Ops,
           ScanOf(Entries, recs, o.key, o.limit, Descending)
    PROVE  Store!IsScan(recs, o, LAMBDA a, b : Store!Less(b, a))
<1>1. /\ DOMAIN recs = 1 .. Len(recs) /\ Len(recs) \in Nat
      /\ \A i \in 1 .. Len(recs) : recs[i] \in LeafSlot
  BY LenProperties, ElementOfSeq
<1>2. Contents = MapOf(Entries) /\ Key \subseteq Bytes /\ o.key \in Key
  BY ContentsFacts, OpFacts, BTreeAssumption DEF OpsAndNoOp
<1>3. \A i \in 1 .. Len(recs) : recs[i].key \in Bytes
  BY <1>1, RecordFacts
<1>4. \A i \in 1 .. Len(recs) :
         /\ recs[i].key = o.key \/ Store!Less(recs[i].key, o.key)
         /\ Contents[recs[i].key] # NoVal
         /\ recs[i].val = Contents[recs[i].key]
  BY <1>2, <1>3, InAscending, StoreLess DEF ScanOf, Reach
<1>5. \A i, j \in 1 .. Len(recs) : i < j => Store!Less(recs[j].key, recs[i].key)
  BY <1>3, InAscending, StoreLess DEF ScanOf, InOrder
<1>6. ASSUME NEW k \in Key, \A i \in 1 .. Len(recs) : recs[i].key # k,
             Contents[k] # NoVal, k = o.key \/ Store!Less(k, o.key)
      PROVE  Len(recs) = o.limit /\ Store!Less(k, recs[o.limit].key)
  <2>1. Reach(o.key, k, Descending)
    BY <1>2, <1>6, InAscending, StoreLess DEF Reach
  <2>2. Len(recs) = o.limit /\ <<recs[o.limit].key, k>> \in Descending
    BY <1>2, <1>6, <2>1 DEF ScanOf
  <2> QED BY <2>2, StoreLess DEF Descending
<1> QED BY <1>1, <1>4, <1>5, <1>6, Zenon DEF Store!IsScan

(* A scan upwards stops in a leaf with the answer that KVStore asks for,   *)
(* or goes on with all it has listed so far.                               *)
LEMMA ScanUpAnswer ==
    ASSUME SInv, AtLeaf("scan"), NEW all, all = out \o Upwards(page[node]), NEW recs,
           \/ Len(all) >= op.limit /\ recs = SubSeq(all, 1, op.limit)
           \/ Len(all) < op.limit /\ page[node].upper = << >> /\ recs = all
    PROVE  recs \in Seq(LeafSlot) /\ Store!IsScan(recs, op, Store!Less)
<1> DEFINE u == page[node].upper
           B == {k \in Key : BelowFence(k, u)}
<1>1. /\ PageType /\ TreeOK /\ u \in Bytes /\ op \in Ops /\ op.kind = "scan"
      /\ op.key \in Bytes /\ op.limit \in Nat \ {0}
  <2>1. PageType /\ TreeOK /\ u \in Bytes
    BY AtLeafFacts, PageFacts DEF SInv
  <2>2. op \in Ops /\ op.kind = "scan"
    BY DEF SInv, Between, AtLeaf
  <2> QED BY <2>1, <2>2, OpFacts DEF OpsAndNoOp
<1>2. /\ all \in Seq(LeafSlot) /\ InOrder(all, Ascending)
      /\ \A e : Listed(all, e) <=> e \in Entries /\ Leq(op.key, e.key) /\ BelowFence(e.key, u)
  BY UpListed
<1> HIDE DEF u
<1>3. OnePerKey(Entries) /\ \A e \in Entries : e.key \in Key /\ e.key \in Bytes
  BY <1>1, ContentsFacts
<1>4. \A e : Listed(all, e) <=> e \in Entries /\ Reach(op.key, e.key, Ascending) /\ e.key \in B
  BY <1>1, <1>2, <1>3, InAscending DEF Reach, Leq
<1>5. \A k, l \in Key : k \in B /\ l \notin B => <<k, l>> \in Ascending
  <2> SUFFICES ASSUME NEW k \in Key, NEW l \in Key, BelowFence(k, u), ~BelowFence(l, u)
               PROVE  <<k, l>> \in Ascending
    OBVIOUS
  <2>1. k \in Bytes /\ l \in Bytes
    BY BTreeAssumption
  <2>2. Leq(k, u) /\ Less(u, l)
    BY <1>1, <2>1, LessTotal DEF BelowFence, Leq
  <2> QED BY <1>1, <2>1, <2>2, LeqLess, InAscending
<1>6. u = << >> => Key \subseteq B
  BY DEF BelowFence
<1> HIDE DEF B
<1>7. \/ Len(all) >= op.limit /\ recs = SubSeq(all, 1, op.limit)
      \/ Len(all) < op.limit /\ Key \subseteq B /\ recs = all
  BY <1>6 DEF u
<1>8. ScanOf(Entries, recs, op.key, op.limit, Ascending)
  <2> DEFINE start == op.key
             limit == op.limit
  <2>1. /\ OnePerKey(Entries) /\ limit \in Nat \ {0}
        /\ all \in Seq(LeafSlot) /\ InOrder(all, Ascending)
        /\ \A e : Listed(all, e) <=> e \in Entries /\ Reach(start, e.key, Ascending) /\ e.key \in B
        /\ \A k, l \in Key : k \in B /\ l \notin B => <<k, l>> \in Ascending
        /\ \/ Len(all) >= limit /\ recs = SubSeq(all, 1, limit)
           \/ Len(all) < limit /\ Key \subseteq B /\ recs = all
    BY <1>1, <1>2, <1>3, <1>4, <1>5, <1>7
  <2> HIDE DEF start, limit
  <2>2. ScanOf(Entries, recs, start, limit, Ascending)
    BY ONLY <2>1, ScanAnswer
  <2> QED BY <2>2 DEF start, limit
<1>9. recs \in Seq(LeafSlot)
  <2>1. CASE Len(all) >= op.limit /\ recs = SubSeq(all, 1, op.limit)
    <3>1. 1 \in 1 .. Len(all) + 1 /\ op.limit \in 1 - 1 .. Len(all)
      BY <1>1, <1>2, <2>1, LenProperties
    <3> QED BY <1>2, <2>1, <3>1, SubSeqProperties
  <2> QED BY <1>2, <1>7, <2>1
<1> QED BY <1>1, <1>8, <1>9, StoreScanUp

LEMMA ScanUpRefines ==
    ASSUME SInv, ScanUp
    PROVE  Rest' /\ (Store!Scan \/ Invisible)
<1> DEFINE n == page[node]
           u == n.upper
           all == out \o Upwards(n)
<1>1. /\ AtLeaf("scan") /\ UNCHANGED tree
      /\ IF Len(all) >= op.limit
         THEN Return(Answer(FALSE, NoVal, SubSeq(all, 1, op.limit)))
         ELSE IF u = << >>
         THEN Return(Answer(FALSE, NoVal, all))
         ELSE /\ out' = all
              /\ FromRoot(Successor(u))
              /\ UNCHANGED <<pc, op, toSplit, res>>
  BY DEF ScanUp, ScanLeaf
<1>2. Entries' = Entries /\ Leaves' = Leaves /\ Contents' = Contents /\ page' = page
  BY <1>1, SameEntries DEF tree
<1>3. /\ all \in Seq(LeafSlot) /\ InOrder(all, Ascending)
      /\ \A e : Listed(all, e) <=> e \in Entries /\ Leq(op.key, e.key) /\ BelowFence(e.key, u)
  BY <1>1, UpListed
<1>4. Len(all) \in Nat /\ op.limit \in Nat
  <2>1. op \in OpsAndNoOp /\ op.kind = "scan"
    BY <1>1 DEF SInv, Between, AtLeaf, OpsAndNoOp
  <2> QED BY <1>3, <2>1, LenProperties, OpFacts
<1>5. pc = "descend" /\ op.kind = "scan" /\ Request = op
  BY <1>1, RequestAlive DEF AtLeaf
<1>6. /\ PageType /\ TreeOK /\ node \in Leaves /\ u \in Bytes /\ n.lower \in Bytes /\ skey \in Bytes
      /\ InFences(skey, n.lower, u) /\ op.key \in Bytes
  <2>1. op \in OpsAndNoOp
    BY <1>1 DEF SInv, Between, AtLeaf, OpsAndNoOp
  <2> QED BY <1>1, <2>1, AtLeafFacts, PageFacts, OpFacts DEF SInv
<1>7. ASSUME NEW recs, Return(Answer(FALSE, NoVal, recs)),
             \/ Len(all) >= op.limit /\ recs = SubSeq(all, 1, op.limit)
             \/ Len(all) < op.limit /\ u = << >> /\ recs = all
      PROVE  Rest' /\ Store!Scan
  <2>1. recs \in Seq(LeafSlot) /\ Store!IsScan(recs, op, Store!Less)
    BY <1>1, <1>7, ScanUpAnswer
  <2>2. Rest' /\ Request' = NoOp /\ res' = Answer(FALSE, NoVal, recs)
    BY <1>7, ReturnRest
  <2>3. res'.recs = recs
    BY <2>2 DEF Answer
  <2>4. Store!Return("scan", Store!Answer(FALSE, NoVal, res'.recs))
    BY <1>5, <2>2, <2>3, StoreNames DEF Store!Return
  <2>5. Store!IsScan(res'.recs, Request, Store!Less)
    BY <1>5, <2>1, <2>3
  <2> HIDE DEF all, u, n
  <2> QED BY <1>2, <2>2, <2>4, <2>5 DEF Store!Scan
<1> HIDE DEF all
<1>8. CASE Len(all) >= op.limit
  BY <1>1, <1>7, <1>8
<1>9. CASE ~ (Len(all) >= op.limit) /\ u = << >>
  <2>1. Len(all) < op.limit
    BY <1>4, <1>9
  <2> QED BY <1>1, <1>7, <1>9, <2>1
<1>10. CASE ~ (Len(all) >= op.limit) /\ u # << >>
  <2>1. out' = all /\ skey' = Successor(u) /\ pc' = pc /\ op' = op /\ res' = res
    BY <1>1, <1>10 DEF FromRoot
  <2> HIDE DEF u, n
  <2>2. /\ Successor(u) \in Bytes /\ Less(u, Successor(u))
        /\ \A k \in Bytes : Less(k, Successor(u)) <=> Leq(k, u)
    BY <1>6, SuccessorNext
  <2>3. Leq(op.key, Successor(u))
    <3>1. Leq(op.key, skey)
      BY <1>5 DEF SInv, ScanSoFar, UpSoFar
    <3>2. Leq(skey, u)
      BY <1>6, <1>10 DEF InFences, BelowFence
    <3> QED BY <1>6, <2>2, <3>1, <3>2, LeqLeq, LeqLess DEF Leq
  <2>4. {all[i] : i \in 1 .. Len(all)} =
           {e \in Entries : Leq(op.key, e.key) /\ Less(e.key, Successor(u))}
    <3>1. \A e \in Entries : e.key \in Bytes
      BY <1>6, ContentsFacts
    <3>2. \A e : Listed(all, e) <=> e \in Entries /\ Leq(op.key, e.key) /\ Less(e.key, Successor(u))
      BY <1>3, <1>10, <2>2, <3>1 DEF BelowFence
    <3> QED BY <3>2 DEF Listed
  <2>5. AboveFence(u, n.lower)
    <3>1. n.lower # << >> => Less(n.lower, skey) /\ Leq(skey, u)
      BY <1>6, <1>10 DEF InFences, AboveFence, BelowFence
    <3> QED BY <1>6, <3>1, LessLeq DEF AboveFence
  <2>6. \E q \in Leaves' : /\ page'[q].upper # << >>
                          /\ skey' = Successor(page'[q].upper)
                          /\ AboveFence(page'[q].upper, page'[q].lower)
    BY <1>2, <1>6, <1>10, <2>1, <2>5 DEF u, n
  <2>7. UpSoFar'
    BY <1>2, <1>3, <2>1, <2>3, <2>4, <2>6 DEF UpSoFar
  <2>8. ScanSoFar'
    BY <1>5, <2>1, <2>7 DEF ScanSoFar
  <2>9. Between'
    BY <1>5, <2>1 DEF SInv, Between, Scans
  <2> QED BY <1>2, <2>1, <2>8, <2>9 DEF Rest, Invisible, Request
<1> QED BY <1>8, <1>9, <1>10

(* The same for scans downwards.                                           *)
LEMMA ScanDownAnswer ==
    ASSUME SInv, AtLeaf("scandesc"), NEW all, all = out \o Downwards(page[node]), NEW recs,
           \/ Len(all) >= op.limit /\ recs = SubSeq(all, 1, op.limit)
           \/ Len(all) < op.limit /\ page[node].lower = << >> /\ recs = all
    PROVE  recs \in Seq(LeafSlot) /\ Store!IsScan(recs, op, LAMBDA a, b : Store!Less(b, a))
<1> DEFINE u == page[node].lower
           B == {k \in Key : AboveFence(k, u)}
<1>1. /\ PageType /\ TreeOK /\ u \in Bytes /\ op \in Ops /\ op.kind = "scandesc"
      /\ op.key \in Bytes /\ op.limit \in Nat \ {0}
  <2>1. PageType /\ TreeOK /\ u \in Bytes
    BY AtLeafFacts, PageFacts DEF SInv
  <2>2. op \in Ops /\ op.kind = "scandesc"
    BY DEF SInv, Between, AtLeaf
  <2> QED BY <2>1, <2>2, OpFacts DEF OpsAndNoOp
<1>2. /\ all \in Seq(LeafSlot) /\ InOrder(all, Descending)
      /\ \A e : Listed(all, e) <=> e \in Entries /\ Leq(e.key, op.key) /\ AboveFence(e.key, u)
  BY DownListed
<1> HIDE DEF u
<1>3. OnePerKey(Entries) /\ \A e \in Entries : e.key \in Key /\ e.key \in Bytes
  BY <1>1, ContentsFacts
<1>4. \A e : Listed(all, e) <=> e \in Entries /\ Reach(op.key, e.key, Descending) /\ e.key \in B
  BY <1>1, <1>2, <1>3, InAscending DEF Reach, Leq
<1>5. \A k, l \in Key : k \in B /\ l \notin B => <<k, l>> \in Descending
  <2> SUFFICES ASSUME NEW k \in Key, NEW l \in Key, AboveFence(k, u), ~AboveFence(l, u)
               PROVE  <<k, l>> \in Descending
    OBVIOUS
  <2>1. k \in Bytes /\ l \in Bytes
    BY BTreeAssumption
  <2>2. Less(u, k) /\ Leq(l, u)
    BY <1>1, <2>1, LessTotal DEF AboveFence, Leq
  <2> QED BY <1>1, <2>1, <2>2, LeqLess, InAscending
<1>6. u = << >> => Key \subseteq B
  BY DEF AboveFence
<1> HIDE DEF B
<1>7. \/ Len(all) >= op.limit /\ recs = SubSeq(all, 1, op.limit)
      \/ Len(all) < op.limit /\ Key \subseteq B /\ recs = all
  BY <1>6 DEF u
<1>8. ScanOf(Entries, recs, op.key, op.limit, Descending)
  <2> DEFINE start == op.key
             limit == op.limit
  <2>1. /\ OnePerKey(Entries) /\ limit \in Nat \ {0}
        /\ all \in Seq(LeafSlot) /\ InOrder(all, Descending)
        /\ \A e : Listed(all, e) <=> e \in Entries /\ Reach(start, e.key, Descending) /\ e.key \in B
        /\ \A k, l \in Key : k \in B /\ l \notin B => <<k, l>> \in Descending
        /\ \/ Len(all) >= limit /\ recs = SubSeq(all, 1, limit)
           \/ Len(all) < limit /\ Key \subseteq B /\ recs = all
    BY <1>1, <1>2, <1>3, <1>4, <1>5, <1>7
  <2> HIDE DEF start, limit
  <2>2. ScanOf(Entries, recs, start, limit, Descending)
    BY ONLY <2>1, ScanAnswer
  <2> QED BY <2>2 DEF start, limit
<1>9. recs \in Seq(LeafSlot)
  <2>1. CASE Len(all) >= op.limit /\ recs = SubSeq(all, 1, op.limit)
    <3>1. 1 \in 1 .. Len(all) + 1 /\ op.limit \in 1 - 1 .. Len(all)
      BY <1>1, <1>2, <2>1, LenProperties
    <3> QED BY <1>2, <2>1, <3>1, SubSeqProperties
  <2> QED BY <1>2, <1>7, <2>1
<1> QED BY <1>1, <1>8, <1>9, StoreScanDown

LEMMA ScanDownRefines ==
    ASSUME SInv, ScanDown
    PROVE  Rest' /\ (Store!Scan \/ Invisible)
<1> DEFINE n == page[node]
           u == n.lower
           all == out \o Downwards(n)
<1>1. /\ AtLeaf("scandesc") /\ UNCHANGED tree
      /\ IF Len(all) >= op.limit
         THEN Return(Answer(FALSE, NoVal, SubSeq(all, 1, op.limit)))
         ELSE IF u = << >>
         THEN Return(Answer(FALSE, NoVal, all))
         ELSE /\ out' = all
              /\ FromRoot(u)
              /\ UNCHANGED <<pc, op, toSplit, res>>
  BY DEF ScanDown, ScanLeaf
<1>2. Entries' = Entries /\ Leaves' = Leaves /\ Contents' = Contents /\ page' = page
  BY <1>1, SameEntries DEF tree
<1>3. /\ all \in Seq(LeafSlot) /\ InOrder(all, Descending)
      /\ \A e : Listed(all, e) <=> e \in Entries /\ Leq(e.key, op.key) /\ AboveFence(e.key, u)
  BY <1>1, DownListed
<1>4. Len(all) \in Nat /\ op.limit \in Nat
  <2>1. op \in OpsAndNoOp /\ op.kind = "scandesc"
    BY <1>1 DEF SInv, Between, AtLeaf, OpsAndNoOp
  <2> QED BY <1>3, <2>1, LenProperties, OpFacts
<1>5. pc = "descend" /\ op.kind = "scandesc" /\ Request = op
  BY <1>1, RequestAlive DEF AtLeaf
<1>6. /\ PageType /\ TreeOK /\ node \in Leaves /\ u \in Bytes /\ n.upper \in Bytes /\ skey \in Bytes
      /\ InFences(skey, u, n.upper) /\ op.key \in Bytes
  <2>1. op \in OpsAndNoOp
    BY <1>1 DEF SInv, Between, AtLeaf, OpsAndNoOp
  <2> QED BY <1>1, <2>1, AtLeafFacts, PageFacts, OpFacts DEF SInv
<1>7. ASSUME NEW recs, Return(Answer(FALSE, NoVal, recs)),
             \/ Len(all) >= op.limit /\ recs = SubSeq(all, 1, op.limit)
             \/ Len(all) < op.limit /\ u = << >> /\ recs = all
      PROVE  Rest' /\ Store!Scan
  <2>1. recs \in Seq(LeafSlot) /\ Store!IsScan(recs, op, LAMBDA a, b : Store!Less(b, a))
    BY <1>1, <1>7, ScanDownAnswer
  <2>2. Rest' /\ Request' = NoOp /\ res' = Answer(FALSE, NoVal, recs)
    BY <1>7, ReturnRest
  <2>3. res'.recs = recs
    BY <2>2 DEF Answer
  <2>4. Store!Return("scandesc", Store!Answer(FALSE, NoVal, res'.recs))
    BY <1>5, <2>2, <2>3, StoreNames DEF Store!Return
  <2>5. Store!IsScan(res'.recs, Request, LAMBDA a, b : Store!Less(b, a))
    BY <1>5, <2>1, <2>3
  <2> HIDE DEF all, u, n
  <2> QED BY <1>2, <2>2, <2>4, <2>5 DEF Store!Scan
<1> HIDE DEF all
<1>8. CASE Len(all) >= op.limit
  BY <1>1, <1>7, <1>8
<1>9. CASE ~ (Len(all) >= op.limit) /\ u = << >>
  <2>1. Len(all) < op.limit
    BY <1>4, <1>9
  <2> QED BY <1>1, <1>7, <1>9, <2>1
<1>10. CASE ~ (Len(all) >= op.limit) /\ u # << >>
  <2>1. out' = all /\ skey' = u /\ pc' = pc /\ op' = op /\ res' = res
    BY <1>1, <1>10 DEF FromRoot
  <2> HIDE DEF u, n
  <2>2. Leq(u, op.key)
    <3>1. Leq(skey, op.key)
      BY <1>5 DEF SInv, ScanSoFar, DownSoFar
    <3>2. Less(u, skey)
      BY <1>6, <1>10 DEF InFences, AboveFence
    <3> QED BY <1>6, <3>1, <3>2, LessLeq DEF Leq
  <2>3. {all[i] : i \in 1 .. Len(all)} =
           {e \in Entries : Leq(e.key, op.key) /\ Less(u, e.key)}
    <3>1. \A e : Listed(all, e) <=> e \in Entries /\ Leq(e.key, op.key) /\ Less(u, e.key)
      BY <1>3, <1>10 DEF AboveFence
    <3> QED BY <3>1 DEF Listed
  <2>4. DownSoFar'
    BY <1>2, <1>3, <2>1, <2>2, <2>3 DEF DownSoFar
  <2>5. ScanSoFar'
    BY <1>5, <2>1, <2>4 DEF ScanSoFar
  <2>6. Between'
    BY <1>5, <2>1 DEF SInv, Between, Scans
  <2> QED BY <1>2, <2>1, <2>5, <2>6 DEF Rest, Invisible, Request
<1> QED BY <1>8, <1>9, <1>10

(* The beginning: nothing stored, nothing asked.                           *)
LEMMA InitRefines == Init => Rest /\ Store!KVInit
<1> SUFFICES ASSUME Init PROVE Rest /\ Store!KVInit
  OBVIOUS
<1>1. pc = "idle" /\ op = NoOp /\ out = << >> /\ res = NoAnswer
  BY DEF Init
<1>2. Rest
  BY <1>1, NoOpFacts DEF Rest, Between, ScanSoFar
<1>3. PageType
  BY InitOK, TypeParts DEF IInv, TypeOK, PageType, Page
<1>4. Entries = {}
  <2>1. \A e : ~Holds(EmptyLeaf, e)
    BY DEF Holds, EmptyLeaf, Leaf, Count
  <2>2. \A p \in Leaves : page[p] = EmptyLeaf
    BY DEF Init, Leaves, Pages
  <2> QED BY <1>3, <2>1, <2>2, EntryIff
<1>5. Contents = [k \in Key |-> NoVal]
  BY <1>4 DEF Contents
<1> QED BY <1>1, <1>2, <1>5, StoreNames DEF Store!KVInit, Request

(* Every step is one of KVStore, or invisible to it, or ends the process.  *)
LEMMA StepRefines ==
    ASSUME SInv, IInv', [Next]_vars
    PROVE  /\ Rest'
           /\ Store!KVNext \/ Invisible \/ SplitDies
           /\ SplitDies /\ DiesOnlyOnDuplicate' => Store!KVNext
<1>1. ASSUME NEW o \in Ops, Call(o) PROVE Rest' /\ Store!KVNext /\ ~SplitDies
  <2>1. ~SplitDies
    BY <1>1 DEF Call, SplitDies, Splitting
  <2> QED BY <1>1, <2>1, CallRefines DEF Store!KVNext
<1>2. CASE Clear
  <2>1. ~SplitDies
    BY <1>2 DEF Clear, SplitDies, Splitting
  <2> QED BY <1>2, <2>1, ClearRefines DEF Store!KVNext
<1>3. CASE SplitDies
  BY <1>3, SplitDiesRefines DEF Store!KVNext
<1>4. ASSUME ~SplitDies, Rest', Store!KVNext \/ Invisible
      PROVE  /\ Rest'
             /\ Store!KVNext \/ Invisible \/ SplitDies
             /\ SplitDies /\ DiesOnlyOnDuplicate' => Store!KVNext
  BY <1>4
<1>5. CASE Descend
  BY <1>3, <1>4, <1>5, DescendRefines
<1>6. CASE LeafLookup
  BY <1>3, <1>4, <1>6, LookupRefines DEF Store!KVNext
<1>7. CASE LeafInsert
  BY <1>3, <1>4, <1>7, InsertRefines DEF Store!KVNext
<1>8. CASE LeafInsertFound
  BY <1>3, <1>4, <1>8, InsertFoundRefines DEF Store!KVNext
<1>9. CASE LeafInsertFull \/ EnsureSpace \/ EnsureStep \/ EnsureFound
  BY <1>3, <1>4, <1>9, QuietRefines
<1>10. CASE MakeRoot
  BY <1>3, <1>4, <1>10, MakeRootRefines
<1>11. CASE SplitNode
  BY <1>3, <1>4, <1>11, SplitNodeRefines
<1>12. CASE RemoveMiss
  BY <1>3, <1>4, <1>12, RemoveMissRefines DEF Store!KVNext
<1>13. CASE RemoveOnly
  BY <1>3, <1>4, <1>13, RemoveOnlyRefines DEF Store!KVNext
<1>14. CASE RemoveAndMerge
  BY <1>3, <1>4, <1>14, RemoveAndMergeRefines DEF Store!KVNext
<1>15. CASE ScanUp
  BY <1>3, <1>4, <1>15, ScanUpRefines DEF Store!KVNext
<1>16. CASE ScanDown
  BY <1>3, <1>4, <1>16, ScanDownRefines DEF Store!KVNext
<1>17. CASE UNCHANGED vars
  <2>1. UNCHANGED <<root, page, pc, op, skey, out, res>>
    BY <1>17 DEF vars
  <2>2. Entries' = Entries /\ Leaves' = Leaves /\ Contents' = Contents
    BY <2>1, SameEntries DEF tree
  <2>3. Rest'
    BY <2>1, <2>2 DEF SInv, Rest, Between, ScanSoFar, UpSoFar, DownSoFar
  <2> QED BY <1>3, <1>4, <2>1, <2>2, <2>3 DEF Invisible, Request
<1> QED BY <1>1, <1>2, <1>3, <1>5, <1>6, <1>7, <1>8, <1>9, <1>10, <1>11, <1>12,
           <1>13, <1>14, <1>15, <1>16, <1>17 DEF Next, Step

(***************************************************************************)
(* The theorems.                                                           *)
(***************************************************************************)
(* In every state a running scan has passed to its callback all records    *)
(* between its start key and the key it goes on with, in order and once,   *)
(* although range_lookupImpl keeps nothing but that key between leaves.    *)
THEOREM ScansMissNothing == Spec => []SInv
<1>1. Init => SInv
  BY InitOK, InitRefines DEF SInv, Rest
<1>2. SInv /\ [Next]_vars => SInv'
  <2> SUFFICES ASSUME SInv, [Next]_vars PROVE SInv'
    OBVIOUS
  <2>1. IInv'
    BY NextOK DEF SInv
  <2> QED BY <2>1, StepRefines DEF SInv, Rest
<1> QED BY <1>1, <1>2, PTL DEF Spec

(* Up to a failing assertion of a split, the tree implements the map: each *)
(* insert, removal, lookup or scan takes effect in one step, and splits,   *)
(* merges, restarts and the walk from leaf to leaf cannot be seen.         *)
THEOREM StoreUntilSplitDies ==
    Spec => Store!KVInit /\ [][Store!KVNext \/ SplitDies]_(Store!kvVars)
<1>1. Init => Store!KVInit
  BY InitRefines
<1>2. SInv /\ SInv' /\ [Next]_vars => [Store!KVNext \/ SplitDies]_(Store!kvVars)
  <2> SUFFICES ASSUME SInv, SInv', [Next]_vars
               PROVE  [Store!KVNext \/ SplitDies]_(Store!kvVars)
    OBVIOUS
  <2>1. Store!KVNext \/ Invisible \/ SplitDies
    BY StepRefines DEF SInv
  <2> QED BY <2>1 DEF Invisible, Store!kvVars
<1> QED BY <1>1, <1>2, ScansMissNothing, PTL DEF Spec

(* The B-tree implements KVStore as long as nothing but a duplicate insert *)
(* makes the process end: every answer is that of the map.                 *)
THEOREM ImplementsStore == Spec /\ []DiesOnlyOnDuplicate => StoreSpec
<1>1. Init => Store!KVInit
  BY InitRefines
<1>2. SInv /\ SInv' /\ DiesOnlyOnDuplicate' /\ [Next]_vars => [Store!KVNext]_(Store!kvVars)
  <2> SUFFICES ASSUME SInv, SInv', DiesOnlyOnDuplicate', [Next]_vars
               PROVE  [Store!KVNext]_(Store!kvVars)
    OBVIOUS
  <2>1. Store!KVNext \/ Invisible
    BY StepRefines DEF SInv
  <2> QED BY <2>1 DEF Invisible, Store!kvVars
<1> QED BY <1>1, <1>2, ScansMissNothing, PTL DEF Spec, StoreSpec, Store!KVSpec

=============================================================================
