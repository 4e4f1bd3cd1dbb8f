--------------------------- MODULE SlottedProofs ---------------------------
(***************************************************************************)
(* The bytes of a page are the page: heap, heads and hints of BTreeNode    *)
(* hold what BTree says of the page, and a search through them finds what  *)
(* a search through all keys would.                                        *)
(***************************************************************************)
EXTENDS SlottedPages, BTreeSpace, FiniteSetTheorems

(***************************************************************************)
(* Heads.                                                                  *)
(***************************************************************************)
LEMMA HeadType ==
    ASSUME NEW key \in Bytes
    PROVE  HeadOf(key) \in Nat
BY NumberType, SlottedAssumption DEF HeadOf

(* lowerBound may trust a head that differs.                               *)
LEMMA HeadsDecide ==
    ASSUME NEW a \in Bytes, NEW b \in Bytes, HeadOf(a) < HeadOf(b)
    PROVE  Less(a, b)
<1>1. \A i \in 1 .. 0 : PaddedByte(a, i) = PaddedByte(b, i)
  OBVIOUS
<1> QED BY <1>1, NumbersDecide, SlottedAssumption DEF HeadOf

(***************************************************************************)
(* Memory.                                                                 *)
(***************************************************************************)
(* What a byte of memory can be.                                           *)
Cell == Byte \cup {Unset} \cup ((Val \cup PageId) \X Nat)

Numbers  == Nat \cup {HeadOf(s) : s \in Seq(Cell)}
SlotInfo == [offset : Int, keyLen : Nat, payloadLen : Nat, head : Numbers]
Fence    == [offset : Int, length : Nat]
Memory   == UNION {[0 .. (z - 1) -> Cell] : z \in Nat}

Layout == [size : Nat, slot : Seq(SlotInfo), spaceUsed : Int, dataOffset : Int,
           lower : Fence, upper : Fence, prefixLength : Nat,
           hint : [0 .. (HintCount - 1) -> Numbers \cup {Unset}], mem : Memory]

(* Everything but slots, heap and hints is as it was.                      *)
SameFrame(d, h) ==
    /\ d.size = h.size /\ d.lower = h.lower /\ d.upper = h.upper
    /\ d.prefixLength = h.prefixLength
    /\ DOMAIN d.mem = DOMAIN h.mem

(* s lies in the heap from "at" on.                                        *)
Placed(h, at, s) ==
    \A j \in 1 .. Len(s) :
        at + j - 1 \in h.dataOffset .. (h.size - 1) /\ h.mem[at + j - 1] = s[j]

LEMMA BytesAreCells ==
    ASSUME NEW s \in Bytes
    PROVE  s \in Seq(Cell)
BY SeqMonotonic DEF Bytes, Cell

LEMMA CellsAreCells ==
    ASSUME NEW x \in Val \cup PageId, NEW len \in Nat
    PROVE  Cells(x, len) \in Seq(Cell) /\ Len(Cells(x, len)) = len
<1>1. \A j \in 1 .. len : <<x, j>> \in Cell
  BY DEF Cell
<1>2. Cells(x, len) \in [1 .. len -> Cell]
  BY <1>1 DEF Cells
<1> QED BY <1>2

LEMMA SuffixProperties ==
    ASSUME NEW S, NEW s \in Seq(S), NEW n \in Nat
    PROVE  /\ Suffix(s, n) \in Seq(S)
           /\ n <= Len(s) => Len(Suffix(s, n)) = Len(s) - n
           /\ \A j \in 1 .. (Len(s) - n) : Suffix(s, n)[j] = s[n + j]
<1>1. Len(s) \in Nat /\ n + 1 \in Int /\ \A i \in (n + 1) .. Len(s) : s[i] \in S
  BY LenProperties, ElementOfSeq
<1>2. /\ SubSeq(s, n + 1, Len(s)) \in Seq(S)
      /\ Len(SubSeq(s, n + 1, Len(s))) = IF n + 1 <= Len(s) THEN Len(s) - (n + 1) + 1 ELSE 0
      /\ \A j \in 1 .. Len(s) - (n + 1) + 1 : SubSeq(s, n + 1, Len(s))[j] = s[(n + 1) + j - 1]
  BY <1>1, SubSeqProperties
<1> QED BY <1>1, <1>2 DEF Suffix

LEMMA ReadCells ==
    ASSUME NEW h \in Layout, NEW at \in Int, NEW len \in Nat
    PROVE  Read(h, at, len) \in Seq(Cell) /\ Len(Read(h, at, len)) = len
<1>1. Unset \in Cell /\ \A a \in DOMAIN h.mem : h.mem[a] \in Cell
  BY DEF Layout, Memory, Cell
<1>2. Read(h, at, len) \in [1 .. len -> Cell]
  BY <1>1 DEF Read
<1> QED BY <1>2

LEMMA PlacedIsRead ==
    ASSUME NEW h \in Layout, DOMAIN h.mem = 0 .. (h.size - 1), h.dataOffset >= 0,
           NEW at \in Int, NEW s \in Seq(Cell), Placed(h, at, s)
    PROVE  Read(h, at, Len(s)) = s
<1>1. Read(h, at, Len(s)) \in Seq(Cell) /\ Len(Read(h, at, Len(s))) = Len(s)
  BY ReadCells, LenProperties
<1>2. ASSUME NEW j \in 1 .. Len(s) PROVE Read(h, at, Len(s))[j] = s[j]
  <2>1. at + j - 1 \in DOMAIN h.mem /\ h.mem[at + j - 1] = s[j]
    BY DEF Placed, Layout
  <2> QED BY <2>1 DEF Read
<1> QED BY <1>1, <1>2, SeqEqual

(* A record is its key's suffix with the payload behind.                   *)
LEMMA PlacedParts ==
    ASSUME NEW h \in Layout, NEW at \in Int, NEW s \in Seq(Cell), NEW t \in Seq(Cell),
           Placed(h, at, s \o t)
    PROVE  Placed(h, at, s) /\ Placed(h, at + Len(s), t)
<1>1. /\ Len(s) \in Nat /\ Len(t) \in Nat /\ Len(s \o t) = Len(s) + Len(t)
      /\ \A i \in 1 .. Len(s) + Len(t) :
            (s \o t)[i] = IF i <= Len(s) THEN s[i] ELSE t[i - Len(s)]
  BY ConcatProperties, LenProperties
<1>2. Placed(h, at, s)
  <2> SUFFICES ASSUME NEW j \in 1 .. Len(s)
               PROVE  at + j - 1 \in h.dataOffset .. (h.size - 1) /\ h.mem[at + j - 1] = s[j]
    BY DEF Placed
  <2>1. j \in 1 .. Len(s \o t) /\ (s \o t)[j] = s[j]
    BY <1>1
  <2> QED BY <2>1 DEF Placed
<1>3. Placed(h, at + Len(s), t)
  <2> SUFFICES ASSUME NEW j \in 1 .. Len(t)
               PROVE  /\ (at + Len(s)) + j - 1 \in h.dataOffset .. (h.size - 1)
                      /\ h.mem[(at + Len(s)) + j - 1] = t[j]
    BY DEF Placed
  <2>1. /\ Len(s) + j \in 1 .. Len(s \o t) /\ (s \o t)[Len(s) + j] = t[j]
        /\ at + (Len(s) + j) - 1 = (at + Len(s)) + j - 1
    BY <1>1
  <2> QED BY <2>1 DEF Placed
<1> QED BY <1>2, <1>3

(* Push writes below what is there.                                        *)
LEMMA PushFields ==
    ASSUME NEW h \in Layout, NEW cells \in Seq(Cell), NEW d, d = Push(h, cells)
    PROVE  /\ d \in Layout /\ SameFrame(d, h) /\ d.slot = h.slot /\ d.hint = h.hint
           /\ d.dataOffset = h.dataOffset - Len(cells)
           /\ d.spaceUsed = h.spaceUsed + Len(cells)
           /\ d.mem = [a \in DOMAIN h.mem |->
                          IF a - (h.dataOffset - Len(cells)) \in 0 .. (Len(cells) - 1)
                          THEN cells[a - (h.dataOffset - Len(cells)) + 1] ELSE h.mem[a]]
<1> DEFINE at == h.dataOffset - Len(cells)
           mem == [a \in DOMAIN h.mem |-> IF a - at \in 0 .. (Len(cells) - 1)
                                          THEN cells[a - at + 1] ELSE h.mem[a]]
<1>1. Len(cells) \in Nat /\ \A i \in 1 .. Len(cells) : cells[i] \in Cell
  BY LenProperties, ElementOfSeq
<1>2. h.dataOffset \in Int /\ h.spaceUsed \in Int /\ at \in Int
  BY <1>1 DEF Layout
<1>3. mem \in Memory
  <2>1. PICK z \in Nat : h.mem \in [0 .. (z - 1) -> Cell]
    BY DEF Layout, Memory
  <2>2. ASSUME NEW a \in 0 .. (z - 1) PROVE mem[a] \in Cell
    <3>1. a - at \in 0 .. (Len(cells) - 1) => a - at + 1 \in 1 .. Len(cells)
      BY <1>1, <1>2
    <3> DEFINE j == a - at + 1
    <3>2. \/ mem[a] = cells[j] /\ j \in 1 .. Len(cells)
          \/ mem[a] = h.mem[a]
      BY <2>1, <3>1
    <3> HIDE DEF mem, j, at
    <3> QED BY <1>1, <2>1, <3>2
  <2>3. mem \in [0 .. (z - 1) -> Cell]
    BY <2>1, <2>2
  <2> QED BY <2>3 DEF Memory
<1>4. d = [h EXCEPT !.dataOffset = at, !.spaceUsed = h.spaceUsed + Len(cells), !.mem = mem]
  BY DEF Push
<1> HIDE DEF mem, at
<1>5. h.spaceUsed + Len(cells) \in Int
  BY <1>1, <1>2
<1>6. /\ d \in Layout
      /\ d.size = h.size /\ d.lower = h.lower /\ d.upper = h.upper
      /\ d.slot = h.slot /\ d.hint = h.hint
      /\ d.prefixLength = h.prefixLength /\ d.mem = mem
      /\ d.dataOffset = at /\ d.spaceUsed = h.spaceUsed + Len(cells)
  <2> DEFINE used == h.spaceUsed + Len(cells)
  <2>1. d = [h EXCEPT !.dataOffset = at, !.spaceUsed = used, !.mem = mem] /\ used \in Int
    BY <1>4, <1>5
  <2> HIDE DEF used
  <2>2. d \in Layout
    BY <1>2, <1>3, <2>1 DEF Layout
  <2>3. d.dataOffset = at /\ d.spaceUsed = used /\ d.mem = mem
    BY <1>2, <1>3, <2>1 DEF Layout
  <2>4. /\ d.size = h.size /\ d.lower = h.lower /\ d.upper = h.upper
        /\ d.slot = h.slot /\ d.hint = h.hint
        /\ d.prefixLength = h.prefixLength
    BY <1>2, <1>3, <2>1 DEF Layout
  <2> QED BY <2>2, <2>3, <2>4 DEF used
<1> QED BY <1>6 DEF SameFrame, mem, at

(* What is placed stays when the heap grows downwards.                     *)
GrownFrom(d, h) ==
    /\ d.dataOffset <= h.dataOffset /\ d.size = h.size
    /\ \A a \in h.dataOffset .. (h.size - 1) : d.mem[a] = h.mem[a]

LEMMA GrownKeeps ==
    ASSUME NEW h \in Layout, NEW d \in Layout, GrownFrom(d, h),
           NEW at, NEW s, Placed(h, at, s)
    PROVE  Placed(d, at, s)
<1>1. h.dataOffset \in Int /\ d.dataOffset \in Int /\ h.size \in Nat
  BY DEF Layout
<1>2. ASSUME NEW j \in 1 .. Len(s)
      PROVE  at + j - 1 \in d.dataOffset .. (d.size - 1) /\ d.mem[at + j - 1] = s[j]
  <2>1. at + j - 1 \in h.dataOffset .. (h.size - 1) /\ h.mem[at + j - 1] = s[j]
    BY DEF Placed
  <2> DEFINE a == at + j - 1
  <2>2. a \in h.dataOffset .. (h.size - 1) /\ h.mem[a] = s[j]
    BY <2>1
  <2> HIDE DEF a
  <2>3. a \in d.dataOffset .. (d.size - 1) /\ d.mem[a] = s[j]
    BY <1>1, <2>2 DEF GrownFrom
  <2> QED BY <2>3 DEF a
<1> QED BY <1>2 DEF Placed

LEMMA PushPlaces ==
    ASSUME NEW h \in Layout, DOMAIN h.mem = 0 .. (h.size - 1), h.dataOffset <= h.size,
           NEW cells \in Seq(Cell), Len(cells) <= h.dataOffset,
           NEW d, d = Push(h, cells)
    PROVE  Placed(d, d.dataOffset, cells) /\ GrownFrom(d, h)
<1> DEFINE n == Len(cells)
           at == d.dataOffset
<1>1. n \in Nat /\ h.dataOffset \in Int /\ h.size \in Nat
  BY LenProperties DEF Layout
<1>2. /\ d \in Layout /\ d.size = h.size /\ at = h.dataOffset - n /\ DOMAIN d.mem = DOMAIN h.mem
      /\ d.mem = [a \in DOMAIN h.mem |->
                          IF a - (h.dataOffset - n) \in 0 .. (n - 1)
                          THEN cells[a - (h.dataOffset - n) + 1] ELSE h.mem[a]]
  <2>1. /\ d \in Layout /\ SameFrame(d, h) /\ d.dataOffset = h.dataOffset - Len(cells)
        /\ d.mem = [a \in DOMAIN h.mem |->
                          IF a - (h.dataOffset - Len(cells)) \in 0 .. (Len(cells) - 1)
                          THEN cells[a - (h.dataOffset - Len(cells)) + 1] ELSE h.mem[a]]
    BY PushFields, ZenonT(40)
  <2> QED BY <2>1 DEF SameFrame
<1>0. n <= h.dataOffset
  OBVIOUS
<1> HIDE DEF n, at
<1>3. \A a \in 0 .. (h.size - 1) :
         d.mem[a] = IF a - at \in 0 .. (n - 1) THEN cells[a - at + 1] ELSE h.mem[a]
  BY <1>2
<1>4. ASSUME NEW j \in 1 .. n
      PROVE  at + j - 1 \in at .. (d.size - 1) /\ d.mem[at + j - 1] = cells[j]
  <2> DEFINE a == at + j - 1
  <2>1. a \in 0 .. (h.size - 1) /\ a - at \in 0 .. (n - 1) /\ a - at + 1 = j /\ a \in at .. (d.size - 1)
    <3>1. at \in Nat /\ at + n = h.dataOffset /\ h.dataOffset <= h.size /\ d.size = h.size
      BY <1>0, <1>1, <1>2
    <3> QED BY <1>1, <3>1
  <2> HIDE DEF a
  <2>2. d.mem[a] = cells[j]
    BY <1>3, <2>1
  <2> QED BY <2>1, <2>2 DEF a
<1>5. ASSUME NEW a \in h.dataOffset .. (h.size - 1)
      PROVE  d.mem[a] = h.mem[a]
  <2>1. a \in 0 .. (h.size - 1) /\ a - at \notin 0 .. (n - 1)
    BY <1>0, <1>1, <1>2
  <2> QED BY <1>3, <2>1
<1>6. at <= h.dataOffset
  BY <1>1, <1>2
<1> QED BY <1>2, <1>4, <1>5, <1>6 DEF Placed, GrownFrom, n, at

(***************************************************************************)
(* When a layout holds a page.                                             *)
(***************************************************************************)
SlotLen(t) == t.keyLen + t.payloadLen

(* Two stretches of memory have no byte in common.                         *)
Apart(a, m, b, n) == m = 0 \/ n = 0 \/ a + m <= b \/ b + n <= a

FencesHold(h, n) ==
    /\ h \in Layout /\ h.size = PageSize(n) /\ DOMAIN h.mem = 0 .. (h.size - 1)
    /\ h.dataOffset \in 0 .. h.size
    /\ h.prefixLength = PrefixLen(n)
    /\ h.lower.length = Len(n.lower) /\ Placed(h, h.lower.offset, n.lower)
    /\ h.upper.length = Len(n.upper) /\ Placed(h, h.upper.offset, n.upper)
    /\ Apart(h.lower.offset, h.lower.length, h.upper.offset, h.upper.length)

SuffixOf(n, s)  == Suffix(s.key, PrefixLen(n))
PayloadOf(n, s) == Cells(s.val, IF IsLeaf(n) THEN PayloadLen[s.val] ELSE PtrSize)

(* Slot t of the layout leads to record s of the page.                     *)
SlotHolds(h, n, t, s) ==
    /\ t.keyLen = Len(SuffixOf(n, s)) /\ t.payloadLen = Len(PayloadOf(n, s))
    /\ t.head = HeadOf(SuffixOf(n, s))
    /\ Placed(h, t.offset, SuffixOf(n, s) \o PayloadOf(n, s))
    /\ Apart(t.offset, SlotLen(t), h.lower.offset, h.lower.length)
    /\ Apart(t.offset, SlotLen(t), h.upper.offset, h.upper.length)

SlotsApart(q) ==
    \A i, j \in 1 .. Len(q) :
        i # j => Apart(q[i].offset, SlotLen(q[i]), q[j].offset, SlotLen(q[j]))

Holds(h, n) ==
    /\ FencesHold(h, n)
    /\ Len(h.slot) = Count(n)
    /\ \A i \in 1 .. Count(n) : SlotHolds(h, n, h.slot[i], n.slot[i])
    /\ SlotsApart(h.slot)
    /\ SlotsEnd(h) <= h.dataOffset
    /\ h.spaceUsed = SpaceUsed(n)

(* A key between the fences has the prefix that the page leaves out.       *)
LEMMA KeyHasPrefix ==
    ASSUME NEW n \in Page, NEW k \in Bytes, InFences(k, n.lower, n.upper)
    PROVE  PrefixLen(n) <= Len(k) /\ SharePrefix(k, n.lower, PrefixLen(n))
<1> DEFINE a == n.lower
           b == n.upper
           c == PrefixLen(n)
<1>1. a \in Bytes /\ b \in Bytes /\ Len(a) \in Nat /\ Len(k) \in Nat /\ InFences(k, a, b)
  BY PageFacts, BytesType
<1>2. c \in 0 .. Len(a) /\ c \in Nat /\ SharePrefix(a, b, c)
  BY <1>1, PrefixLenNat, CommonPrefixProperties DEF PrefixLen
<1> HIDE DEF a, b, c
<1>3. SharePrefix(k, a, c)
  <2>1. CASE a = << >> \/ b = << >>
    <3>1. c = 0
      BY <1>2, <2>1 DEF SharePrefix
    <3> QED BY <1>1, <3>1 DEF SharePrefix
  <2>2. CASE a # << >> /\ b # << >>
    <3>1. Less(a, k) /\ Leq(k, b)
      BY <1>1, <2>2 DEF InFences, AboveFence, BelowFence
    <3> QED BY <1>1, <1>2, <3>1, BetweenSharesPrefix
  <2> QED BY <2>1, <2>2
<1> QED BY <1>3 DEF SharePrefix, a, c

(* The bytes of a record.                                                  *)
LEMMA RecordBytes ==
    ASSUME NEW n \in Page, NEW s \in SlotType(n), PrefixLen(n) <= Len(s.key)
    PROVE  /\ SuffixOf(n, s) \in Bytes /\ SuffixOf(n, s) \in Seq(Cell)
           /\ Len(SuffixOf(n, s)) = Len(s.key) - PrefixLen(n)
           /\ \A j \in 1 .. (Len(s.key) - PrefixLen(n)) :
                 SuffixOf(n, s)[j] = s.key[PrefixLen(n) + j]
           /\ PayloadOf(n, s) \in Seq(Cell)
           /\ Len(PayloadOf(n, s)) \in Nat /\ Len(SuffixOf(n, s)) \in Nat
           /\ EntryLen(n, s) = Len(SuffixOf(n, s)) + Len(PayloadOf(n, s))
           /\ EntryLen(n, s) \in Nat
<1> DEFINE len == IF IsLeaf(n) THEN PayloadLen[s.val] ELSE PtrSize
           c == PrefixLen(n)
<1>1. s.key \in Bytes /\ s.val \in Val \cup PageId /\ len \in Nat
  <2>1. CASE IsLeaf(n)
    BY <2>1, BTreeAssumption DEF SlotType, LeafSlot
  <2>2. CASE ~IsLeaf(n)
    BY <2>2, BTreeAssumption DEF SlotType, InnerSlot
  <2> QED BY <2>1, <2>2
<1>2. c \in Nat /\ Len(s.key) \in Nat
  BY <1>1, PrefixLenNat, BytesType
<1>3. /\ SuffixOf(n, s) \in Bytes
      /\ Len(SuffixOf(n, s)) = Len(s.key) - c
      /\ \A j \in 1 .. (Len(s.key) - c) : SuffixOf(n, s)[j] = s.key[c + j]
  BY <1>1, <1>2, SuffixProperties DEF SuffixOf, Bytes
<1>4. PayloadOf(n, s) \in Seq(Cell) /\ Len(PayloadOf(n, s)) = len
  BY <1>1, CellsAreCells DEF PayloadOf
<1>5. EntryLen(n, s) = Len(s.key) - c + len
  BY DEF EntryLen
<1> HIDE DEF len
<1> QED BY <1>1, <1>2, <1>3, <1>4, <1>5, BytesAreCells

(* The slot that StoreSuffix adds, and where it puts the record.           *)
LEMMA StoreFields ==
    ASSUME NEW h \in Layout, NEW i \in 1 .. Len(h.slot) + 1,
           NEW suffix \in Seq(Cell), NEW cells \in Seq(Cell),
           NEW d, d = StoreSuffix(h, i, suffix, cells)
    PROVE  LET p == Push(h, suffix \o cells)
               t == [offset |-> p.dataOffset, keyLen |-> Len(suffix),
                     payloadLen |-> Len(cells), head |-> HeadOf(suffix)]
           IN  /\ d \in Layout /\ SameFrame(d, h) /\ d.hint = h.hint
               /\ d.dataOffset = p.dataOffset /\ d.spaceUsed = p.spaceUsed /\ d.mem = p.mem
               /\ t \in SlotInfo /\ d.slot = InsertAt(h.slot, i, t)
<1> DEFINE p == Push(h, suffix \o cells)
           t == [offset |-> p.dataOffset, keyLen |-> Len(suffix),
                 payloadLen |-> Len(cells), head |-> HeadOf(suffix)]
           q == InsertAt(h.slot, i, t)
<1>1. suffix \o cells \in Seq(Cell)
  BY ConcatProperties
<1>2. p \in Layout /\ SameFrame(p, h) /\ p.slot = h.slot /\ p.hint = h.hint
  <2> DEFINE z == suffix \o cells
  <2>1. h \in Layout /\ z \in Seq(Cell) /\ p = Push(h, z)
    BY <1>1
  <2> HIDE DEF z, p
  <2> QED BY ONLY <2>1, PushFields, ZenonT(40)
<1>3. d = [p EXCEPT !.slot = q]
  BY <1>2 DEF StoreSuffix
<1> HIDE DEF p
<1>4. t \in SlotInfo
  <2>1. p.dataOffset \in Int /\ Len(suffix) \in Nat /\ Len(cells) \in Nat /\ HeadOf(suffix) \in Numbers
    BY <1>2, LenProperties DEF Layout, Numbers
  <2> QED BY <2>1 DEF SlotInfo
<1> HIDE DEF t
<1>5. q \in Seq(SlotInfo)
  <2>1. h.slot \in Seq(SlotInfo)
    BY DEF Layout
  <2> QED BY <1>4, <2>1, InsertAtProperties
<1> HIDE DEF q
<1>6. d \in Layout
  BY <1>2, <1>3, <1>5 DEF Layout
<1>7. d.slot = q
  BY <1>2, <1>3 DEF Layout
<1>8. /\ d.size = p.size /\ d.lower = p.lower /\ d.upper = p.upper
      /\ d.prefixLength = p.prefixLength /\ d.hint = p.hint
      /\ d.dataOffset = p.dataOffset /\ d.spaceUsed = p.spaceUsed /\ d.mem = p.mem
  BY <1>2, <1>3 DEF Layout
<1>9. SameFrame(d, h)
  BY <1>2, <1>8 DEF SameFrame
<1> QED BY <1>2, <1>4, <1>6, <1>7, <1>8, <1>9 DEF p, t, q

(* What lies in the heap has no byte in common with what is put below it.  *)
LEMMA ApartFromBelow ==
    ASSUME NEW h \in Layout, NEW at \in Int, NEW s \in Seq(Cell), Placed(h, at, s),
           NEW b \in Int, NEW len \in Nat, b + len <= h.dataOffset
    PROVE  Apart(at, Len(s), b, len) /\ Apart(b, len, at, Len(s))
<1>1. Len(s) \in Nat /\ h.dataOffset \in Int
  BY LenProperties DEF Layout
<1>2. CASE Len(s) = 0
  BY <1>2 DEF Apart
<1>3. CASE Len(s) # 0
  <2>1. 1 \in 1 .. Len(s)
    BY <1>1, <1>3
  <2>2. at + 1 - 1 \in h.dataOffset .. (h.size - 1)
    BY <2>1 DEF Placed
  <2>3. b + len <= at
    BY <1>1, <2>2
  <2> QED BY <2>3 DEF Apart
<1> QED BY <1>2, <1>3

(* A page without slots whose fences are in place.                         *)
LEMMA SlotTyped ==
    ASSUME NEW h \in Layout, NEW i \in 1 .. Len(h.slot)
    PROVE  /\ Len(h.slot) \in Nat
           /\ h.slot[i] \in SlotInfo
           /\ h.slot[i].offset \in Int /\ h.slot[i].keyLen \in Nat /\ h.slot[i].payloadLen \in Nat
           /\ SlotLen(h.slot[i]) \in Nat
<1>1. h.slot \in Seq(SlotInfo)
  BY DEF Layout
<1>2. Len(h.slot) \in Nat /\ h.slot[i] \in SlotInfo
  BY <1>1, LenProperties, ElementOfSeq
<1> QED BY <1>2 DEF SlotInfo, SlotLen

(* A slot that holds a record still does when the heap has grown.          *)
LEMMA SlotStays ==
    ASSUME NEW h \in Layout, NEW d \in Layout, SameFrame(d, h), GrownFrom(d, h),
           NEW n \in Page, NEW m \in Page, m.lower = n.lower, m.upper = n.upper,
           IsLeaf(m) <=> IsLeaf(n),
           NEW t, NEW s, SlotHolds(h, n, t, s)
    PROVE  SlotHolds(d, m, t, s)
<1>1. PrefixLen(m) = PrefixLen(n)
  BY DEF PrefixLen
<1>2. SuffixOf(m, s) = SuffixOf(n, s) /\ PayloadOf(m, s) = PayloadOf(n, s)
  BY <1>1 DEF SuffixOf, PayloadOf
<1>3. Placed(d, t.offset, SuffixOf(n, s) \o PayloadOf(n, s))
  BY GrownKeeps DEF SlotHolds
<1> QED BY <1>2, <1>3 DEF SlotHolds, SameFrame

LEMMA FencesStay ==
    ASSUME NEW h, NEW n \in Page, FencesHold(h, n),
           NEW d \in Layout, SameFrame(d, h), GrownFrom(d, h), d.dataOffset >= 0,
           NEW m \in Page, m.lower = n.lower, m.upper = n.upper, IsLeaf(m) <=> IsLeaf(n)
    PROVE  FencesHold(d, m)
<1>1. PrefixLen(m) = PrefixLen(n) /\ PageSize(m) = PageSize(n)
  BY DEF PrefixLen, PageSize
<1>2. /\ h \in Layout /\ Placed(h, h.lower.offset, n.lower) /\ Placed(h, h.upper.offset, n.upper)
  BY DEF FencesHold
<1>3. /\ d.lower = h.lower /\ d.upper = h.upper /\ d.size = h.size
      /\ d.prefixLength = h.prefixLength /\ DOMAIN d.mem = DOMAIN h.mem
  BY DEF SameFrame
<1>4. Placed(d, d.lower.offset, m.lower) /\ Placed(d, d.upper.offset, m.upper)
  BY <1>2, <1>3, GrownKeeps
<1>5. d.dataOffset \in 0 .. d.size
  BY <1>2 DEF GrownFrom, FencesHold, Layout
<1> QED BY <1>1, <1>3, <1>4, <1>5 DEF FencesHold

LEMMA SlotsEndNat ==
    ASSUME NEW h, Len(h.slot) \in Nat
    PROVE  SlotsEnd(h) \in Nat /\ SlotSize \in Nat
<1> DEFINE c == Len(h.slot)
<1>1. SlotSize \in Nat /\ HeaderSize \in Nat /\ c \in Nat
  BY BTreeAssumption
<1> HIDE DEF c
<1>2. SlotSize * c \in Nat
  BY <1>1
<1> QED BY <1>1, <1>2 DEF SlotsEnd, c

(* Storing a record where there is room for it.                            *)
LEMMA StoreHolds ==
    ASSUME NEW n \in Page, NEW h, Holds(h, n),
           NEW m \in Page, m.lower = n.lower, m.upper = n.upper, IsLeaf(m) <=> IsLeaf(n),
           Count(m) = Count(n) + 1, NEW i \in 1 .. Count(m),
           \A j \in 1 .. (i - 1) : m.slot[j] = n.slot[j],
           \A j \in (i + 1) .. Count(m) : m.slot[j] = n.slot[j - 1],
           NEW s, s = m.slot[i], s \in SlotType(m), PrefixLen(m) <= Len(s.key),
           SpaceUsed(m) = SpaceUsed(n) + EntryLen(m, s),
           SlotsEnd(h) + SlotSize + EntryLen(m, s) <= h.dataOffset,
           NEW d, d = StoreSuffix(h, i, SuffixOf(m, s), PayloadOf(m, s))
    PROVE  /\ Holds(d, m) /\ d.hint = h.hint
           /\ d.dataOffset + d.spaceUsed = h.dataOffset + h.spaceUsed
           /\ \A j \in 1 .. (i - 1) : d.slot[j] = h.slot[j]
<1> DEFINE x == SuffixOf(m, s)
           y == PayloadOf(m, s)
           p == Push(h, x \o y)
           t == [offset |-> p.dataOffset, keyLen |-> Len(x), payloadLen |-> Len(y), head |-> HeadOf(x)]
           q == InsertAt(h.slot, i, t)
<1>1. /\ x \in Seq(Cell) /\ y \in Seq(Cell) /\ Len(x) \in Nat /\ Len(y) \in Nat
      /\ EntryLen(m, s) = Len(x) + Len(y)
  BY RecordBytes
<1>2. /\ h \in Layout /\ FencesHold(h, n) /\ DOMAIN h.mem = 0 .. (h.size - 1)
      /\ h.dataOffset \in 0 .. h.size /\ h.dataOffset \in Nat /\ h.size \in Nat
      /\ Len(h.slot) = Count(n) /\ Count(n) \in Nat /\ h.slot \in Seq(SlotInfo)
  BY PageFacts DEF Holds, FencesHold, Layout
<1>3. x \o y \in Seq(Cell) /\ Len(x \o y) = Len(x) + Len(y)
  BY <1>1, ConcatProperties
<1>4. Len(x) + Len(y) <= h.dataOffset
  <2>1. SlotsEnd(h) \in Nat /\ SlotSize \in Nat
    BY <1>2, SlotsEndNat
  <2> DEFINE u == SlotsEnd(h)
             a == Len(x)
             b == Len(y)
             e == EntryLen(m, s)
             o == h.dataOffset
  <2>2. /\ u \in Nat /\ SlotSize \in Nat /\ a \in Nat /\ b \in Nat /\ o \in Nat
        /\ e = a + b /\ u + SlotSize + e <= o
    BY <1>1, <1>2, <2>1
  <2> HIDE DEF u, a, b, e, o
  <2>3. a + b <= o
    BY <2>2
  <2> QED BY <2>3 DEF a, b, o
<1>5. /\ p \in Layout /\ SameFrame(p, h) /\ p.dataOffset = h.dataOffset - (Len(x) + Len(y))
      /\ p.spaceUsed = h.spaceUsed + (Len(x) + Len(y))
  <2> HIDE DEF x, y
  <2>1. h \in Layout /\ x \o y \in Seq(Cell)
    BY <1>2, <1>3
  <2>2. /\ p \in Layout /\ SameFrame(p, h) /\ p.dataOffset = h.dataOffset - Len(x \o y)
        /\ p.spaceUsed = h.spaceUsed + Len(x \o y)
    BY <2>1, PushFields
  <2> QED BY <1>3, <2>2
<1>6. Placed(p, p.dataOffset, x \o y) /\ GrownFrom(p, h)
  <2> HIDE DEF x, y
  <2>1. /\ h \in Layout /\ x \o y \in Seq(Cell) /\ DOMAIN h.mem = 0 .. (h.size - 1)
        /\ h.dataOffset <= h.size /\ Len(x \o y) <= h.dataOffset
    BY <1>2, <1>3, <1>4
  <2> QED BY <2>1, PushPlaces
<1>7. /\ d \in Layout /\ SameFrame(d, h) /\ d.hint = h.hint
      /\ d.dataOffset = p.dataOffset /\ d.spaceUsed = p.spaceUsed /\ d.mem = p.mem
      /\ t \in SlotInfo /\ d.slot = q
  <2>1. /\ h \in Layout /\ i \in 1 .. Len(h.slot) + 1 /\ x \in Seq(Cell) /\ y \in Seq(Cell)
        /\ d = StoreSuffix(h, i, x, y)
    BY <1>1, <1>2
  <2> HIDE DEF x, y
  <2> QED BY ONLY <2>1, StoreFields, SMTT(30)
<1>8. /\ Placed(d, t.offset, x \o y) /\ GrownFrom(d, h)
  <2>1. t.offset = p.dataOffset
    OBVIOUS
  <2>2. d.dataOffset = p.dataOffset /\ d.size = p.size /\ d.mem = p.mem
    BY <1>5, <1>7 DEF SameFrame
  <2> DEFINE cells == x \o y
  <2> HIDE DEF p, t, q, cells
  <2>3. Placed(d, p.dataOffset, cells)
    BY <1>6, <2>2 DEF Placed, cells
  <2>4. GrownFrom(d, h)
    BY <1>6, <2>2 DEF GrownFrom
  <2> QED BY <2>1, <2>3, <2>4 DEF cells
<1>9. /\ t.offset = p.dataOffset /\ t.keyLen = Len(x) /\ t.payloadLen = Len(y) /\ t.head = HeadOf(x)
  OBVIOUS
<1> HIDE DEF t, p, x, y
<1>10. /\ q \in Seq(SlotInfo) /\ Len(q) = Len(h.slot) + 1
       /\ \A j \in 1 .. (i - 1) : q[j] = h.slot[j]
       /\ q[i] = t
       /\ \A j \in (i + 1) .. (Len(h.slot) + 1) : q[j] = h.slot[j - 1]
  <2>1. i \in 1 .. Len(h.slot) + 1 /\ h.slot \in Seq(SlotInfo) /\ t \in SlotInfo
    BY <1>2, <1>7
  <2> DEFINE z == h.slot
             X == SlotInfo
  <2>2. z \in Seq(X) /\ i \in 1 .. Len(z) + 1 /\ t \in X
    BY <2>1
  <2> HIDE DEF z, X
  <2>3. /\ InsertAt(z, i, t) \in Seq(X) /\ Len(InsertAt(z, i, t)) = Len(z) + 1
        /\ \A j \in 1 .. (i - 1) : InsertAt(z, i, t)[j] = z[j]
        /\ InsertAt(z, i, t)[i] = t
        /\ \A j \in (i + 1) .. (Len(z) + 1) : InsertAt(z, i, t)[j] = z[j - 1]
    BY ONLY <2>2, InsertAtProperties
  <2> QED BY <2>3 DEF z, X
<1> HIDE DEF q
<1>11. d.dataOffset \in Nat /\ d.dataOffset + (Len(x) + Len(y)) = h.dataOffset
  BY <1>1, <1>2, <1>4, <1>5, <1>7
<1>12. FencesHold(d, m)
  BY <1>2, <1>7, <1>8, <1>11, FencesStay
<1>13. /\ \A a \in Int, r \in Seq(Cell) : Placed(h, a, r) =>
             Apart(t.offset, SlotLen(t), a, Len(r)) /\ Apart(a, Len(r), t.offset, SlotLen(t))
  <2>1. t.offset \in Int /\ SlotLen(t) \in Nat /\ t.offset + SlotLen(t) <= h.dataOffset
    BY <1>1, <1>2, <1>5, <1>9 DEF SlotLen
  <2> QED BY <1>2, <2>1, ApartFromBelow
<1>14. SlotHolds(d, m, t, s)
  <2>1. /\ n.lower \in Seq(Cell) /\ n.upper \in Seq(Cell)
        /\ h.lower.offset \in Int /\ h.upper.offset \in Int
    BY <1>2, PageFacts, BytesAreCells DEF Layout, Fence
  <2>2. /\ Apart(t.offset, SlotLen(t), h.lower.offset, h.lower.length)
        /\ Apart(t.offset, SlotLen(t), h.upper.offset, h.upper.length)
    BY <1>2, <1>13, <2>1 DEF FencesHold
  <2>3. d.lower = h.lower /\ d.upper = h.upper
    BY <1>7 DEF SameFrame
  <2> QED BY <1>8, <1>9, <2>2, <2>3 DEF SlotHolds, x, y
<1>15. ASSUME NEW j \in 1 .. Count(m) PROVE SlotHolds(d, m, q[j], m.slot[j])
  <2>1. \A k \in 1 .. Count(n) : SlotHolds(d, m, h.slot[k], n.slot[k])
    BY <1>2, <1>7, <1>8, SlotStays DEF Holds
  <2>2. CASE j < i
    BY <1>2, <1>10, <2>1, <2>2
  <2>3. CASE j = i
    BY <1>10, <1>14, <2>3
  <2>4. CASE j > i
    <3>1. j - 1 \in 1 .. Count(n) /\ j \in (i + 1) .. Count(m) /\ j \in (i + 1) .. (Len(h.slot) + 1)
      BY <1>2, <2>4
    <3> QED BY <1>10, <2>1, <3>1
  <2> QED BY <2>2, <2>3, <2>4
<1>16. ASSUME NEW k \in 1 .. Count(n)
       PROVE  /\ Apart(t.offset, SlotLen(t), h.slot[k].offset, SlotLen(h.slot[k]))
              /\ Apart(h.slot[k].offset, SlotLen(h.slot[k]), t.offset, SlotLen(t))
  <2> DEFINE u == SuffixOf(n, n.slot[k])
             v == PayloadOf(n, n.slot[k])
  <2>1. h.slot[k].offset \in Int
    BY <1>2, SlotTyped
  <2>2. /\ Placed(h, h.slot[k].offset, u \o v)
        /\ h.slot[k].keyLen = Len(u) /\ h.slot[k].payloadLen = Len(v)
    BY DEF Holds, SlotHolds
  <2>3. u \in Seq(Cell) /\ v \in Seq(Cell)
    <3>1. n.slot[k].key \in Bytes /\ n.slot[k].val \in Val \cup PageId
      BY PageFacts DEF LeafSlot, InnerSlot
    <3>2. u \in Bytes
      BY <3>1, PrefixLenNat, SuffixProperties DEF SuffixOf, Bytes
    <3>3. v \in Seq(Cell)
      <4>1. (IF IsLeaf(n) THEN PayloadLen[n.slot[k].val] ELSE PtrSize) \in Nat
        BY PageFacts, BTreeAssumption DEF LeafSlot
      <4> QED BY <3>1, <4>1, CellsAreCells DEF PayloadOf
    <3> QED BY <3>2, <3>3, BytesAreCells
  <2>4. u \o v \in Seq(Cell) /\ Len(u \o v) = SlotLen(h.slot[k])
    BY <2>2, <2>3, ConcatProperties DEF SlotLen
  <2> HIDE DEF u, v
  <2> QED BY <1>13, <2>1, <2>2, <2>4
<1>17. SlotsApart(q)
  <2> DEFINE old(k) == IF k < i THEN k ELSE k - 1
  <2>1. ASSUME NEW a \in 1 .. Len(q), a # i
        PROVE  old(a) \in 1 .. Count(n) /\ q[a] = h.slot[old(a)]
    <3>1. CASE a < i
      BY <1>2, <1>10, <3>1
    <3>2. CASE a > i
      <4>1. a - 1 \in 1 .. Count(n) /\ a \in (i + 1) .. (Len(h.slot) + 1)
        BY <1>2, <1>10, <3>2
      <4> QED BY <1>10, <3>2, <4>1
    <3> QED BY <2>1, <3>1, <3>2
  <2>2. ASSUME NEW a \in 1 .. Len(q), NEW b \in 1 .. Len(q), a # b
        PROVE  Apart(q[a].offset, SlotLen(q[a]), q[b].offset, SlotLen(q[b]))
    <3>1. CASE a = i
      <4>1. b # i
        BY <2>2, <3>1
      <4> HIDE DEF old
      <4> QED BY <1>10, <1>16, <2>1, <3>1, <4>1
    <3>2. CASE b = i
      <4>1. a # i
        BY <2>2, <3>2
      <4> HIDE DEF old
      <4> QED BY <1>10, <1>16, <2>1, <3>2, <4>1
    <3>3. CASE a # i /\ b # i
      <4>1. old(a) # old(b)
        BY <2>2, <3>3
      <4>2. \A e, f \in 1 .. Count(n) : e # f =>
               Apart(h.slot[e].offset, SlotLen(h.slot[e]), h.slot[f].offset, SlotLen(h.slot[f]))
        BY <1>2 DEF Holds, SlotsApart
      <4> HIDE DEF old
      <4>3. /\ old(a) \in 1 .. Count(n) /\ q[a] = h.slot[old(a)]
            /\ old(b) \in 1 .. Count(n) /\ q[b] = h.slot[old(b)]
        BY <2>1, <3>3
      <4> QED BY <4>1, <4>2, <4>3
    <3> QED BY <3>1, <3>2, <3>3
  <2> QED BY <2>2 DEF SlotsApart
<1>18. SlotsEnd(d) <= d.dataOffset
  <2>1. SlotsEnd(d) = SlotsEnd(h) + SlotSize
    <3>1. SlotSize \in Nat /\ HeaderSize \in Nat /\ Len(d.slot) = Len(h.slot) + 1
      BY <1>7, <1>10, BTreeAssumption
    <3>2. SlotSize * (Len(h.slot) + 1) = SlotSize * Len(h.slot) + SlotSize
      BY <1>2, <3>1
    <3>3. SlotSize * Len(h.slot) \in Nat
      BY <1>2, <3>1
    <3> QED BY <3>1, <3>2, <3>3 DEF SlotsEnd
  <2>2. SlotsEnd(h) \in Nat /\ SlotSize \in Nat
    BY <1>2, SlotsEndNat
  <2> QED BY <1>1, <1>11, <2>1, <2>2
<1>19. d.spaceUsed = SpaceUsed(m)
  BY <1>1, <1>5, <1>7 DEF Holds
<1>20. Holds(d, m)
  BY <1>2, <1>7, <1>10, <1>12, <1>15, <1>17, <1>18, <1>19 DEF Holds
<1>21. d.dataOffset + d.spaceUsed = h.dataOffset + h.spaceUsed
  <2>1. h.spaceUsed \in Int
    BY <1>2 DEF Layout
  <2> QED BY <1>1, <1>2, <1>5, <1>7, <2>1
<1> QED BY <1>7, <1>10, <1>20, <1>21

(***************************************************************************)
(* Fresh pages.                                                            *)
(***************************************************************************)
(* BTreeNode::init makes a layout without anything in it.                  *)
LEMMA InitPageFields ==
    ASSUME NEW z \in Nat, NEW h, h = InitPage(z)
    PROVE  /\ h \in Layout
           /\ h.size = z /\ h.slot = << >> /\ h.spaceUsed = 0 /\ h.dataOffset = z
           /\ h.lower = [offset |-> 0, length |-> 0] /\ h.upper = [offset |-> 0, length |-> 0]
           /\ h.prefixLength = 0
           /\ DOMAIN h.mem = 0 .. (z - 1)
           /\ \A i \in 0 .. (HintCount - 1) : h.hint[i] = Unset
<1> DEFINE none == [offset |-> 0, length |-> 0]
           hint == [i \in 0 .. (HintCount - 1) |-> Unset]
           mem  == [a \in 0 .. (z - 1) |-> Unset]
<1>1. none \in Fence
  BY DEF Fence
<1>2. hint \in [0 .. (HintCount - 1) -> Numbers \cup {Unset}]
  OBVIOUS
<1>3. mem \in Memory
  <2>1. mem \in [0 .. (z - 1) -> Cell]
    BY DEF Cell
  <2> QED BY <2>1 DEF Memory
<1>4. << >> \in Seq(SlotInfo)
  OBVIOUS
<1>5. DOMAIN mem = 0 .. (z - 1) /\ \A i \in 0 .. (HintCount - 1) : hint[i] = Unset
  OBVIOUS
<1>6. h = [size |-> z, slot |-> << >>, spaceUsed |-> 0, dataOffset |-> z,
           lower |-> none, upper |-> none, prefixLength |-> 0, hint |-> hint, mem |-> mem]
  BY DEF InitPage
<1> HIDE DEF hint, mem, none
<1>7. h \in Layout
  BY <1>1, <1>2, <1>3, <1>4, <1>6 DEF Layout
<1> QED BY <1>5, <1>6, <1>7 DEF none

(* A page of the tree without any record.                                  *)
LEMMA EmptyHolds ==
    ASSUME NEW n \in Page, Count(n) = 0, NEW d, FencesHold(d, n), d.slot = << >>,
           d.spaceUsed = Len(n.lower) + Len(n.upper), HeaderSize <= d.dataOffset
    PROVE  Holds(d, n)
<1>1. Len(d.slot) = 0
  OBVIOUS
<1>2. SpaceUsed(n) = Len(n.lower) + Len(n.upper)
  <2>1. SlotBytes(n)[Count(n)] = 0
    BY SlotBytesSum
  <2>2. Len(n.lower) \in Nat /\ Len(n.upper) \in Nat
    BY SpaceNumbers
  <2> QED BY <2>1, <2>2 DEF SpaceUsed
<1>3. SlotsEnd(d) <= d.dataOffset
  <2>1. HeaderSize \in Nat /\ SlotSize * 0 = 0
    BY BTreeAssumption
  <2> QED BY <1>1, <2>1 DEF SlotsEnd
<1>4. SlotsApart(d.slot)
  BY <1>1 DEF SlotsApart
<1> QED BY <1>1, <1>2, <1>3, <1>4 DEF Holds

LEMMA InitHolds ==
    ASSUME NEW n \in Page, n.lower = << >>, n.upper = << >>, Count(n) = 0
    PROVE  Holds(InitPage(PageSize(n)), n)
<1> DEFINE z == PageSize(n)
           h == InitPage(z)
<1>1. z \in Nat /\ HeaderSize <= z
  BY SpaceNumbers
<1>2. /\ h \in Layout
      /\ h.size = z /\ h.slot = << >> /\ h.spaceUsed = 0 /\ h.dataOffset = z
      /\ h.lower = [offset |-> 0, length |-> 0] /\ h.upper = [offset |-> 0, length |-> 0]
      /\ h.prefixLength = 0
      /\ DOMAIN h.mem = 0 .. (z - 1)
  BY <1>1, InitPageFields
<1> HIDE DEF h
<1>3. PrefixLen(n) = 0
  <2>1. PrefixLen(n) \in 0 .. Len(n.lower) /\ Len(n.lower) = 0
    BY PrefixLenNat
  <2> QED BY <2>1
<1>4. Placed(h, h.lower.offset, n.lower) /\ Placed(h, h.upper.offset, n.upper)
  BY DEF Placed
<1>5. FencesHold(h, n)
  BY <1>1, <1>2, <1>3, <1>4 DEF FencesHold, Apart
<1>6. h.spaceUsed = Len(n.lower) + Len(n.upper) /\ HeaderSize <= h.dataOffset
  BY <1>1, <1>2
<1>7. Holds(h, n)
  BY <1>2, <1>5, <1>6, EmptyHolds
<1> QED BY <1>7 DEF h

(* setFences puts the fences at the end of an empty page.                  *)
LEMMA FencesFields ==
    ASSUME NEW h \in Layout, NEW a \in Bytes, NEW b \in Bytes,
           NEW d, d = SetFences(h, a, b)
    PROVE  LET l == Push(h, a)
               u == Push(l, b)
           IN  /\ d \in Layout
               /\ d.size = u.size /\ d.slot = u.slot /\ d.hint = u.hint /\ d.mem = u.mem
               /\ d.dataOffset = u.dataOffset /\ d.spaceUsed = u.spaceUsed
               /\ d.lower = [offset |-> l.dataOffset, length |-> Len(a)]
               /\ d.upper = [offset |-> u.dataOffset, length |-> Len(b)]
               /\ d.prefixLength = CommonPrefixLen(a, b)
               /\ l \in Layout /\ u \in Layout
<1> DEFINE l == Push(h, a)
           u == Push(l, b)
           lower == [offset |-> l.dataOffset, length |-> Len(a)]
           upper == [offset |-> u.dataOffset, length |-> Len(b)]
           c == CommonPrefixLen(a, b)
<1>1. a \in Seq(Cell) /\ b \in Seq(Cell) /\ Len(a) \in Nat /\ Len(b) \in Nat
  BY BytesAreCells, BytesType
<1>2. l \in Layout
  BY <1>1, PushFields
<1> HIDE DEF l
<1>3. u \in Layout
  BY <1>1, <1>2, PushFields
<1> HIDE DEF u
<1>4. lower \in Fence /\ upper \in Fence
  BY <1>1, <1>2, <1>3 DEF Layout, Fence
<1>5. c \in Nat
  BY <1>1, CommonPrefixProperties
<1>6. d = [u EXCEPT !.lower = lower, !.upper = upper, !.prefixLength = c]
  BY DEF SetFences, l, u
<1> HIDE DEF lower, upper, c
<1>7. d \in Layout
  BY <1>3, <1>4, <1>5, <1>6 DEF Layout
<1>8. d.lower = lower /\ d.upper = upper /\ d.prefixLength = c
  BY <1>3, <1>6 DEF Layout
<1>9. /\ d.size = u.size /\ d.slot = u.slot /\ d.hint = u.hint /\ d.mem = u.mem
      /\ d.dataOffset = u.dataOffset /\ d.spaceUsed = u.spaceUsed
  BY <1>3, <1>6 DEF Layout
<1> QED BY <1>2, <1>3, <1>7, <1>8, <1>9 DEF l, u, lower, upper, c

LEMMA FencesPlaced ==
    ASSUME NEW n \in Page, HeaderSize + Len(n.lower) + Len(n.upper) <= PageSize(n),
           NEW d, d = SetFences(InitPage(PageSize(n)), n.lower, n.upper)
    PROVE  /\ FencesHold(d, n) /\ d.slot = << >>
           /\ d.spaceUsed = Len(n.lower) + Len(n.upper)
           /\ d.dataOffset + d.spaceUsed = d.size /\ HeaderSize <= d.dataOffset
<1> DEFINE a == n.lower
           b == n.upper
           h == InitPage(PageSize(n))
           l == Push(h, a)
           u == Push(l, b)
           z == PageSize(n)
           x == Len(a)
           y == Len(b)
<1>0. a \in Bytes /\ b \in Bytes /\ a \in Seq(Cell) /\ b \in Seq(Cell)
  BY PageFacts, BytesAreCells
<1>1. x \in Nat /\ y \in Nat /\ HeaderSize \in Nat /\ z \in Nat /\ HeaderSize + x + y <= z
  BY <1>0, BytesType, SpaceNumbers
<1> HIDE DEF z
<1>2. /\ h \in Layout /\ h.size = z /\ h.slot = << >> /\ h.spaceUsed = 0 /\ h.dataOffset = z
      /\ DOMAIN h.mem = 0 .. (z - 1)
  <2>1. h = InitPage(z)
    BY DEF z
  <2> QED BY <1>1, <2>1, InitPageFields
<1>3. /\ l \in Layout /\ l.size = z /\ l.slot = << >> /\ DOMAIN l.mem = 0 .. (z - 1)
      /\ l.dataOffset = z - x /\ l.spaceUsed = x
  <2>1. /\ l \in Layout /\ SameFrame(l, h) /\ l.slot = h.slot
        /\ l.dataOffset = h.dataOffset - x /\ l.spaceUsed = h.spaceUsed + x
    <3>1. h \in Layout /\ a \in Seq(Cell) /\ l = Push(h, a)
      BY <1>0, <1>2
    <3> HIDE DEF l, h, a
    <3> QED BY ONLY <3>1, PushFields
  <2> HIDE DEF l, x
  <2> QED BY <1>1, <1>2, <2>1 DEF SameFrame
<1>4. Placed(l, l.dataOffset, a)
  <2>1. DOMAIN h.mem = 0 .. (h.size - 1) /\ h.dataOffset <= h.size /\ x <= h.dataOffset
    <3> HIDE DEF x, y
    <3> QED BY <1>1, <1>2
  <2> QED BY <1>0, <1>2, <2>1, PushPlaces
<1> HIDE DEF l
<1>5. /\ u \in Layout /\ u.size = z /\ u.slot = << >> /\ DOMAIN u.mem = 0 .. (z - 1)
      /\ u.dataOffset = z - x - y /\ u.spaceUsed = x + y
  <2>1. /\ u \in Layout /\ SameFrame(u, l) /\ u.slot = l.slot
        /\ u.dataOffset = l.dataOffset - y /\ u.spaceUsed = l.spaceUsed + y
    <3>1. l \in Layout /\ b \in Seq(Cell) /\ u = Push(l, b)
      BY <1>0, <1>3
    <3> HIDE DEF u, b
    <3> QED BY ONLY <3>1, PushFields
  <2> HIDE DEF u, x, y
  <2> QED BY <1>1, <1>3, <2>1 DEF SameFrame
<1>6. Placed(u, u.dataOffset, b) /\ GrownFrom(u, l)
  <2>1. DOMAIN l.mem = 0 .. (l.size - 1) /\ l.dataOffset <= l.size /\ y <= l.dataOffset
    <3> HIDE DEF x, y
    <3> QED BY <1>1, <1>3
  <2> QED BY <1>0, <1>3, <2>1, PushPlaces
<1> HIDE DEF u
<1>7. Placed(u, l.dataOffset, a)
  BY <1>3, <1>4, <1>5, <1>6, GrownKeeps
<1>8. /\ d \in Layout
      /\ d.size = u.size /\ d.slot = u.slot /\ d.hint = u.hint /\ d.mem = u.mem
      /\ d.dataOffset = u.dataOffset /\ d.spaceUsed = u.spaceUsed
      /\ d.lower = [offset |-> l.dataOffset, length |-> x]
      /\ d.upper = [offset |-> u.dataOffset, length |-> y]
      /\ d.prefixLength = CommonPrefixLen(a, b)
  BY <1>0, <1>2, FencesFields DEF l, u
<1>9. Placed(d, d.lower.offset, a) /\ Placed(d, d.upper.offset, b)
  BY <1>6, <1>7, <1>8 DEF Placed
<1>14. d.lower.length = Len(a) /\ d.upper.length = Len(b)
  BY <1>8
<1> HIDE DEF x, y
<1>10. d.dataOffset \in 0 .. d.size /\ HeaderSize <= d.dataOffset
  BY <1>1, <1>5, <1>8
<1>11. Apart(d.lower.offset, d.lower.length, d.upper.offset, d.upper.length)
  BY <1>1, <1>3, <1>5, <1>8 DEF Apart
<1>12. d.prefixLength = PrefixLen(n)
  BY <1>8 DEF PrefixLen
<1>13. FencesHold(d, n)
  BY <1>5, <1>8, <1>9, <1>10, <1>11, <1>12, <1>14 DEF FencesHold, z
<1>15. d.spaceUsed = x + y /\ d.dataOffset + d.spaceUsed = d.size
  BY <1>1, <1>5, <1>8
<1> QED BY <1>5, <1>8, <1>10, <1>13, <1>15 DEF x, y

(***************************************************************************)
(* A page while it is filled: its first k slots.                           *)
(***************************************************************************)
First(w, k) == [w EXCEPT !.slot = SubSeq(@, 1, k)]

LEMMA FirstSlots ==
    ASSUME NEW w \in Page, NEW k \in 0 .. Count(w), NEW m, m = First(w, k)
    PROVE  /\ m \in Page /\ (IsLeaf(m) <=> IsLeaf(w)) /\ m.lower = w.lower /\ m.upper = w.upper
           /\ Count(m) = k
           /\ \A j \in 1 .. k : m.slot[j] = w.slot[j]
<1>1. w.slot \in Seq(SlotType(w)) /\ Len(w.slot) \in Nat
  BY PageFacts DEF SlotType, Count
<1> DEFINE z == w.slot
           q == SubSeq(z, 1, k)
           X == SlotType(w)
<1>2. /\ q \in Seq(X) /\ Len(q) = k
      /\ \A j \in 1 .. k : q[j] = z[j]
  <2>1. z \in Seq(X) /\ k \in 0 .. Len(z) /\ \A j \in 1 .. Len(z) : z[j] \in X
    BY <1>1, ElementOfSeq DEF Count
  <2> HIDE DEF z, X
  <2>2. 1 \in Int /\ k \in Int /\ \A i \in 1 .. k : z[i] \in X
    BY <2>1, LenProperties
  <2> QED BY <2>1, <2>2, SubSeqProperties
<1> HIDE DEF q, X
<1>3. m = [w EXCEPT !.slot = q]
  BY DEF First, q
<1>4. /\ m \in Page /\ m.slot = q /\ m.lower = w.lower /\ m.upper = w.upper
      /\ (IsLeaf(m) <=> IsLeaf(w))
  BY <1>2, <1>3, WithSlots DEF X
<1> QED BY <1>2, <1>4 DEF Count

LEMMA FirstAll ==
    ASSUME NEW w \in Page
    PROVE  First(w, Count(w)) = w
<1>1. w.slot \in Seq(SlotType(w)) /\ Count(w) \in Nat
  BY PageFacts DEF SlotType
<1> DEFINE m == First(w, Count(w))
<1>2. m \in Page /\ Count(m) = Count(w) /\ \A j \in 1 .. Count(w) : m.slot[j] = w.slot[j]
  BY <1>1, FirstSlots
<1>3. SubSeq(w.slot, 1, Count(w)) = w.slot
  <2>1. m.slot = SubSeq(w.slot, 1, Count(w))
    BY DEF First, Page, LeafPage, InnerPage
  <2>2. m.slot \in Seq(SlotType(m))
    BY <1>2, PageFacts DEF SlotType
  <2> HIDE DEF m
  <2>3. m.slot = w.slot
    <3> DEFINE z == w.slot
               q == m.slot
               X == SlotType(w)
               Y == SlotType(m)
    <3>1. z \in Seq(X) /\ q \in Seq(Y) /\ Len(z) = Len(q) /\ \A j \in 1 .. Len(z) : q[j] = z[j]
      BY <1>1, <1>2, <2>2 DEF Count
    <3> HIDE DEF z, q, X, Y
    <3>2. q \in Seq(X \cup Y) /\ z \in Seq(X \cup Y)
      BY <3>1, SeqMonotonic
    <3>3. q = z
      BY ONLY <3>1, <3>2, SeqEqual
    <3> QED BY <3>3 DEF z, q
  <2> QED BY <2>1, <2>3
<1> QED BY <1>3 DEF First, Page, LeafPage, InnerPage

(* The slots of such a page take what they take in the whole.              *)
LEMMA FirstUses ==
    ASSUME NEW w \in Page, NEW k \in 0 .. Count(w)
    PROVE  SlotBytes(First(w, k))[k] = SlotBytes(w)[k]
<1> DEFINE m == First(w, k)
           c == Count(w)
           T == {j \in 0 .. k : SlotBytes(m)[j] = SlotBytes(w)[j]}
<1>1. c \in Nat /\ k \in Nat
  BY PageFacts
<1>2. /\ m \in Page /\ (IsLeaf(m) <=> IsLeaf(w)) /\ m.lower = w.lower /\ m.upper = w.upper
      /\ Count(m) = k
      /\ \A j \in 1 .. k : m.slot[j] = w.slot[j]
  BY FirstSlots
<1>3. /\ SlotBytes(w)[0] = 0
      /\ \A i \in 1 .. k : SlotBytes(w)[i] = SlotBytes(w)[i - 1] + EntryLen(w, w.slot[i])
  <2>1. \A i \in 1 .. k : i \in 1 .. c
    BY <1>1
  <2> QED BY <2>1, SlotBytesSum
<1>4. /\ SlotBytes(m)[0] = 0
      /\ \A i \in 1 .. k : SlotBytes(m)[i] = SlotBytes(m)[i - 1] + EntryLen(m, m.slot[i])
  BY <1>2, SlotBytesSum
<1>5. \A i \in 1 .. k : EntryLen(m, m.slot[i]) = EntryLen(w, w.slot[i])
  BY <1>2, SameEntryLen
<1> HIDE DEF m
<1>6. 0 .. k \subseteq T
  <2>1. 0 \in T
    BY <1>1, <1>3, <1>4
  <2>2. \A i \in 1 .. k : i - 1 \in T => i \in T
    BY <1>3, <1>4, <1>5
  <2> HIDE DEF T
  <2> QED BY <1>1, <2>1, <2>2, UpTo
<1> QED BY <1>1, <1>6 DEF m

LEMMA SlotBytesGrow ==
    ASSUME NEW w \in Page, PageOK(w), NEW k \in 0 .. Count(w)
    PROVE  SlotBytes(w)[k] <= SlotBytes(w)[Count(w)]
<1> DEFINE c == Count(w)
           T == {d \in 0 .. (c - k) : SlotBytes(w)[k] <= SlotBytes(w)[k + d]}
<1>1. c \in Nat /\ k \in Nat /\ c - k \in Nat
  BY PageFacts
<1>2. \A i \in 0 .. c : SlotBytes(w)[i] \in Int
  BY SlotBytesSum
<1>3. \A i \in 1 .. c : SlotBytes(w)[i - 1] <= SlotBytes(w)[i]
  <2> TAKE i \in 1 .. c
  <2>1. EntryLen(w, w.slot[i]) \in Int /\ EntryLen(w, w.slot[i]) >= 0
    BY EntryLenInt, EntryLenNat
  <2>2. SlotBytes(w)[i] = SlotBytes(w)[i - 1] + EntryLen(w, w.slot[i])
    BY SlotBytesSum
  <2>3. i - 1 \in 0 .. c
    BY <1>1
  <2> QED BY <1>2, <2>1, <2>2, <2>3
<1>4. 0 .. (c - k) \subseteq T
  <2>1. 0 \in T
    BY <1>1, <1>2
  <2>2. ASSUME NEW d \in 1 .. (c - k), d - 1 \in T PROVE d \in T
    <3>1. k + d \in 1 .. c /\ k + (d - 1) = (k + d) - 1 /\ (k + d) - 1 \in 0 .. c /\ k \in 0 .. c
      BY <1>1
    <3>2. SlotBytes(w)[k] <= SlotBytes(w)[(k + d) - 1]
      BY <2>2, <3>1
    <3>3. SlotBytes(w)[k] <= SlotBytes(w)[k + d]
      BY <1>2, <1>3, <3>1, <3>2
    <3> QED BY <3>3
  <2> HIDE DEF T
  <2> QED BY <1>1, <2>1, <2>2, UpTo
<1>5. c - k \in T
  BY <1>1, <1>4
<1>6. k + (c - k) = c
  BY <1>1
<1> QED BY <1>5, <1>6

(* A page that has room for all its slots has room for the first ones.     *)
LEMMA FirstRoom ==
    ASSUME NEW w \in Page, PageOK(w), Fits(w), NEW k \in 0 .. Count(w)
    PROVE  /\ SpaceUsed(First(w, k)) = Len(w.lower) + Len(w.upper) + SlotBytes(w)[k]
           /\ SpaceUsed(First(w, k)) \in Int
           /\ HeaderSize + SlotSize * k + SpaceUsed(First(w, k)) <= PageSize(w)
<1> DEFINE m == First(w, k)
           c == Count(w)
<1>1. /\ Len(w.lower) \in Nat /\ Len(w.upper) \in Nat /\ c \in Nat
      /\ SlotBytes(w)[c] \in Int /\ SpaceUsed(w) = Len(w.lower) + Len(w.upper) + SlotBytes(w)[c]
      /\ HeaderSize \in Nat /\ SlotSize \in Nat /\ PageSize(w) \in Nat
      /\ SlotSize * c \in Nat
  BY SpaceNumbers
<1>2. SlotBytes(w)[k] \in Int /\ SlotBytes(w)[k] <= SlotBytes(w)[c]
  BY SlotBytesSum, SlotBytesGrow
<1>3. SpaceUsed(m) = Len(w.lower) + Len(w.upper) + SlotBytes(w)[k]
  <2>1. m.lower = w.lower /\ m.upper = w.upper /\ Count(m) = k
    BY FirstSlots
  <2> QED BY <2>1, FirstUses DEF SpaceUsed
<1>4. SlotSize * k \in Nat /\ SlotSize * k <= SlotSize * c
  <2>1. k \in Nat /\ c - k \in Nat
    BY <1>1
  <2>2. SlotSize * c = SlotSize * k + SlotSize * (c - k)
    BY <1>1, <2>1
  <2>3. SlotSize * (c - k) \in Nat /\ SlotSize * k \in Nat
    BY <1>1, <2>1
  <2> QED BY <2>2, <2>3
<1>5. PageSize(w) - (HeaderSize + SlotSize * c) - SpaceUsed(w) >= 0
  BY DEF Fits, FreeSpaceAfterCompaction
<1> DEFINE a == SlotSize * c
           b == SlotSize * k
           x == SlotBytes(w)[k]
           y == SlotBytes(w)[c]
           u == Len(w.lower)
           v == Len(w.upper)
           su == SpaceUsed(w)
           sm == SpaceUsed(m)
           z == PageSize(w)
<1>6. /\ u \in Nat /\ v \in Nat /\ x \in Int /\ y \in Int /\ x <= y /\ a \in Nat /\ b \in Nat /\ b <= a
      /\ z \in Nat /\ HeaderSize \in Nat /\ su = u + v + y /\ sm = u + v + x
      /\ z - (HeaderSize + a) - su >= 0
  BY <1>1, <1>2, <1>3, <1>4, <1>5
<1> HIDE DEF a, b, x, y, u, v, su, sm, z
<1>7. sm = u + v + x /\ sm \in Int /\ HeaderSize + b + sm <= z
  BY <1>6
<1> QED BY <1>7 DEF a, b, x, y, u, v, su, sm, z

(***************************************************************************)
(* Reading a page back.                                                    *)
(***************************************************************************)
LEMMA FencesRead ==
    ASSUME NEW n \in Page, NEW h, FencesHold(h, n)
    PROVE  LowerBytes(h) = n.lower /\ UpperBytes(h) = n.upper
<1>1. /\ h \in Layout /\ DOMAIN h.mem = 0 .. (h.size - 1) /\ h.dataOffset >= 0
      /\ h.lower.length = Len(n.lower) /\ Placed(h, h.lower.offset, n.lower)
      /\ h.upper.length = Len(n.upper) /\ Placed(h, h.upper.offset, n.upper)
  BY DEF FencesHold
<1>2. /\ n.lower \in Seq(Cell) /\ n.upper \in Seq(Cell)
      /\ h.lower.offset \in Int /\ h.upper.offset \in Int
  BY <1>1, PageFacts, BytesAreCells DEF Layout, Fence
<1>3. Read(h, h.lower.offset, Len(n.lower)) = n.lower
  BY <1>1, <1>2, PlacedIsRead
<1>4. Read(h, h.upper.offset, Len(n.upper)) = n.upper
  BY <1>1, <1>2, PlacedIsRead
<1> QED BY <1>1, <1>3, <1>4 DEF LowerBytes, UpperBytes

LEMMA SlotInPage ==
    ASSUME NEW n \in Page, PageOK(n), NEW i \in 1 .. Count(n)
    PROVE  /\ n.slot[i] \in SlotType(n)
           /\ n.slot[i].key \in Bytes
           /\ InFences(n.slot[i].key, n.lower, n.upper)
           /\ PrefixLen(n) <= Len(n.slot[i].key)
<1>1. n.slot[i] \in SlotType(n) /\ n.slot[i].key \in Bytes
  BY PageFacts DEF SlotType
<1>2. InFences(n.slot[i].key, n.lower, n.upper)
  BY DEF PageOK
<1> QED BY <1>1, <1>2, KeyHasPrefix

LEMMA SlotRead ==
    ASSUME NEW n \in Page, PageOK(n), NEW h, Holds(h, n), NEW i \in 1 .. Count(n)
    PROVE  /\ KeyBytes(h, i) = SuffixOf(n, n.slot[i])
           /\ PayloadCells(h, i) = PayloadOf(n, n.slot[i])
           /\ h.slot[i].keyLen = Len(SuffixOf(n, n.slot[i]))
<1> DEFINE u == SuffixOf(n, n.slot[i])
           v == PayloadOf(n, n.slot[i])
           at == h.slot[i].offset
<1>1. u \in Seq(Cell) /\ v \in Seq(Cell) /\ Len(u) \in Nat
  BY SlotInPage, RecordBytes
<1>2. /\ h \in Layout /\ DOMAIN h.mem = 0 .. (h.size - 1) /\ h.dataOffset >= 0
      /\ Len(h.slot) = Count(n)
      /\ Placed(h, at, u \o v)
      /\ h.slot[i].keyLen = Len(u) /\ h.slot[i].payloadLen = Len(v)
  BY DEF Holds, FencesHold, SlotHolds
<1>3. at \in Int
  BY <1>2, SlotTyped
<1> HIDE DEF u, v, at
<1>4. Placed(h, at, u) /\ Placed(h, at + Len(u), v) /\ at + Len(u) \in Int
  <2>1. h \in Layout /\ at \in Int /\ u \in Seq(Cell) /\ v \in Seq(Cell) /\ Placed(h, at, u \o v)
    BY <1>1, <1>2, <1>3
  <2>2. Placed(h, at, u) /\ Placed(h, at + Len(u), v)
    BY ONLY <2>1, PlacedParts
  <2> QED BY <1>1, <1>3, <2>2
<1>5. Read(h, at, Len(u)) = u
  BY <1>1, <1>2, <1>3, <1>4, PlacedIsRead
<1>6. Read(h, at + Len(u), Len(v)) = v
  BY <1>1, <1>2, <1>4, PlacedIsRead
<1> QED BY <1>2, <1>5, <1>6 DEF KeyBytes, PayloadCells, at, u, v

LEMMA SuffixOfSuffix ==
    ASSUME NEW S, NEW s \in Seq(S), NEW a \in Nat, NEW b \in Nat, a + b <= Len(s)
    PROVE  Suffix(Suffix(s, a), b) = Suffix(s, a + b)
<1> DEFINE t == Suffix(s, a)
           u == Suffix(t, b)
           v == Suffix(s, a + b)
<1>1. Len(s) \in Nat /\ a + b \in Nat
  BY LenProperties
<1>2. t \in Seq(S) /\ Len(t) = Len(s) - a /\ \A j \in 1 .. (Len(s) - a) : t[j] = s[a + j]
  <2>1. a <= Len(s)
    BY <1>1
  <2>2. /\ t \in Seq(S) /\ (a <= Len(s) => Len(t) = Len(s) - a)
        /\ \A j \in 1 .. (Len(s) - a) : t[j] = s[a + j]
    BY SuffixProperties
  <2> QED BY <2>1, <2>2
<1>3. v \in Seq(S) /\ Len(v) = Len(s) - (a + b) /\ \A j \in 1 .. (Len(s) - (a + b)) : v[j] = s[(a + b) + j]
  BY <1>1, SuffixProperties
<1> HIDE DEF t
<1>4. u \in Seq(S) /\ Len(u) = Len(t) - b /\ \A j \in 1 .. (Len(t) - b) : u[j] = t[b + j]
  <2>1. b <= Len(t) /\ t \in Seq(S)
    BY <1>1, <1>2
  <2>2. /\ u \in Seq(S) /\ (b <= Len(t) => Len(u) = Len(t) - b)
        /\ \A j \in 1 .. (Len(t) - b) : u[j] = t[b + j]
    BY ONLY <2>1, b \in Nat, SuffixProperties
  <2> QED BY <2>1, <2>2
<1> HIDE DEF u, v
<1>5. Len(u) = Len(v)
  BY <1>1, <1>2, <1>3, <1>4
<1>6. ASSUME NEW j \in 1 .. Len(u) PROVE u[j] = v[j]
  <2>1. /\ j \in 1 .. (Len(t) - b) /\ j \in 1 .. (Len(s) - (a + b)) /\ b + j \in 1 .. (Len(s) - a)
        /\ a + (b + j) = (a + b) + j
    BY <1>1, <1>2, <1>3, <1>4
  <2> QED BY <1>2, <1>3, <1>4, <2>1
<1>7. u = v
  BY <1>3, <1>4, <1>5, <1>6, SeqEqual
<1> QED BY <1>7 DEF t, u, v

(* A key is its page's prefix and the bytes that are stored.               *)
LEMMA PrefixPutBack ==
    ASSUME NEW k \in Bytes, NEW a \in Bytes, NEW c \in Nat, SharePrefix(k, a, c)
    PROVE  /\ Take(a, c) \o Suffix(k, c) = k
           /\ Take(a, c) \o Suffix(k, c) \in Bytes
<1> DEFINE x == Take(a, c)
           y == Suffix(k, c)
<1>1. Len(k) \in Nat /\ Len(a) \in Nat /\ c <= Len(k) /\ c <= Len(a) /\ \A j \in 1 .. c : k[j] = a[j]
  BY BytesType DEF SharePrefix
<1>2. x \in Bytes /\ Len(x) = c /\ \A j \in 1 .. c : x[j] = a[j]
  BY <1>1, TakeProperties
<1>3. y \in Bytes /\ Len(y) = Len(k) - c /\ \A j \in 1 .. (Len(k) - c) : y[j] = k[c + j]
  BY <1>1, SuffixProperties DEF Bytes
<1> HIDE DEF x, y
<1>4. /\ x \o y \in Bytes /\ Len(x \o y) = Len(x) + Len(y)
      /\ \A i \in 1 .. Len(x) + Len(y) : (x \o y)[i] = IF i <= Len(x) THEN x[i] ELSE y[i - Len(x)]
  BY <1>2, <1>3, ConcatProperties DEF Bytes
<1>5. Len(x \o y) = Len(k)
  BY <1>1, <1>2, <1>3, <1>4
<1>6. ASSUME NEW i \in 1 .. Len(k) PROVE (x \o y)[i] = k[i]
  <2>1. CASE i <= c
    <3>1. i \in 1 .. c /\ i \in 1 .. Len(x) + Len(y) /\ i <= Len(x)
      BY <1>1, <1>2, <1>3, <2>1
    <3> QED BY <1>1, <1>2, <1>4, <3>1
  <2>2. CASE i > c
    <3>1. i - c \in 1 .. (Len(k) - c) /\ i \in 1 .. Len(x) + Len(y) /\ ~(i <= Len(x)) /\ c + (i - c) = i
      BY <1>1, <1>2, <1>3, <2>2
    <3>2. y[i - c] = k[i]
      BY <1>3, <3>1
    <3>3. (x \o y)[i] = y[i - c]
      BY <1>2, <1>4, <3>1
    <3> QED BY <3>2, <3>3
  <2>3. i <= c \/ i > c
    BY <1>1
  <2> QED BY <2>1, <2>2, <2>3
<1>7. x \o y = k
  BY <1>4, <1>5, <1>6, BytesEqual
<1> QED BY <1>4, <1>7 DEF x, y

(* copyKeyValue stores the record under the target's prefix, whether that  *)
(* is longer than the source's or shorter.                                 *)
LEMMA CopyIsStore ==
    ASSUME NEW n \in Page, PageOK(n), NEW src, Holds(src, n), NEW i \in 1 .. Count(n),
           NEW w \in Page, IsLeaf(w) <=> IsLeaf(n), PrefixLen(w) <= Len(n.slot[i].key),
           NEW d, d.prefixLength = PrefixLen(w)
    PROVE  CopyKeyValue(src, d, i) =
              StoreSuffix(d, Len(d.slot) + 1, SuffixOf(w, n.slot[i]), PayloadOf(w, n.slot[i]))
<1> DEFINE k == n.slot[i].key
           a == PrefixLen(n)
           b == PrefixLen(w)
<1>1. k \in Bytes /\ Len(k) \in Nat /\ a \in Nat /\ b \in Nat /\ a <= Len(k) /\ b <= Len(k)
  BY SlotInPage, BytesType, PrefixLenNat
<1>2. SharePrefix(k, n.lower, a) /\ n.lower \in Bytes
  BY SlotInPage, KeyHasPrefix, PageFacts
<1>3. /\ KeyBytes(src, i) = Suffix(k, a) /\ PayloadCells(src, i) = PayloadOf(n, n.slot[i])
      /\ LowerBytes(src) = n.lower
      /\ src.prefixLength = a
  <2>1. LowerBytes(src) = n.lower /\ src.prefixLength = a
    BY FencesRead DEF Holds, FencesHold
  <2> QED BY <2>1, SlotRead DEF SuffixOf
<1>4. PayloadOf(w, n.slot[i]) = PayloadOf(n, n.slot[i])
  BY DEF PayloadOf
<1>5. SuffixOf(w, n.slot[i]) = Suffix(k, b)
  BY DEF SuffixOf
<1>6. CASE a <= b
  <2>1. b - a \in Nat /\ a + (b - a) = b
    BY <1>1, <1>6
  <2>2. Suffix(Suffix(k, a), b - a) = Suffix(k, a + (b - a))
    <3> HIDE DEF a, b, k
    <3> QED BY <1>1, <2>1, SuffixOfSuffix DEF Bytes
  <2>3. Suffix(KeyBytes(src, i), b - a) = Suffix(k, b)
    BY <1>3, <2>1, <2>2
  <2> QED BY <1>3, <1>4, <1>5, <1>6, <2>3 DEF CopyKeyValue
<1>7. CASE ~(a <= b)
  <2>1. Take(LowerBytes(src), a) \o KeyBytes(src, i) = k
    <3> DEFINE f == n.lower
    <3>1. Take(f, a) \o Suffix(k, a) = k
      <4>1. k \in Bytes /\ f \in Bytes /\ a \in Nat /\ SharePrefix(k, f, a)
        BY <1>1, <1>2
      <4> HIDE DEF k, f, a
      <4> QED BY ONLY <4>1, PrefixPutBack
    <3> QED BY <1>3, <3>1
  <2> QED BY <1>3, <1>4, <1>5, <1>7, <2>1 DEF CopyKeyValue, StoreKeyValue
<1> QED BY <1>6, <1>7

(***************************************************************************)
(* Copying records.                                                        *)
(***************************************************************************)
LEMMA CopyTyped ==
    ASSUME NEW n \in Page, PageOK(n), NEW src, Holds(src, n), NEW i \in 1 .. Count(n),
           NEW d \in Layout
    PROVE  CopyKeyValue(src, d, i) \in Layout
<1> DEFINE key == KeyBytes(src, i)
           cells == PayloadCells(src, i)
           full == Take(LowerBytes(src), src.prefixLength) \o key
           at == Len(d.slot) + 1
<1>1. key \in Seq(Cell) /\ cells \in Seq(Cell)
  <2> DEFINE s == n.slot[i]
  <2>1. s \in SlotType(n) /\ PrefixLen(n) <= Len(s.key)
    BY SlotInPage
  <2>2. key = SuffixOf(n, s) /\ cells = PayloadOf(n, s)
    BY SlotRead
  <2> HIDE DEF s, key, cells
  <2> QED BY <2>1, <2>2, RecordBytes
<1>2. full \in Seq(Cell)
  <2>1. LowerBytes(src) = n.lower /\ src.prefixLength = PrefixLen(n)
    BY FencesRead DEF Holds, FencesHold
  <2>2. Take(n.lower, PrefixLen(n)) \in Seq(Cell)
    BY PageFacts, PrefixLenNat, TakeProperties, BytesAreCells
  <2> QED BY <1>1, <2>1, <2>2, ConcatProperties
<1>3. src.prefixLength \in Nat /\ d.prefixLength \in Nat
  BY DEF Layout, Holds, FencesHold
<1>4. at \in 1 .. Len(d.slot) + 1
  BY LenProperties DEF Layout
<1> HIDE DEF key, cells, full, at
<1>5. ASSUME NEW suffix \in Seq(Cell) PROVE StoreSuffix(d, at, suffix, cells) \in Layout
  <2>1. at \in 1 .. Len(d.slot) + 1 /\ suffix \in Seq(Cell) /\ cells \in Seq(Cell)
    BY <1>1, <1>4, <1>5
  <2> QED BY ONLY <2>1, d \in Layout, StoreFields
<1>6. CASE src.prefixLength <= d.prefixLength
  <2>1. Suffix(key, d.prefixLength - src.prefixLength) \in Seq(Cell)
    <3>1. d.prefixLength - src.prefixLength \in Nat
      BY <1>3, <1>6
    <3> QED BY <1>1, <3>1, SuffixProperties
  <2> QED BY <1>5, <1>6, <2>1 DEF CopyKeyValue, key, cells, at
<1>7. CASE ~(src.prefixLength <= d.prefixLength)
  <2>1. Suffix(full, d.prefixLength) \in Seq(Cell)
    BY <1>2, <1>3, SuffixProperties
  <2> QED BY <1>5, <1>7, <2>1 DEF CopyKeyValue, StoreKeyValue, full, key, cells, at
<1> QED BY <1>6, <1>7

LEMMA CopySteps ==
    ASSUME NEW n \in Page, PageOK(n), NEW src, Holds(src, n),
           NEW dst \in Layout, NEW from \in Nat \ {0}, NEW c \in Nat, from + c <= Count(n) + 1,
           NEW copied, copied = CopyEach(src, dst, from, c)
    PROVE  /\ copied[0] = dst
           /\ \A i \in 1 .. c : copied[i] = CopyKeyValue(src, copied[i - 1], from + i - 1)
<1> DEFINE f == [p \in (1 .. c) \X Layout |-> CopyKeyValue(src, p[2], from + p[1] - 1)]
<1>1. ASSUME NEW i \in 1 .. c, NEW d \in Layout
      PROVE  CopyKeyValue(src, d, from + i - 1) \in Layout
  <2>1. from + i - 1 \in 1 .. Count(n)
    BY PageFacts
  <2> QED BY <2>1, CopyTyped
<1>2. f \in [(1 .. c) \X Layout -> Layout]
  BY <1>1
<1> DEFINE X == Layout
<1>3. f \in [(1 .. c) \X X -> X] /\ dst \in X
  BY <1>2
<1> HIDE DEF f, X
<1>4. PICK g \in [0 .. c -> X] : IsStepwise(g, f, dst, c)
  BY <1>3, Stepwise
<1>5. g[0] = dst /\ \A i \in 1 .. c : g[i] = f[<<i, g[i - 1]>>]
  BY <1>4 DEF IsStepwise
<1>6. \A i \in 1 .. c : g[i] = CopyKeyValue(src, g[i - 1], from + i - 1)
  <2> TAKE i \in 1 .. c
  <2>1. i - 1 \in 0 .. c
    OBVIOUS
  <2>2. <<i, g[i - 1]>> \in (1 .. c) \X Layout
    BY <1>4, <2>1 DEF X
  <2> QED BY <1>5, <2>2 DEF f
<1>7. g = [i \in 0 .. c |-> IF i = 0 THEN dst ELSE CopyKeyValue(src, g[i - 1], from + i - 1)]
  BY <1>4, <1>5, <1>6
<1>8. copied = [i \in 0 .. c |-> IF i = 0 THEN dst ELSE CopyKeyValue(src, copied[i - 1], from + i - 1)]
  BY <1>7 DEF CopyEach
<1>9. 0 \in 0 .. c /\ \A i \in 1 .. c : i \in 0 .. c /\ i # 0
  OBVIOUS
<1> QED BY <1>8, <1>9, Zenon

(* Slots at + 1 .. at + c of w are slots from .. from + c - 1 of n.        *)
SameSlots(w, at, n, from, c) == \A j \in 1 .. c : w.slot[at + j] = n.slot[from + j - 1]

(* The target w is filled from slot "at" on with the source's slots from   *)
(* "from" on.                                                              *)
LEMMA CopyFills ==
    ASSUME NEW n \in Page, PageOK(n), NEW src, Holds(src, n),
           NEW w \in Page, PageOK(w), Fits(w), IsLeaf(w) <=> IsLeaf(n),
           NEW from \in Nat \ {0}, NEW c \in Nat, from + c <= Count(n) + 1,
           NEW at \in Nat, at + c <= Count(w),
           SameSlots(w, at, n, from, c),
           NEW dst, Holds(dst, First(w, at)), dst.dataOffset + dst.spaceUsed = dst.size,
           NEW d, d = CopyEach(src, dst, from, c)[c]
    PROVE  Holds(d, First(w, at + c)) /\ d.dataOffset + d.spaceUsed = d.size
<1> DEFINE copied == CopyEach(src, dst, from, c)
           Good(j) == /\ Holds(copied[j], First(w, at + j))
                      /\ copied[j].dataOffset + copied[j].spaceUsed = copied[j].size
           T == {j \in 0 .. c : Good(j)}
<1>1. Count(n) \in Nat /\ Count(w) \in Nat /\ dst \in Layout
  BY PageFacts DEF Holds, FencesHold
<1>2. copied = CopyEach(src, dst, from, c)
  OBVIOUS
<1>3. d = copied[c]
  OBVIOUS
<1> HIDE DEF copied
<1>12. /\ copied[0] = dst
       /\ \A i \in 1 .. c : copied[i] = CopyKeyValue(src, copied[i - 1], from + i - 1)
  BY <1>1, <1>2, CopySteps
<1>4. 0 .. c \subseteq T
  <2>1. 0 \in T
    <3>1. at + 0 = at
      OBVIOUS
    <3> QED BY <1>12, <3>1
  <2>2. ASSUME NEW j \in 1 .. c, Good(j - 1)
        PROVE  Good(j)
    <3> DEFINE h == copied[j - 1]
               k == at + j
               p == First(w, k - 1)
               m == First(w, k)
               s == w.slot[k]
    <3>1. k \in 1 .. Count(w) /\ k - 1 \in 0 .. Count(w) /\ k \in 0 .. Count(w) /\ k \in Nat
          /\ at + (j - 1) = k - 1 /\ from + j - 1 \in 1 .. Count(n)
      BY <1>1
    <3>2. Holds(h, p) /\ h.dataOffset + h.spaceUsed = h.size
      BY <2>2, <3>1
    <3>3. /\ p \in Page /\ (IsLeaf(p) <=> IsLeaf(w)) /\ p.lower = w.lower /\ p.upper = w.upper
          /\ Count(p) = k - 1 /\ \A i \in 1 .. (k - 1) : p.slot[i] = w.slot[i]
      BY <3>1, FirstSlots
    <3>4. /\ m \in Page /\ (IsLeaf(m) <=> IsLeaf(w)) /\ m.lower = w.lower /\ m.upper = w.upper
          /\ Count(m) = k /\ \A i \in 1 .. k : m.slot[i] = w.slot[i]
      BY <3>1, FirstSlots
    <3>5. s = n.slot[from + j - 1] /\ s \in SlotType(w) /\ PrefixLen(w) <= Len(s.key)
      BY <3>1, SlotInPage DEF SameSlots
    <3>6. /\ m.slot[k] = s /\ s \in SlotType(m) /\ PrefixLen(m) = PrefixLen(w) /\ PrefixLen(p) = PrefixLen(w)
          /\ SuffixOf(m, s) = SuffixOf(w, s) /\ PayloadOf(m, s) = PayloadOf(w, s)
          /\ EntryLen(m, s) = EntryLen(w, s)
      <4>1. PrefixLen(m) = PrefixLen(w) /\ PrefixLen(p) = PrefixLen(w)
        BY <3>3, <3>4 DEF PrefixLen
      <4>2. EntryLen(m, s) = EntryLen(w, s)
        BY <3>4, SameEntryLen
      <4>3. k \in 1 .. k
        BY <3>1
      <4> QED BY <3>4, <3>5, <4>1, <4>2, <4>3 DEF SlotType, SuffixOf, PayloadOf
    <3>7. copied[j] = StoreSuffix(h, k, SuffixOf(m, s), PayloadOf(m, s))
      <4>1. h.prefixLength = PrefixLen(w) /\ Len(h.slot) = k - 1
        BY <3>2, <3>3, <3>6 DEF Holds, FencesHold
      <4>2. CopyKeyValue(src, h, from + j - 1) =
               StoreSuffix(h, Len(h.slot) + 1, SuffixOf(w, s), PayloadOf(w, s))
        <5> DEFINE i == from + j - 1
        <5>1. /\ i \in 1 .. Count(n) /\ s = n.slot[i] /\ PrefixLen(w) <= Len(n.slot[i].key)
              /\ n \in Page /\ PageOK(n) /\ Holds(src, n) /\ w \in Page /\ (IsLeaf(w) <=> IsLeaf(n))
          BY <3>1, <3>5
        <5> HIDE DEF i, s, h
        <5>2. CopyKeyValue(src, h, i) =
                StoreSuffix(h, Len(h.slot) + 1, SuffixOf(w, n.slot[i]), PayloadOf(w, n.slot[i]))
          BY ONLY <4>1, <5>1, CopyIsStore
        <5> QED BY <5>1, <5>2 DEF i
      <4>3. Len(h.slot) + 1 = k
        BY <3>1, <4>1
      <4> QED BY <1>12, <3>6, <4>2, <4>3
    <3>8. /\ SpaceUsed(p) \in Int /\ SpaceUsed(m) = SpaceUsed(p) + EntryLen(m, s)
          /\ HeaderSize + SlotSize * k + SpaceUsed(m) <= PageSize(w)
      <4>1. /\ SpaceUsed(p) = Len(w.lower) + Len(w.upper) + SlotBytes(w)[k - 1]
            /\ SpaceUsed(p) \in Int
        BY <3>1, FirstRoom
      <4>2. /\ SpaceUsed(m) = Len(w.lower) + Len(w.upper) + SlotBytes(w)[k]
            /\ HeaderSize + SlotSize * k + SpaceUsed(m) <= PageSize(w)
        BY <3>1, FirstRoom
      <4>3. SlotBytes(w)[k] = SlotBytes(w)[k - 1] + EntryLen(w, s)
        BY <3>1, SlotBytesSum
      <4>4. /\ SlotBytes(w)[k - 1] \in Int /\ EntryLen(w, s) \in Int
            /\ Len(w.lower) \in Nat /\ Len(w.upper) \in Nat
        BY <3>1, SlotBytesSum, EntryLenInt, SpaceNumbers
      <4>5. EntryLen(m, s) = EntryLen(w, s)
        BY <3>6
      <4> DEFINE u == SpaceUsed(p)
                 v == SpaceUsed(m)
                 e == EntryLen(w, s)
                 x == SlotBytes(w)[k - 1]
                 y == SlotBytes(w)[k]
                 a == Len(w.lower)
                 b == Len(w.upper)
      <4>6. /\ u = a + b + x /\ v = a + b + y /\ y = x + e
            /\ x \in Int /\ e \in Int /\ a \in Nat /\ b \in Nat
        BY <4>1, <4>2, <4>3, <4>4
      <4> HIDE DEF u, v, e, x, y, a, b
      <4>7. v = u + e
        BY <4>6
      <4> QED BY <4>1, <4>2, <4>5, <4>7 DEF u, v, e
    <3>9. SlotsEnd(h) + SlotSize + EntryLen(m, s) <= h.dataOffset
      <4>1. Len(h.slot) = k - 1 /\ h.spaceUsed = SpaceUsed(p) /\ h.size = PageSize(w)
        <5>1. PageSize(p) = PageSize(w)
          BY <3>3 DEF PageSize
        <5> QED BY <3>2, <3>3, <5>1 DEF Holds, FencesHold
      <4>2. SlotsEnd(h) + SlotSize = HeaderSize + SlotSize * k /\ SlotsEnd(h) \in Int /\ SlotSize * k \in Nat
        <5>1. SlotSize \in Nat /\ HeaderSize \in Nat
          BY BTreeAssumption
        <5>2. SlotSize * k = SlotSize * (k - 1) + SlotSize /\ SlotSize * (k - 1) \in Nat /\ SlotSize * k \in Nat
          BY <3>1, <5>1
        <5> QED BY <4>1, <5>1, <5>2 DEF SlotsEnd
      <4>3. h.dataOffset \in Int /\ PageSize(w) \in Nat /\ HeaderSize \in Nat /\ SlotSize \in Nat
            /\ EntryLen(m, s) \in Int
        <5>1. EntryLen(w, s) \in Int
          BY <3>1, EntryLenInt
        <5> QED BY <3>2, <3>6, <5>1, SpaceNumbers DEF Holds, FencesHold, Layout
      <4> DEFINE a == SlotsEnd(h)
                 b == SlotSize * k
                 x == SpaceUsed(p)
                 y == EntryLen(m, s)
                 z == PageSize(w)
                 o == h.dataOffset
                 e == SpaceUsed(m)
      <4>4. /\ a \in Int /\ b \in Nat /\ x \in Int /\ y \in Int /\ z \in Nat /\ o \in Int
            /\ HeaderSize \in Nat /\ SlotSize \in Nat
            /\ a + SlotSize = HeaderSize + b /\ e = x + y /\ HeaderSize + b + e <= z /\ o + x = z
        BY <3>2, <3>8, <4>1, <4>2, <4>3
      <4> HIDE DEF a, b, x, y, z, o, e
      <4>5. a + SlotSize + y <= o
        BY <4>4
      <4> QED BY <4>5 DEF a, y, o
    <3>10. Holds(copied[j], m) /\ copied[j].dataOffset + copied[j].spaceUsed = h.dataOffset + h.spaceUsed
      <4> HIDE DEF p, m, s, h, k
      <4>1. Count(m) = Count(p) + 1 /\ k \in 1 .. Count(m)
        BY <3>1, <3>3, <3>4
      <4>2. /\ \A i \in 1 .. (k - 1) : m.slot[i] = p.slot[i]
            /\ \A i \in (k + 1) .. Count(m) : m.slot[i] = p.slot[i - 1]
        BY <3>1, <3>3, <3>4
      <4>3. /\ m.lower = p.lower /\ m.upper = p.upper /\ (IsLeaf(m) <=> IsLeaf(p))
            /\ PrefixLen(m) <= Len(s.key)
        BY <3>3, <3>4, <3>5, <3>6
      <4> QED BY <3>2, <3>3, <3>4, <3>6, <3>7, <3>8, <3>9, <4>1, <4>2, <4>3, StoreHolds, SMTT(40)
    <3>11. copied[j].size = h.size
      <4>1. PageSize(p) = PageSize(w) /\ PageSize(m) = PageSize(w)
        BY <3>3, <3>4 DEF PageSize
      <4> QED BY <3>2, <3>10, <4>1 DEF Holds, FencesHold
    <3> QED BY <3>2, <3>10, <3>11
  <2>3. \A j \in 1 .. c : j - 1 \in T => j \in T
    BY <2>2
  <2> HIDE DEF T
  <2> QED BY <2>1, <2>3, UpTo
<1>5. Good(c)
  BY <1>4
<1> QED BY <1>3, <1>5

(***************************************************************************)
(* Hints.                                                                  *)
(***************************************************************************)
HintsHold(h) == \A i \in 0 .. (HintCount - 1) : h.hint[i] = HintFor(h, i)

LEMMA Quotient ==
    ASSUME NEW n \in Nat, NEW d \in Nat \ {0}, NEW q, q = n \div d
    PROVE  q \in Nat /\ q * d <= n /\ n < q * d + d
OBVIOUS

(* The distance of the hints leaves a slot for each of them.               *)
LEMMA DistFacts ==
    ASSUME NEW n \in Nat, NEW q, q = Dist(n)
    PROVE  /\ q \in Nat
           /\ \A i \in 0 .. (HintCount - 1) : q * (i + 1) \in Nat /\ q * (i + 1) + q <= n
           /\ n > HintCount => q >= 1
<1> DEFINE c == HintCount + 1
<1>1. c \in Nat \ {0} /\ HintCount \in Nat
  BY SlottedAssumption
<1>2. q \in Nat /\ q * c <= n /\ n < q * c + c
  <2>1. q = n \div c
    BY DEF Dist
  <2> HIDE DEF c
  <2> QED BY <1>1, <2>1, Quotient
<1>3. ASSUME NEW i \in 0 .. (HintCount - 1) PROVE q * (i + 1) \in Nat /\ q * (i + 1) + q <= n
  <2>1. i + 1 \in Nat /\ c - (i + 2) \in Nat
    BY <1>1
  <2>2. q * (i + 1) \in Nat /\ q * (c - (i + 2)) \in Nat
    BY <1>2, <2>1
  <2>3. q * c = q * (i + 1) + q + q * (c - (i + 2))
    BY <1>1, <1>2, <2>1
  <2> QED BY <1>1, <1>2, <2>2, <2>3
<1>4. ASSUME n > HintCount PROVE q >= 1
  <2>1. CASE q = 0
    BY <1>1, <1>2, <1>4, <2>1
  <2> QED BY <1>2, <2>1
<1> QED BY <1>2, <1>3, <1>4

LEMMA HintForType ==
    ASSUME NEW h \in Layout, NEW i \in 0 .. (HintCount - 1)
    PROVE  /\ HintFor(h, i) \in Numbers \cup {Unset}
           /\ Dist(Len(h.slot)) * (i + 1) \in Nat
<1>1. h.slot \in Seq(SlotInfo) /\ Len(h.slot) \in Nat
  BY LenProperties DEF Layout
<1> DEFINE s == Dist(Len(h.slot)) * (i + 1)
<1>2. s \in Nat
  BY <1>1, DistFacts
<1> HIDE DEF s
<1>3. CASE s < Len(h.slot)
  <2>1. s + 1 \in 1 .. Len(h.slot)
    BY <1>1, <1>2, <1>3
  <2>2. h.slot[s + 1] \in SlotInfo
    BY <2>1, SlotTyped
  <2> QED BY <1>2, <1>3, <2>2 DEF HintFor, SlotInfo, s
<1>4. CASE ~(s < Len(h.slot))
  BY <1>2, <1>4 DEF HintFor, s
<1> QED BY <1>3, <1>4

(* Hints say nothing of what a page holds.                                 *)
LEMMA NewHints ==
    ASSUME NEW h \in Layout, NEW x \in [0 .. (HintCount - 1) -> Numbers \cup {Unset}],
           NEW d, d = [h EXCEPT !.hint = x]
    PROVE  /\ d \in Layout /\ d.hint = x /\ d.slot = h.slot
           /\ d.size = h.size /\ d.dataOffset = h.dataOffset /\ d.spaceUsed = h.spaceUsed
           /\ \A n : Holds(h, n) => Holds(d, n)
<1>1. d \in Layout /\ d.hint = x
  BY DEF Layout
<1>2. /\ d.size = h.size /\ d.lower = h.lower /\ d.upper = h.upper
      /\ d.prefixLength = h.prefixLength /\ d.mem = h.mem
      /\ d.dataOffset = h.dataOffset /\ d.spaceUsed = h.spaceUsed /\ d.slot = h.slot
  BY DEF Layout
<1>3. ASSUME NEW n, Holds(h, n) PROVE Holds(d, n)
  <2>1. FencesHold(d, n)
    BY <1>1, <1>2, <1>3 DEF Holds, FencesHold, Placed
  <2>2. \A i \in 1 .. Count(n) : SlotHolds(d, n, d.slot[i], n.slot[i])
    BY <1>2, <1>3 DEF Holds, SlotHolds, Placed
  <2> QED BY <1>2, <1>3, <2>1, <2>2 DEF Holds, SlotsEnd
<1> QED BY <1>1, <1>2, <1>3

LEMMA MakeHintOK ==
    ASSUME NEW h \in Layout, NEW d, d = MakeHint(h)
    PROVE  /\ d \in Layout /\ HintsHold(d) /\ d.slot = h.slot
           /\ d.size = h.size /\ d.dataOffset = h.dataOffset /\ d.spaceUsed = h.spaceUsed
           /\ \A n : Holds(h, n) => Holds(d, n)
<1> DEFINE x == [i \in 0 .. (HintCount - 1) |-> HintFor(h, i)]
<1>1. x \in [0 .. (HintCount - 1) -> Numbers \cup {Unset}]
  BY HintForType
<1>2. d = [h EXCEPT !.hint = x]
  <2>1. DOMAIN h.hint = 0 .. (HintCount - 1)
    BY DEF Layout
  <2> QED BY <2>1 DEF MakeHint
<1>3. \A i \in 0 .. (HintCount - 1) : x[i] = HintFor(h, i)
  OBVIOUS
<1> HIDE DEF x
<1>4. /\ d \in Layout /\ d.hint = x /\ d.slot = h.slot
      /\ d.size = h.size /\ d.dataOffset = h.dataOffset /\ d.spaceUsed = h.spaceUsed
      /\ \A n : Holds(h, n) => Holds(d, n)
  BY <1>1, <1>2, NewHints
<1>5. HintsHold(d)
  BY <1>3, <1>4 DEF HintsHold, HintFor
<1> QED BY <1>4, <1>5

(* A hint in front of the new slot's is as good as it was.                 *)
LEMMA StaleHints ==
    ASSUME NEW h \in Layout, NEW d \in Layout, Len(d.slot) = Len(h.slot) + 1,
           NEW i \in 1 .. Len(d.slot),
           \A j \in 1 .. (i - 1) : d.slot[j] = h.slot[j],
           NEW j \in 0 .. (HintCount - 1), j < FirstStaleHint(Len(d.slot), i - 1)
    PROVE  HintFor(d, j) = HintFor(h, j)
<1> DEFINE n == Len(d.slot)
           q == Dist(n)
           a == (i - 1) \div q
<1>1. n \in Nat /\ Len(h.slot) = n - 1 /\ n - 1 \in Nat /\ i - 1 \in Nat
  BY LenProperties DEF Layout
<1>2. n > 2 * HintCount + 1 /\ Dist(n - 1) = q /\ a > 1 /\ j < a - 1
  BY SlottedAssumption DEF FirstStaleHint
<1>3. HintCount \in Nat /\ q \in Nat /\ q >= 1
  <2>1. n > HintCount /\ HintCount \in Nat
    BY <1>1, <1>2, SlottedAssumption
  <2> QED BY <1>1, <2>1, DistFacts
<1> HIDE DEF n, q
<1>4. a \in Nat /\ a * q <= i - 1
  <2>1. q \in Nat \ {0}
    BY <1>3
  <2> QED BY <1>1, <2>1, Quotient
<1> HIDE DEF a
<1>5. q * (j + 1) \in Nat /\ q * (j + 1) < i - 1
  <2>1. j \in Nat /\ a - (j + 2) \in Nat
    BY <1>2, <1>4
  <2>2. q * (j + 1) \in Nat /\ q * (a - (j + 2)) \in Nat
    BY <1>3, <2>1
  <2>3. a * q = q * (j + 1) + q + q * (a - (j + 2))
    BY <1>3, <1>4, <2>1
  <2> QED BY <1>1, <1>3, <1>4, <2>2, <2>3
<1> DEFINE s == q * (j + 1)
<1>6. s \in Nat /\ s < i - 1 /\ s < n /\ s < n - 1 /\ s + 1 \in 1 .. (i - 1)
  <2>1. i <= n
    BY DEF n
  <2> HIDE DEF s
  <2> QED BY <1>1, <1>5, <2>1 DEF s
<1>7. HintFor(d, j) = d.slot[s + 1].head
  BY <1>6 DEF HintFor, n, q
<1>8. HintFor(h, j) = h.slot[s + 1].head
  <2>1. Dist(Len(h.slot)) * (j + 1) = s
    BY <1>1, <1>2
  <2> QED BY <1>1, <1>6, <2>1 DEF HintFor
<1> QED BY <1>6, <1>7, <1>8

LEMMA UpdateHintOK ==
    ASSUME NEW h \in Layout, HintsHold(h), NEW d \in Layout, Len(d.slot) = Len(h.slot) + 1,
           d.hint = h.hint, NEW i \in 1 .. Len(d.slot),
           \A j \in 1 .. (i - 1) : d.slot[j] = h.slot[j],
           NEW e, e = UpdateHint(d, i - 1)
    PROVE  /\ HintsHold(e) /\ \A n : Holds(d, n) => Holds(e, n)
<1> DEFINE x == [j \in 0 .. (HintCount - 1) |->
                    IF j >= FirstStaleHint(Len(d.slot), i - 1) THEN HintFor(d, j) ELSE d.hint[j]]
<1>1. DOMAIN d.hint = 0 .. (HintCount - 1) /\ \A j \in 0 .. (HintCount - 1) : d.hint[j] \in Numbers \cup {Unset}
  BY DEF Layout
<1>2. x \in [0 .. (HintCount - 1) -> Numbers \cup {Unset}]
  BY <1>1, HintForType
<1>3. e = [d EXCEPT !.hint = x]
  BY <1>1 DEF UpdateHint
<1>4. ASSUME NEW j \in 0 .. (HintCount - 1) PROVE x[j] = HintFor(d, j)
  <2>1. FirstStaleHint(Len(d.slot), i - 1) \in Int
    <3>1. Len(d.slot) \in Nat /\ i - 1 \in Nat /\ HintCount \in Nat
      BY LenProperties, SlottedAssumption DEF Layout
    <3> DEFINE n == Len(d.slot)
               q == Dist(n)
    <3>2. q \in Nat /\ (n > HintCount => q >= 1)
      BY <3>1, DistFacts
    <3> HIDE DEF n, q
    <3>3. n > 2 * HintCount + 1 => (i - 1) \div q \in Nat
      <4>1. CASE n > 2 * HintCount + 1
        <5>1. q \in Nat \ {0}
          BY <3>1, <3>2, <4>1 DEF n
        <5> QED BY <3>1, <5>1, Quotient
      <4> QED BY <4>1
    <3>4. FirstStaleHint(n, i - 1) \in Int
      BY <3>3 DEF FirstStaleHint, q
    <3> QED BY <3>4 DEF n
  <2>2. CASE j >= FirstStaleHint(Len(d.slot), i - 1)
    BY <2>2
  <2>3. CASE j < FirstStaleHint(Len(d.slot), i - 1)
    <3>1. HintFor(d, j) = HintFor(h, j)
      BY <2>3, StaleHints
    <3>2. x[j] = d.hint[j]
      BY <2>1, <2>3
    <3> QED BY <3>1, <3>2 DEF HintsHold
  <2> QED BY <2>1, <2>2, <2>3
<1> HIDE DEF x
<1>5. /\ e.hint = x /\ e.slot = d.slot /\ \A n : Holds(d, n) => Holds(e, n)
  BY <1>2, <1>3, NewHints
<1> QED BY <1>4, <1>5 DEF HintsHold, HintFor

(***************************************************************************)
(* Searching.                                                              *)
(***************************************************************************)
(* Where a search between slots x and y ends when slot b is the first that *)
(* is not below the key, and is the key itself if there is one.            *)
SearchEnd(b, found, x, y) ==
    IF x >= y THEN [at |-> x + 1, found |-> FALSE]
    ELSE IF found /\ x <= b /\ b < y THEN [at |-> b + 1, found |-> TRUE]
    ELSE [at |-> (IF b < x THEN x ELSE IF b > y THEN y ELSE b) + 1, found |-> FALSE]

LEMMA Middle ==
    ASSUME NEW x \in Nat, NEW y \in Nat, x < y, NEW m, m = ((y - x) \div 2) + x
    PROVE  m \in x .. (y - 1) /\ m \in Nat
OBVIOUS

LEMMA SearchHalves ==
    ASSUME NEW b \in Nat, NEW found \in BOOLEAN, NEW x \in Nat, NEW y \in Nat,
           x < y, NEW m \in x .. (y - 1)
    PROVE  /\ m = b /\ found => SearchEnd(b, found, x, y) = [at |-> m + 1, found |-> TRUE]
           /\ m < b => SearchEnd(b, found, m + 1, y) = SearchEnd(b, found, x, y)
           /\ b <= m /\ ~(m = b /\ found) => SearchEnd(b, found, x, m) = SearchEnd(b, found, x, y)
<1>1. m \in Nat
  OBVIOUS
<1>2. ASSUME m = b, found PROVE SearchEnd(b, found, x, y) = [at |-> m + 1, found |-> TRUE]
  BY <1>2 DEF SearchEnd
<1>3. ASSUME m < b PROVE SearchEnd(b, found, m + 1, y) = SearchEnd(b, found, x, y)
  <2>1. CASE m + 1 >= y
    <3>1. m + 1 = y /\ b >= y
      BY <1>1, <1>3, <2>1
    <3>2. SearchEnd(b, found, y, y) = [at |-> y + 1, found |-> FALSE]
      BY DEF SearchEnd
    <3>3. (IF b < x THEN x ELSE IF b > y THEN y ELSE b) = y
      BY <3>1
    <3>4. ~(x >= y) /\ ~(b < y)
      BY <3>1
    <3>5. SearchEnd(b, found, x, y) =
             [at |-> (IF b < x THEN x ELSE IF b > y THEN y ELSE b) + 1, found |-> FALSE]
      BY <3>4, Zenon DEF SearchEnd
    <3> QED BY <3>1, <3>2, <3>3, <3>5
  <2>2. CASE ~(m + 1 >= y)
    <3>1. ~(b < x) /\ ~(b < m + 1) /\ x <= b /\ m + 1 <= b /\ ~(x >= y)
      BY <1>1, <1>3
    <3> QED BY <2>2, <3>1 DEF SearchEnd
  <2> QED BY <2>1, <2>2
<1>4. ASSUME b <= m, ~(m = b /\ found) PROVE SearchEnd(b, found, x, m) = SearchEnd(b, found, x, y)
  <2>1. CASE x >= m
    <3>1. x = m /\ b <= x /\ ~(found /\ x <= b)
      BY <1>1, <1>4, <2>1
    <3>2. SearchEnd(b, found, x, m) = [at |-> x + 1, found |-> FALSE]
      BY <3>1 DEF SearchEnd
    <3>3. (IF b < x THEN x ELSE IF b > y THEN y ELSE b) = x
      BY <3>1
    <3>4. SearchEnd(b, found, x, y) = [at |-> x + 1, found |-> FALSE]
      BY <3>1, <3>3 DEF SearchEnd
    <3> QED BY <3>2, <3>4
  <2>2. CASE ~(x >= m)
    <3>1. ~(b > m) /\ ~(b > y) /\ ~(x >= y) /\ b < y
      BY <1>1, <1>4
    <3>2. found => b < m
      BY <1>1, <1>4
    <3> QED BY <2>2, <3>1, <3>2 DEF SearchEnd
  <2> QED BY <2>1, <2>2
<1> QED BY <1>2, <1>3, <1>4

(* The loop of lowerBound finds the first slot that is not below the key.  *)
LEMMA BinarySearchFinds ==
    ASSUME NEW h, Len(h.slot) \in Nat, NEW key, NEW keyHead,
           NEW b \in Nat, NEW found \in BOOLEAN,
           \A m \in 0 .. (Len(h.slot) - 1) :
              Compare(h, m, key, keyHead) =
                 IF m < b THEN "above" ELSE IF m = b /\ found THEN "found" ELSE "below",
           NEW x \in 0 .. Len(h.slot), NEW y \in 0 .. Len(h.slot)
    PROVE  BinarySearch(h, key, keyHead)[<<x, y>>] = SearchEnd(b, found, x, y)
<1> DEFINE n == Len(h.slot)
           S == (0 .. n) \X (0 .. n)
           mid(r) == ((r[2] - r[1]) \div 2) + r[1]
           Body(f, r) == IF r[1] >= r[2] THEN [at |-> r[1] + 1, found |-> FALSE]
                         ELSE IF Compare(h, mid(r), key, keyHead) = "found"
                         THEN [at |-> mid(r) + 1, found |-> TRUE]
                         ELSE IF Compare(h, mid(r), key, keyHead) = "below" THEN f[<<r[1], mid(r)>>]
                         ELSE f[<<mid(r) + 1, r[2]>>]
           g == [r \in S |-> SearchEnd(b, found, r[1], r[2])]
           bin == BinarySearch(h, key, keyHead)
           Ends(f, u, v) == f[<<u, v>>] = SearchEnd(b, found, u, v)
<1>1. ASSUME NEW f, NEW u \in 0 .. n, NEW v \in 0 .. n,
             \A s, t \in 0 .. n : t - s < v - u => Ends(f, s, t)
      PROVE  Body(f, <<u, v>>) = SearchEnd(b, found, u, v)
  <2>1. CASE u >= v
    BY <2>1 DEF SearchEnd
  <2>2. CASE ~(u >= v)
    <3> DEFINE m == ((v - u) \div 2) + u
    <3>1. m \in u .. (v - 1) /\ m \in Nat /\ u \in Nat /\ v \in Nat /\ u < v
      BY <2>2, Middle
    <3>2. mid(<<u, v>>) = m
      OBVIOUS
    <3>3. Body(f, <<u, v>>) =
             IF Compare(h, m, key, keyHead) = "found" THEN [at |-> m + 1, found |-> TRUE]
             ELSE IF Compare(h, m, key, keyHead) = "below" THEN f[<<u, m>>] ELSE f[<<m + 1, v>>]
      BY <2>2
    <3> HIDE DEF m, Body, mid
    <3>4. m \in 0 .. (n - 1) /\ m \in 0 .. n /\ m + 1 \in 0 .. n /\ m - u < v - u /\ v - (m + 1) < v - u
      BY <3>1
    <3>5. Compare(h, m, key, keyHead) =
             IF m < b THEN "above" ELSE IF m = b /\ found THEN "found" ELSE "below"
      BY <3>4
    <3>6. f[<<u, m>>] = SearchEnd(b, found, u, m) /\ f[<<m + 1, v>>] = SearchEnd(b, found, m + 1, v)
      BY <1>1, <3>4
    <3>7. /\ m = b /\ found => SearchEnd(b, found, u, v) = [at |-> m + 1, found |-> TRUE]
          /\ m < b => SearchEnd(b, found, m + 1, v) = SearchEnd(b, found, u, v)
          /\ b <= m /\ ~(m = b /\ found) => SearchEnd(b, found, u, m) = SearchEnd(b, found, u, v)
      <4>1. b \in Nat /\ found \in BOOLEAN /\ u \in Nat /\ v \in Nat /\ u < v /\ m \in u .. (v - 1)
        BY <3>1
      <4> QED BY ONLY <4>1, SearchHalves, SMTT(40)
    <3>8. CASE m < b
      <4>1. Compare(h, m, key, keyHead) = "above"
        BY <3>5, <3>8
      <4>2. Body(f, <<u, v>>) = f[<<m + 1, v>>]
        BY <3>3, <4>1
      <4> QED BY <3>6, <3>7, <3>8, <4>2
    <3>9. CASE ~(m < b) /\ m = b /\ found
      BY <3>3, <3>5, <3>7, <3>9
    <3>10. CASE ~(m < b) /\ ~(m = b /\ found)
      <4>1. b <= m
        BY <3>1, <3>10
      <4> QED BY <3>3, <3>5, <3>6, <3>7, <3>10, <4>1
    <3> QED BY <3>8, <3>9, <3>10
  <2> QED BY <2>1, <2>2
<1>2. \A u, v \in 0 .. n : Ends(g, u, v)
  OBVIOUS
<1>3. \A u, v \in 0 .. n : Body(g, <<u, v>>) = g[<<u, v>>]
  <2> HIDE DEF g, Body
  <2> SUFFICES ASSUME NEW u \in 0 .. n, NEW v \in 0 .. n
               PROVE  Body(g, <<u, v>>) = g[<<u, v>>]
    OBVIOUS
  <2>1. \A s, t \in 0 .. n : t - s < v - u => Ends(g, s, t)
    BY <1>2
  <2>2. Body(g, <<u, v>>) = SearchEnd(b, found, u, v)
    BY <1>1, <2>1
  <2>3. g[<<u, v>>] = SearchEnd(b, found, u, v)
    BY <1>2
  <2> QED BY <2>2, <2>3
<1>4. g = [r \in S |-> Body(g, r)]
  <2>1. \A r \in S : g[r] = Body(g, r)
    <3> HIDE DEF g, Body
    <3> QED BY <1>3
  <2>2. g = [r \in S |-> g[r]]
    <3> HIDE DEF S
    <3> QED BY SMTT(40)
  <2> HIDE DEF g, Body
  <2> QED BY <2>1, <2>2
<1>5. bin = [r \in S |-> Body(bin, r)]
  <2> HIDE DEF g
  <2>1. \E f : f = [r \in S |-> Body(f, r)]
    BY <1>4
  <2> QED BY <2>1 DEF BinarySearch
<1> HIDE DEF bin, g, mid
<1>6. \A u, v \in 0 .. n : bin[<<u, v>>] = Body(bin, <<u, v>>)
  <2> HIDE DEF Body
  <2> QED BY <1>5
<1> DEFINE T == {k \in 0 .. n : \A u, v \in 0 .. n : v - u <= k => Ends(bin, u, v)}
<1> HIDE DEF Body
<1>7. 0 .. n \subseteq T
  <2>1. 0 \in T
    <3>1. ASSUME NEW u \in 0 .. n, NEW v \in 0 .. n, v - u <= 0 PROVE Ends(bin, u, v)
      <4>1. u >= v
        BY <3>1
      <4>2. Body(bin, <<u, v>>) = SearchEnd(b, found, u, v)
        BY <4>1 DEF Body, SearchEnd
      <4> QED BY <1>6, <4>2
    <3> QED BY <3>1
  <2>2. ASSUME NEW k \in 1 .. n, k - 1 \in T PROVE k \in T
    <3>1. ASSUME NEW u \in 0 .. n, NEW v \in 0 .. n, v - u <= k PROVE Ends(bin, u, v)
      <4>1. \A s, t \in 0 .. n : t - s < v - u => Ends(bin, s, t)
        <5>1. \A s, t \in 0 .. n : t - s < v - u => t - s <= k - 1
          BY <3>1
        <5> HIDE DEF Ends
        <5> QED BY <2>2, <5>1
      <4>2. Body(bin, <<u, v>>) = SearchEnd(b, found, u, v)
        BY <1>1, <4>1
      <4> QED BY <1>6, <4>2
    <3> HIDE DEF Ends
    <3> QED BY <3>1
  <2>3. \A k \in 1 .. n : k - 1 \in T => k \in T
    BY <2>2
  <2> HIDE DEF T
  <2> QED BY <2>1, <2>3, UpTo
<1>8. n \in T
  <2>1. n \in 0 .. n
    OBVIOUS
  <2> HIDE DEF T
  <2> QED BY <1>7, <2>1
<1>9. y - x <= n
  OBVIOUS
<1>10. Ends(bin, x, y)
  <2> HIDE DEF Ends
  <2> QED BY <1>8, <1>9
<1> QED BY <1>10 DEF bin

(* Where a prefix is shared the rest of the keys decides their order.      *)
LEMMA SuffixOrder ==
    ASSUME NEW a \in Bytes, NEW b \in Bytes, NEW c \in Nat, NEW f \in Bytes,
           SharePrefix(a, f, c), SharePrefix(b, f, c)
    PROVE  /\ Suffix(a, c) = Suffix(b, c) => a = b
           /\ Less(Suffix(a, c), Suffix(b, c)) => Less(a, b)
<1> DEFINE x == Suffix(a, c)
           y == Suffix(b, c)
<1>1. Take(f, c) \o x = a /\ Take(f, c) \o y = b
  BY PrefixPutBack
<1>2. /\ Len(a) \in Nat /\ Len(b) \in Nat /\ c <= Len(a) /\ c <= Len(b)
      /\ \A j \in 1 .. c : a[j] = b[j]
  BY BytesType DEF SharePrefix
<1>3. /\ Len(x) = Len(a) - c /\ \A j \in 1 .. (Len(a) - c) : x[j] = a[c + j]
      /\ Len(y) = Len(b) - c /\ \A j \in 1 .. (Len(b) - c) : y[j] = b[c + j]
  <2>1. \A s \in Bytes : c <= Len(s) =>
           /\ Len(Suffix(s, c)) = Len(s) - c
           /\ \A j \in 1 .. (Len(s) - c) : Suffix(s, c)[j] = s[c + j]
    BY SuffixProperties DEF Bytes
  <2> QED BY <1>2, <2>1
<1>4. ASSUME Less(x, y) PROVE Less(a, b)
  <2> HIDE DEF x, y
  <2>1. PICK i \in 1 .. Len(y) : LessAt(x, y, i)
    BY <1>4 DEF Less
  <2>2. /\ i <= Len(x) + 1
        /\ \A j \in 1 .. (i - 1) : x[j] = y[j]
        /\ i <= Len(x) => x[i] < y[i]
    BY <2>1 DEF LessAt
  <2>3. i \in Nat /\ c + i \in 1 .. Len(b) /\ c + i <= Len(a) + 1
    BY <1>2, <1>3, <2>2
  <2>4. ASSUME NEW j \in 1 .. ((c + i) - 1) PROVE a[j] = b[j]
    <3>1. CASE j <= c
      BY <1>2, <3>1
    <3>2. CASE j > c
      <4> DEFINE e == j - c
      <4>1. e \in 1 .. (i - 1) /\ e \in 1 .. (Len(a) - c) /\ e \in 1 .. (Len(b) - c) /\ c + e = j
        BY <1>2, <1>3, <2>2, <2>3, <3>2
      <4> HIDE DEF e
      <4>2. a[c + e] = b[c + e]
        BY <1>3, <2>2, <4>1
      <4> QED BY <4>1, <4>2
    <3>3. j <= c \/ j > c
      OBVIOUS
    <3> QED BY <3>1, <3>2, <3>3
  <2>5. c + i <= Len(a) => a[c + i] < b[c + i]
    <3>1. ASSUME c + i <= Len(a) PROVE a[c + i] < b[c + i]
      <4>1. i <= Len(x) /\ i \in 1 .. (Len(a) - c) /\ i \in 1 .. (Len(b) - c)
        BY <1>2, <1>3, <2>3, <3>1
      <4>2. x[i] = a[c + i] /\ y[i] = b[c + i]
        BY <1>3, <4>1
      <4> QED BY <2>2, <4>1, <4>2
    <3> QED BY <3>1
  <2>6. LessAt(a, b, c + i)
    BY <2>3, <2>4, <2>5 DEF LessAt
  <2> QED BY <2>3, <2>6 DEF Less
<1> QED BY <1>1, <1>4

(* What a head or a byte says of a key and a record.                       *)
LEMMA HeadSays ==
    ASSUME NEW n \in Page, PageOK(n), NEW h, Holds(h, n),
           NEW k \in Bytes, InFences(k, n.lower, n.upper),
           NEW key, key = Suffix(k, h.prefixLength), NEW i \in 1 .. Count(n)
    PROVE  /\ key \in Bytes /\ KeyBytes(h, i) \in Bytes
           /\ HeadOf(key) \in Nat /\ h.slot[i].head \in Nat
           /\ h.slot[i].head < HeadOf(key) => Less(n.slot[i].key, k)
           /\ HeadOf(key) < h.slot[i].head => Less(k, n.slot[i].key)
           /\ key = KeyBytes(h, i) => k = n.slot[i].key
           /\ Less(key, KeyBytes(h, i)) => Less(k, n.slot[i].key)
           /\ Less(KeyBytes(h, i), key) => Less(n.slot[i].key, k)
<1> DEFINE a == n.slot[i].key
           c == PrefixLen(n)
           x == Suffix(a, c)
           f == n.lower
<1>1. a \in Bytes /\ f \in Bytes /\ c \in Nat /\ SharePrefix(a, f, c) /\ SharePrefix(k, f, c)
  BY SlotInPage, KeyHasPrefix, PageFacts, PrefixLenNat
<1>2. h.prefixLength = c /\ KeyBytes(h, i) = x /\ h.slot[i].head = HeadOf(x)
  <2>1. h.prefixLength = c /\ h.slot[i].head = HeadOf(x)
    BY DEF Holds, FencesHold, SlotHolds, SuffixOf
  <2> QED BY <2>1, SlotRead DEF SuffixOf
<1> HIDE DEF a, c, f
<1>3. key = Suffix(k, c) /\ key \in Bytes /\ x \in Bytes
  BY <1>1, <1>2, SuffixProperties DEF Bytes
<1>4. /\ x = key => a = k
      /\ Less(x, key) => Less(a, k)
  BY <1>1, <1>3, SuffixOrder
<1>5. Less(key, x) => Less(k, a)
  BY <1>1, <1>3, SuffixOrder
<1> HIDE DEF x
<1>6. HeadOf(key) \in Nat /\ HeadOf(x) \in Nat
  BY <1>3, HeadType
<1>7. HeadOf(x) < HeadOf(key) => Less(x, key)
  BY <1>3, HeadsDecide
<1>8. HeadOf(key) < HeadOf(x) => Less(key, x)
  BY <1>3, HeadsDecide
<1> QED BY <1>2, <1>3, <1>4, <1>5, <1>6, <1>7, <1>8 DEF a

(* The slots are in the order of their heads.                              *)
LEMMA HeadsAscend ==
    ASSUME NEW n \in Page, PageOK(n), NEW h, Holds(h, n),
           NEW i \in 1 .. Count(n), NEW j \in 1 .. Count(n), i <= j
    PROVE  h.slot[i].head <= h.slot[j].head
<1> DEFINE k == n.slot[j].key
           key == Suffix(k, h.prefixLength)
<1>1. k \in Bytes /\ InFences(k, n.lower, n.upper)
  BY SlotInPage
<1>2. h.slot[j].head = HeadOf(key)
  BY DEF Holds, FencesHold, SlotHolds, SuffixOf
<1> HIDE DEF k
<1>3. /\ HeadOf(key) \in Nat /\ h.slot[i].head \in Nat
      /\ HeadOf(key) < h.slot[i].head => Less(k, n.slot[i].key)
  BY <1>1, HeadSays
<1>4. Leq(n.slot[i].key, k)
  <2>1. i = j \/ i < j
    BY PageFacts
  <2> QED BY <2>1 DEF PageOK, Leq, k
<1>5. ~Less(k, n.slot[i].key)
  BY <1>1, <1>4, SlotInPage, NotBoth
<1> QED BY <1>2, <1>3, <1>5

(* On which side of the lower bound a record is.                           *)
LEMMA SideOfBound ==
    ASSUME NEW n \in Page, PageOK(n), NEW k \in Bytes, NEW i \in 1 .. Count(n),
           NEW b, b = LowerBound(n, k) - 1, NEW found, found = FoundAt(n, k, b + 1)
    PROVE  /\ b \in 0 .. Count(n) /\ b \in Nat /\ found \in BOOLEAN /\ (found => b < Count(n))
           /\ Less(n.slot[i].key, k) <=> i <= b
           /\ k = n.slot[i].key <=> (i = b + 1 /\ found)
           /\ Less(k, n.slot[i].key) <=> (i > b /\ ~(i = b + 1 /\ found))
<1> DEFINE l == LowerBound(n, k)
<1>1. /\ l \in 1 .. Count(n) + 1 /\ Count(n) \in Nat
      /\ \A j \in 1 .. (l - 1) : Less(n.slot[j].key, k)
      /\ \A j \in l .. Count(n) : Leq(k, n.slot[j].key)
  BY LowerBoundProperties, PageFacts
<1> HIDE DEF l
<1>2. b = l - 1 /\ b + 1 = l /\ b \in 0 .. Count(n) /\ b \in Nat
  BY <1>1 DEF l
<1>3. found <=> (l <= Count(n) /\ n.slot[l].key = k)
  BY <1>2 DEF FoundAt
<1>4. \A j \in 1 .. Count(n) : n.slot[j].key \in Bytes
  BY SlotInPage
<1>5. CASE i <= b
  <2>1. Less(n.slot[i].key, k)
    BY <1>1, <1>2, <1>5
  <2>2. ~Less(k, n.slot[i].key) /\ k # n.slot[i].key
    BY <1>4, <2>1, NotBoth, LessIrreflexive DEF Leq
  <2>3. ~(i = b + 1) /\ ~(i > b)
    BY <1>2, <1>5
  <2> QED BY <1>1, <1>2, <1>3, <1>5, <2>1, <2>2, <2>3 DEF FoundAt
<1>6. CASE i > b /\ i = l /\ found
  <2>1. k = n.slot[i].key /\ ~Less(k, n.slot[i].key) /\ ~Less(n.slot[i].key, k)
    BY <1>3, <1>6, LessIrreflexive
  <2> QED BY <1>1, <1>2, <1>3, <1>6, <2>1 DEF FoundAt
<1>7. CASE i > b /\ ~(i = l /\ found)
  <2>1. i \in l .. Count(n) /\ l <= Count(n) /\ l \in 1 .. Count(n)
    BY <1>1, <1>2, <1>7
  <2>2. Leq(k, n.slot[i].key)
    BY <1>1, <2>1
  <2>3. k # n.slot[i].key
    <3>1. CASE i = l
      BY <1>3, <1>7, <2>1, <3>1
    <3>2. CASE i # l
      <4>1. Less(n.slot[l].key, n.slot[i].key)
        BY <2>1, <3>2 DEF PageOK
      <4>2. l \in l .. Count(n)
        BY <2>1
      <4>3. Leq(k, n.slot[l].key)
        BY <1>1, <4>2
      <4>4. Less(k, n.slot[i].key)
        BY <1>4, <2>1, <4>1, <4>3, LeqLess
      <4> QED BY <4>4, LessIrreflexive
    <3> QED BY <3>1, <3>2
  <2>4. Less(k, n.slot[i].key)
    BY <2>2, <2>3 DEF Leq
  <2>5. ~Less(n.slot[i].key, k)
    BY <1>4, <2>2, NotBoth
  <2>6. ~(i <= b)
    BY <1>2, <1>7
  <2> QED BY <1>1, <1>2, <1>3, <1>7, <2>3, <2>4, <2>5, <2>6 DEF FoundAt
<1>8. i <= b \/ i > b
  BY <1>2
<1> QED BY <1>2, <1>5, <1>6, <1>7, <1>8

LEMMA CompareFinds ==
    ASSUME NEW n \in Page, PageOK(n), NEW h, Holds(h, n),
           NEW k \in Bytes, InFences(k, n.lower, n.upper),
           NEW key, key = Suffix(k, h.prefixLength),
           NEW b, b = LowerBound(n, k) - 1, NEW found, found = FoundAt(n, k, b + 1),
           NEW m \in 0 .. (Count(n) - 1)
    PROVE  Compare(h, m, key, HeadOf(key)) =
              IF m < b THEN "above" ELSE IF m = b /\ found THEN "found" ELSE "below"
<1> DEFINE i == m + 1
<1>1. i \in 1 .. Count(n) /\ i - 1 = m /\ m \in Nat
  BY PageFacts
<1> HIDE DEF i
<1>2. /\ key \in Bytes /\ KeyBytes(h, i) \in Bytes
      /\ HeadOf(key) \in Nat /\ h.slot[i].head \in Nat
      /\ h.slot[i].head < HeadOf(key) => Less(n.slot[i].key, k)
      /\ HeadOf(key) < h.slot[i].head => Less(k, n.slot[i].key)
      /\ key = KeyBytes(h, i) => k = n.slot[i].key
      /\ Less(key, KeyBytes(h, i)) => Less(k, n.slot[i].key)
      /\ Less(KeyBytes(h, i), key) => Less(n.slot[i].key, k)
  BY <1>1, HeadSays
<1>3. /\ b \in Nat /\ found \in BOOLEAN
      /\ Less(n.slot[i].key, k) <=> i <= b
      /\ k = n.slot[i].key <=> (i = b + 1 /\ found)
      /\ Less(k, n.slot[i].key) <=> (i > b /\ ~(i = b + 1 /\ found))
  BY <1>1, SideOfBound
<1>4. (i <= b <=> m < b) /\ (i > b <=> ~(m < b)) /\ (i = b + 1 <=> m = b)
  BY <1>1, <1>3 DEF i
<1>5. (Less(n.slot[i].key, k) => m < b) /\ (k = n.slot[i].key => ~(m < b) /\ m = b /\ found)
      /\ (Less(k, n.slot[i].key) => ~(m < b) /\ ~(m = b /\ found))
  <2>1. k = n.slot[i].key => ~(m < b)
    BY <1>1, <1>3, <1>4
  <2> QED BY <1>3, <1>4, <2>1
<1>6. Compare(h, m, key, HeadOf(key)) =
         IF HeadOf(key) # h.slot[i].head
         THEN IF HeadOf(key) < h.slot[i].head THEN "below" ELSE "above"
         ELSE IF key = KeyBytes(h, i) THEN "found"
         ELSE IF Less(key, KeyBytes(h, i)) THEN "below" ELSE "above"
  BY DEF Compare, i
<1>7. CASE HeadOf(key) # h.slot[i].head
  <2>1. CASE HeadOf(key) < h.slot[i].head
    BY <1>2, <1>5, <1>6, <1>7, <2>1
  <2>2. CASE ~(HeadOf(key) < h.slot[i].head)
    <3>1. h.slot[i].head < HeadOf(key)
      BY <1>2, <1>7, <2>2
    <3> QED BY <1>2, <1>5, <1>6, <1>7, <2>2, <3>1
  <2> QED BY <2>1, <2>2
<1>8. CASE HeadOf(key) = h.slot[i].head
  <2>1. key = KeyBytes(h, i) \/ Less(key, KeyBytes(h, i)) \/ Less(KeyBytes(h, i), key)
    BY <1>2, LessTotal
  <2>2. ~(Less(key, KeyBytes(h, i)) /\ Less(KeyBytes(h, i), key))
    BY <1>2, NotBoth DEF Leq
  <2> QED BY <1>2, <1>5, <1>6, <1>8, <2>1, <2>2
<1> QED BY <1>7, <1>8

LEMMA FirstHintIs ==
    ASSUME NEW hits \in SUBSET (0 .. (HintCount - 1)), NEW m, m = FirstHint(hits)
    PROVE  /\ m \in 0 .. HintCount
           /\ m < HintCount => m \in hits
           /\ \A i \in hits : m <= i
<1> DEFINE T == hits \cup {HintCount}
<1>1. HintCount \in Nat /\ T \in SUBSET Nat /\ T # {}
  BY SlottedAssumption
<1>2. \E t \in T : \A u \in T : t <= u
  BY <1>1, NatMin
<1>3. m \in T /\ \A u \in T : m <= u
  BY <1>2 DEF FirstHint, Min
<1> QED BY <1>1, <1>3

(* The hints leave the lower bound in the range.                           *)
LEMMA HintRange ==
    ASSUME NEW n \in Page, PageOK(n), NEW h, Holds(h, n), HintsHold(h),
           NEW k \in Bytes, InFences(k, n.lower, n.upper),
           NEW key, key = Suffix(k, h.prefixLength),
           NEW b, b = LowerBound(n, k) - 1, NEW found, found = FoundAt(n, k, b + 1)
    PROVE  \E x, y \in 0 .. Count(n) :
              SearchHint(h, HeadOf(key)) = <<x, y>> /\ x <= b /\ b <= y /\ (found => b < y)
<1> DEFINE c == Count(n)
           keyHead == HeadOf(key)
           q == Dist(c)
           low == {i \in DOMAIN h.hint : h.hint[i] >= keyHead}
           lo == FirstHint(low)
           high == {i \in DOMAIN h.hint : i >= lo /\ h.hint[i] # keyHead}
           hi == FirstHint(high)
           x == lo * q
           y == IF hi < HintCount THEN (hi + 1) * q ELSE c
           head(i) == h.slot[q * (i + 1) + 1].head
<1>1. /\ b \in 0 .. c /\ b \in Nat /\ c \in Nat /\ found \in BOOLEAN /\ (found => b < c)
  <2>1. LowerBound(n, k) \in 1 .. c + 1 /\ c \in Nat
    BY LowerBoundProperties, PageFacts
  <2>2. found => b + 1 <= c
    BY DEF FoundAt
  <2> QED BY <2>1, <2>2 DEF FoundAt
<1>2. Len(h.slot) = c /\ DOMAIN h.hint = 0 .. (HintCount - 1) /\ HintCount \in Nat
  BY SlottedAssumption DEF Holds, FencesHold, Layout
<1>3. CASE HintCount = 0 \/ c <= 2 * HintCount
  <2>1. SearchHint(h, keyHead) = <<0, c>>
    BY <1>2, <1>3 DEF SearchHint
  <2>2. 0 \in 0 .. c /\ c \in 0 .. c /\ 0 <= b /\ b <= c
    BY <1>1
  <2> HIDE DEF c, keyHead
  <2>3. \E u, v \in 0 .. c : SearchHint(h, keyHead) = <<u, v>> /\ u <= b /\ b <= v /\ (found => b < v)
    BY <1>1, <2>1, <2>2
  <2> QED BY <2>3 DEF c, keyHead
<1>4. CASE ~(HintCount = 0 \/ c <= 2 * HintCount)
  <2>1. SearchHint(h, keyHead) = <<x, y>>
    BY <1>2, <1>4 DEF SearchHint
  <2>2. /\ q \in Nat /\ q >= 1
        /\ \A i \in 0 .. (HintCount - 1) : q * (i + 1) \in Nat /\ q * (i + 1) + q <= c
    <3>1. c > HintCount
      BY <1>1, <1>2, <1>4
    <3> QED BY <1>1, <3>1, DistFacts
  <2>3. keyHead \in Nat
    <3>1. h.prefixLength \in Nat
      BY DEF Holds, FencesHold, Layout
    <3> QED BY <3>1, SuffixProperties, HeadType DEF Bytes
  <2> HIDE DEF c, q, keyHead
  <2>4. ASSUME NEW i \in 0 .. (HintCount - 1)
        PROVE  /\ q * (i + 1) + 1 \in 1 .. c /\ q * (i + 1) \in Nat
               /\ h.hint[i] = head(i) /\ h.hint[i] \in Nat
               /\ h.hint[i] < keyHead => q * (i + 1) < b
               /\ keyHead < h.hint[i] => q * (i + 1) >= b /\ (found => q * (i + 1) > b)
    <3> DEFINE s == q * (i + 1)
               j == s + 1
    <3>1. s \in Nat /\ s < c /\ j \in 1 .. c
      BY <1>1, <2>2
    <3>2. h.hint[i] = h.slot[j].head
      BY <1>2, <3>1 DEF HintsHold, HintFor, q
    <3> HIDE DEF s
    <3> HIDE DEF j
    <3>3. /\ h.slot[j].head \in Nat
          /\ h.slot[j].head < keyHead => Less(n.slot[j].key, k)
          /\ keyHead < h.slot[j].head => Less(k, n.slot[j].key)
      <4>1. j \in 1 .. Count(n)
        BY <3>1 DEF c
      <4> QED BY <4>1, HeadSays DEF keyHead
    <3>4. /\ Less(n.slot[j].key, k) <=> j <= b
          /\ Less(k, n.slot[j].key) <=> (j > b /\ ~(j = b + 1 /\ found))
      <4>1. j \in 1 .. Count(n)
        BY <3>1 DEF c
      <4> QED BY <4>1, SideOfBound
    <3>5. j = s + 1
      BY DEF j
    <3>6. j <= b => s < b
      BY <1>1, <3>1, <3>5
    <3>7. j > b /\ ~(j = b + 1 /\ found) => s >= b /\ (found => s > b)
      BY <1>1, <3>1, <3>5
    <3>8. h.hint[i] = head(i)
      BY <3>2 DEF j, s
    <3> HIDE DEF head
    <3> QED BY <3>1, <3>2, <3>3, <3>4, <3>6, <3>7, <3>8 DEF s, j
  <2>5. lo \in 0 .. HintCount /\ (lo < HintCount => lo \in low) /\ \A i \in low : lo <= i
    <3>1. low \in SUBSET (0 .. (HintCount - 1))
      BY <1>2
    <3> HIDE DEF low
    <3> QED BY <3>1, FirstHintIs
  <2>6. hi \in 0 .. HintCount /\ (hi < HintCount => hi \in high)
    <3>1. high \in SUBSET (0 .. (HintCount - 1))
      BY <1>2
    <3> HIDE DEF high
    <3> QED BY <3>1, FirstHintIs
  <2> HIDE DEF lo, hi
  <2>7. x \in 0 .. c /\ x <= b
    <3>1. CASE lo = 0
      <4>1. x = 0
        BY <2>2, <3>1
      <4> QED BY <1>1, <4>1
    <3>2. CASE lo # 0
      <4> DEFINE i == lo - 1
      <4>1. i \in 0 .. (HintCount - 1) /\ i + 1 = lo /\ ~(lo <= i)
        BY <1>2, <2>5, <3>2
      <4>2. i \notin low
        BY <2>5, <4>1
      <4> HIDE DEF i
      <4>3. h.hint[i] < keyHead
        <5>1. h.hint[i] \in Nat
          BY <2>4, <4>1
        <5>2. ~ (h.hint[i] >= keyHead)
          BY <1>2, <4>1, <4>2
        <5> QED BY <2>3, <5>1, <5>2
      <4>4. q * (i + 1) < b /\ q * (i + 1) \in Nat
        BY <2>4, <4>1, <4>3
      <4>5. q * (i + 1) = x
        BY <2>2, <2>5, <4>1
      <4> HIDE DEF x
      <4> QED BY <1>1, <4>4, <4>5
    <3> QED BY <3>1, <3>2
  <2>8. y \in 0 .. c /\ b <= y /\ (found => b < y)
    <3>1. CASE ~(hi < HintCount)
      <4>1. y = c
        BY <3>1
      <4> HIDE DEF y
      <4> QED BY <1>1, <4>1
    <3>2. CASE hi < HintCount
      <4>1. hi \in 0 .. (HintCount - 1) /\ hi >= lo /\ h.hint[hi] # keyHead
        BY <1>2, <2>6, <3>2
      <4>2. lo \in 0 .. (HintCount - 1) /\ h.hint[lo] >= keyHead
        BY <1>2, <2>5, <4>1
      <4>3. h.hint[lo] <= h.hint[hi]
        <5> DEFINE u == q * (lo + 1) + 1
                   v == q * (hi + 1) + 1
        <5>1. h.hint[lo] = h.slot[u].head /\ h.hint[hi] = h.slot[v].head /\ u \in 1 .. c /\ v \in 1 .. c
          BY <2>4, <4>1, <4>2
        <5>2. u <= v
          <6>1. hi - lo \in Nat /\ lo + 1 \in Nat /\ hi + 1 \in Nat
            BY <4>1, <4>2
          <6>2. q * (hi - lo) \in Nat /\ q * (lo + 1) \in Nat
            BY <2>2, <6>1
          <6>3. q * (hi + 1) = q * (lo + 1) + q * (hi - lo)
            BY <2>2, <4>1, <4>2
          <6> QED BY <6>2, <6>3
        <5> HIDE DEF u, v
        <5> QED BY <5>1, <5>2, HeadsAscend DEF c
      <4>4. h.hint[lo] \in Nat /\ h.hint[hi] \in Nat
        BY <2>4, <4>1, <4>2
      <4>5. keyHead < h.hint[hi]
        BY <2>3, <4>1, <4>2, <4>3, <4>4
      <4>6. /\ q * (hi + 1) >= b /\ (found => q * (hi + 1) > b) /\ q * (hi + 1) \in Nat
            /\ q * (hi + 1) + 1 \in 1 .. c
        BY <2>4, <4>1, <4>5
      <4>7. y = q * (hi + 1)
        <5>1. y = (hi + 1) * q
          BY <3>2
        <5> HIDE DEF y
        <5> QED BY <2>2, <4>1, <5>1
      <4> HIDE DEF y
      <4>8. \A t \in Nat : t >= b /\ (found => t > b) /\ t + 1 \in 1 .. c =>
               t \in 0 .. c /\ b <= t /\ (found => b < t)
        BY <1>1
      <4> QED BY <4>6, <4>7, <4>8
    <3> QED BY <3>1, <3>2
  <2> HIDE DEF x, y
  <2> QED BY <2>1, <2>7, <2>8 DEF c, keyHead
<1> QED BY <1>3, <1>4

LEMMA SearchFinds ==
    ASSUME NEW n \in Page, PageOK(n), NEW h, Holds(h, n), HintsHold(h),
           NEW k \in Bytes, InFences(k, n.lower, n.upper)
    PROVE  Search(h, k) = [at |-> LowerBound(n, k), found |-> FoundAt(n, k, LowerBound(n, k))]
<1> DEFINE key == Suffix(k, h.prefixLength)
           b == LowerBound(n, k) - 1
           found == FoundAt(n, k, b + 1)
           c == Count(n)
<1>1. c \in Nat /\ Len(h.slot) = c /\ b \in 0 .. c /\ b \in Nat /\ found \in BOOLEAN /\ b + 1 = LowerBound(n, k)
  <2>1. LowerBound(n, k) \in 1 .. c + 1 /\ c \in Nat
    BY LowerBoundProperties, PageFacts
  <2> QED BY <2>1 DEF FoundAt, Holds
<1>2. PICK x, y \in 0 .. c :
         SearchHint(h, HeadOf(key)) = <<x, y>> /\ x <= b /\ b <= y /\ (found => b < y)
  BY HintRange
<1>3. \A m \in 0 .. (c - 1) : Compare(h, m, key, HeadOf(key)) =
              IF m < b THEN "above" ELSE IF m = b /\ found THEN "found" ELSE "below"
  BY CompareFinds
<1>4. Search(h, k) = BinarySearch(h, key, HeadOf(key))[<<x, y>>]
  BY <1>2 DEF Search
<1> HIDE DEF key, b, found, c
<1>5. BinarySearch(h, key, HeadOf(key))[<<x, y>>] = SearchEnd(b, found, x, y)
  <2> DEFINE keyHead == HeadOf(key)
  <2>1. /\ Len(h.slot) \in Nat /\ b \in Nat /\ found \in BOOLEAN
        /\ x \in 0 .. Len(h.slot) /\ y \in 0 .. Len(h.slot)
        /\ \A m \in 0 .. (Len(h.slot) - 1) : Compare(h, m, key, keyHead) =
              IF m < b THEN "above" ELSE IF m = b /\ found THEN "found" ELSE "below"
    BY <1>1, <1>2, <1>3
  <2> HIDE DEF keyHead
  <2>2. BinarySearch(h, key, keyHead)[<<x, y>>] = SearchEnd(b, found, x, y)
    BY ONLY <2>1, BinarySearchFinds
  <2> QED BY <2>2 DEF keyHead
<1>6. SearchEnd(b, found, x, y) = [at |-> b + 1, found |-> found]
  <2>1. CASE x >= y
    <3>1. x = b /\ found = FALSE
      BY <1>1, <1>2, <2>1
    <3> QED BY <2>1, <3>1 DEF SearchEnd
  <2>2. CASE ~(x >= y) /\ found
    <3>1. x <= b /\ b < y /\ found = TRUE
      BY <1>1, <1>2, <2>2
    <3> QED BY <2>2, <3>1 DEF SearchEnd
  <2>3. CASE ~(x >= y) /\ ~found
    <3>1. ~(b < x) /\ ~(b > y) /\ found = FALSE
      BY <1>1, <1>2, <2>3
    <3> QED BY <2>3, <3>1 DEF SearchEnd
  <2> QED BY <2>1, <2>2, <2>3
<1>7. [at |-> b + 1, found |-> found] = [at |-> LowerBound(n, k), found |-> FoundAt(n, k, LowerBound(n, k))]
  <2>1. found = FoundAt(n, k, LowerBound(n, k))
    BY <1>1 DEF found
  <2> QED BY <1>1, <2>1
<1> QED BY <1>4, <1>5, <1>6, <1>7

(***************************************************************************)
(* The operations on a page.                                               *)
(***************************************************************************)
(* A page that has been initialised and given the fences of w is w without *)
(* its slots.                                                              *)
LEMMA FencedHolds ==
    ASSUME NEW w \in Page, PageOK(w), Fits(w),
           NEW d, d = SetFences(InitPage(PageSize(w)), w.lower, w.upper)
    PROVE  Holds(d, First(w, 0)) /\ d.dataOffset + d.spaceUsed = d.size
<1> DEFINE m == First(w, 0)
<1>1. 0 \in 0 .. Count(w)
  BY PageFacts
<1>2. /\ m \in Page /\ (IsLeaf(m) <=> IsLeaf(w)) /\ m.lower = w.lower /\ m.upper = w.upper
      /\ Count(m) = 0
  BY <1>1, FirstSlots
<1>3. HeaderSize + Len(w.lower) + Len(w.upper) <= PageSize(w)
  <2>1. /\ SpaceUsed(m) = Len(w.lower) + Len(w.upper) + SlotBytes(w)[0]
        /\ HeaderSize + SlotSize * 0 + SpaceUsed(m) <= PageSize(w)
    BY <1>1, FirstRoom
  <2>2. SlotBytes(w)[0] = 0
    BY SlotBytesSum
  <2>3. SlotSize \in Nat /\ HeaderSize \in Nat /\ Len(w.lower) \in Nat /\ Len(w.upper) \in Nat /\ PageSize(w) \in Nat
    BY SpaceNumbers
  <2>4. SlotSize * 0 = 0
    BY <2>3
  <2> DEFINE a == Len(w.lower)
             b == Len(w.upper)
             x == SpaceUsed(m)
             y == SlotBytes(w)[0]
             z == PageSize(w)
             o == SlotSize * 0
  <2>5. /\ x = a + b + y /\ HeaderSize + o + x <= z /\ y = 0 /\ o = 0
        /\ HeaderSize \in Nat /\ a \in Nat /\ b \in Nat /\ z \in Nat
    BY <2>1, <2>2, <2>3, <2>4
  <2> HIDE DEF a, b, x, y, z, o
  <2>6. HeaderSize + a + b <= z
    BY <2>5
  <2> QED BY <2>6 DEF a, b, z
<1>4. PageSize(m) = PageSize(w)
  BY <1>2 DEF PageSize
<1> HIDE DEF m
<1>5. /\ FencesHold(d, m) /\ d.slot = << >>
      /\ d.spaceUsed = Len(w.lower) + Len(w.upper)
      /\ d.dataOffset + d.spaceUsed = d.size /\ HeaderSize <= d.dataOffset
  <2>1. /\ m \in Page
        /\ HeaderSize + Len(m.lower) + Len(m.upper) <= PageSize(m)
        /\ d = SetFences(InitPage(PageSize(m)), m.lower, m.upper)
    BY <1>2, <1>3, <1>4
  <2>2. /\ FencesHold(d, m) /\ d.slot = << >>
        /\ d.spaceUsed = Len(m.lower) + Len(m.upper)
        /\ d.dataOffset + d.spaceUsed = d.size /\ HeaderSize <= d.dataOffset
    BY ONLY <2>1, FencesPlaced
  <2> QED BY <1>2, <2>2
<1>6. Holds(d, m)
  BY <1>2, <1>5, EmptyHolds
<1> QED BY <1>5, <1>6 DEF m

(* A page filled from one other page.                                      *)
LEMMA FilledHolds ==
    ASSUME NEW n \in Page, PageOK(n), NEW src, Holds(src, n),
           NEW w \in Page, PageOK(w), Fits(w), IsLeaf(w) <=> IsLeaf(n),
           NEW from \in Nat \ {0}, NEW to \in Nat, to - from + 1 = Count(w), to <= Count(n),
           \A j \in 1 .. Count(w) : w.slot[j] = n.slot[from + j - 1],
           NEW d, d = MakeHint(CopyKeyValueRange(src,
                                  SetFences(InitPage(PageSize(w)), w.lower, w.upper), from, to))
    PROVE  Holds(d, w) /\ HintsHold(d) /\ d.dataOffset + d.spaceUsed = d.size
<1> DEFINE f == SetFences(InitPage(PageSize(w)), w.lower, w.upper)
           c == Count(w)
           e == CopyEach(src, f, from, c)[c]
<1>1. c \in Nat /\ Count(n) \in Nat
  BY PageFacts
<1>2. Holds(f, First(w, 0)) /\ f.dataOffset + f.spaceUsed = f.size
  BY FencedHolds
<1>3. d = MakeHint(e)
  BY DEF CopyKeyValueRange
<1> HIDE DEF f
<1>4. Holds(e, First(w, 0 + c)) /\ e.dataOffset + e.spaceUsed = e.size
  <2> HIDE DEF e
  <2>1. from + c <= Count(n) + 1 /\ 0 + c <= Count(w) /\ 0 \in Nat
    BY <1>1
  <2>2. SameSlots(w, 0, n, from, c)
    <3> SUFFICES ASSUME NEW j \in 1 .. c
                 PROVE  w.slot[0 + j] = n.slot[from + j - 1]
      BY DEF SameSlots
    <3>1. 0 + j = j
      OBVIOUS
    <3> QED BY <3>1
  <2>3. e = CopyEach(src, f, from, c)[c]
    BY DEF e
  <2> HIDE DEF c
  <2> QED BY <1>1, <1>2, <2>1, <2>2, <2>3, CopyFills
<1> HIDE DEF e
<1>5. Holds(e, w)
  <2>1. 0 + c = Count(w)
    BY <1>1
  <2> QED BY <1>4, <2>1, FirstAll
<1>6. e \in Layout
  BY <1>5 DEF Holds, FencesHold
<1>7. /\ HintsHold(d) /\ Holds(d, w)
      /\ d.size = e.size /\ d.dataOffset = e.dataOffset /\ d.spaceUsed = e.spaceUsed
  BY <1>3, <1>5, <1>6, MakeHintOK
<1> QED BY <1>4, <1>7

(* compactify: nothing changes but the gap.                                *)
LEMMA CompactifyOK ==
    ASSUME NEW n \in Page, PageOK(n), Fits(n), NEW h, Holds(h, n),
           NEW d, d = Compactify(h)
    PROVE  Holds(d, n) /\ HintsHold(d) /\ d.dataOffset + d.spaceUsed = d.size
<1> DEFINE c == Count(n)
<1>1. c \in Nat /\ 1 \in Nat \ {0} /\ c - 1 + 1 = c /\ c <= c
  BY PageFacts
<1>2. /\ LowerBytes(h) = n.lower /\ UpperBytes(h) = n.upper
      /\ h.size = PageSize(n) /\ Len(h.slot) = c
  BY FencesRead DEF Holds, FencesHold
<1>3. d = MakeHint(CopyKeyValueRange(h, SetFences(InitPage(PageSize(n)), n.lower, n.upper), 1, c))
  BY <1>2 DEF Compactify
<1>4. \A j \in 1 .. c : n.slot[j] = n.slot[1 + j - 1]
  <2> TAKE j \in 1 .. c
  <2>1. 1 + j - 1 = j
    OBVIOUS
  <2> QED BY <2>1
<1> DEFINE to == c
<1>5. to = c
  OBVIOUS
<1> HIDE DEF to
<1>6. /\ 1 \in Nat \ {0} /\ to \in Nat /\ to - 1 + 1 = Count(n) /\ to <= Count(n)
      /\ \A j \in 1 .. Count(n) : n.slot[j] = n.slot[1 + j - 1]
      /\ d = MakeHint(CopyKeyValueRange(h, SetFences(InitPage(PageSize(n)), n.lower, n.upper), 1, to))
  BY <1>1, <1>3, <1>4, <1>5
<1> QED BY <1>6, FilledHolds

LEMMA FreeSpaces ==
    ASSUME NEW n \in Page, NEW h, Holds(h, n)
    PROVE  /\ FreeSpace(h) \in Int
           /\ FreeAfterCompaction(h) = FreeSpaceAfterCompaction(n)
           /\ h.dataOffset + h.spaceUsed = h.size => FreeSpace(h) = FreeAfterCompaction(h)
           /\ SlotsEnd(h) \in Nat /\ h.dataOffset \in Nat /\ FreeSpace(h) = h.dataOffset - SlotsEnd(h)
<1>1. /\ h.size = PageSize(n) /\ Len(h.slot) = Count(n) /\ h.spaceUsed = SpaceUsed(n)
      /\ h.dataOffset \in Nat /\ h.size \in Nat /\ h.spaceUsed \in Int
  BY DEF Holds, FencesHold, Layout
<1>2. SlotsEnd(h) = HeaderSize + SlotSize * Count(n) /\ SlotsEnd(h) \in Nat
  <2>1. SlotSize * Count(n) \in Nat /\ HeaderSize \in Nat
    BY SpaceNumbers
  <2> QED BY <1>1, <2>1 DEF SlotsEnd
<1>3. FreeAfterCompaction(h) = FreeSpaceAfterCompaction(n)
  BY <1>1, <1>2 DEF FreeAfterCompaction, FreeSpaceAfterCompaction
<1>4. ASSUME h.dataOffset + h.spaceUsed = h.size PROVE FreeSpace(h) = FreeAfterCompaction(h)
  <2> DEFINE x == SlotsEnd(h)
  <2>1. x \in Nat
    BY <1>2
  <2> HIDE DEF x
  <2>2. h.dataOffset - x = h.size - x - h.spaceUsed
    BY <1>1, <1>4, <2>1
  <2> QED BY <2>2 DEF FreeSpace, FreeAfterCompaction, x
<1>5. FreeSpace(h) = h.dataOffset - SlotsEnd(h) /\ FreeSpace(h) \in Int
  BY <1>1, <1>2 DEF FreeSpace
<1> QED BY <1>1, <1>2, <1>3, <1>4, <1>5

(* requestSpaceFor and insert.                                             *)
LEMMA HeapInsertOK ==
    ASSUME NEW n \in Page, PageOK(n), Fits(n), NEW h, Holds(h, n), HintsHold(h),
           NEW k \in Bytes, InFences(k, n.lower, n.upper), NEW v, NEW len \in Nat,
           [key |-> k, val |-> v] \in SlotType(n),
           len = IF IsLeaf(n) THEN PayloadLen[v] ELSE PtrSize,
           RequestSpaceFor(n, k, len),
           NEW m, m = InsertSlot(n, LowerBound(n, k), k, v),
           NEW d, d = HeapInsert(h, k, Cells(v, len))
    PROVE  Holds(d, m) /\ HintsHold(d)
<1> DEFINE cells == Cells(v, len)
           r == WithSpaceFor(h, k, cells)
           i == LowerBound(n, k)
           s == [key |-> k, val |-> v]
           e == StoreKeyValue(r, i, k, cells)
           p == PrefixLen(n)
<1>1. /\ p \in Nat /\ Len(k) \in Nat /\ p <= Len(k) /\ SlotSize \in Nat
      /\ i \in 1 .. Count(n) + 1 /\ Count(n) \in Nat
  BY PrefixLenNat, BytesType, KeyHasPrefix, BTreeAssumption, LowerBoundProperties, PageFacts
<1>2. /\ m \in Page /\ (IsLeaf(m) <=> IsLeaf(n)) /\ m.lower = n.lower /\ m.upper = n.upper
      /\ Count(m) = Count(n) + 1
      /\ \A j \in 1 .. (i - 1) : m.slot[j] = n.slot[j]
      /\ m.slot[i] = s
      /\ \A j \in (i + 1) .. (Count(n) + 1) : m.slot[j] = n.slot[j - 1]
  <2>1. i \in 1 .. Count(n) + 1 /\ m = InsertSlot(n, i, k, v)
    BY <1>1
  <2> HIDE DEF i
  <2> QED BY <2>1, InsertedSlots
<1>3. /\ PrefixLen(m) = p /\ s \in SlotType(m) /\ s.key = k
      /\ SuffixOf(m, s) = Suffix(k, p) /\ PayloadOf(m, s) = cells
  <2>1. PrefixLen(m) = p /\ s \in SlotType(m) /\ s.key = k /\ s.val = v
    BY <1>2 DEF PrefixLen, SlotType
  <2> QED BY <1>2, <2>1 DEF SuffixOf, PayloadOf
<1>4. Len(cells) = len
  <2>1. v \in Val \cup PageId
    BY DEF SlotType, LeafSlot, InnerSlot
  <2> QED BY <2>1, CellsAreCells
<1>5. EntryLen(m, s) = Len(k) - p + len /\ SpaceUsed(m) = SpaceUsed(n) + EntryLen(m, s)
  <2>1. EntryLen(n, s) = Len(k) - p + len
    BY DEF EntryLen
  <2>2. EntryLen(m, s) = EntryLen(n, s)
    BY <1>2, SameEntryLen
  <2>3. /\ SlotBytes(m)[Count(m)] = SlotBytes(n)[Count(n)] + EntryLen(n, s)
        /\ EntryLen(n, s) \in Int
    <3>1. i \in 1 .. Count(n) + 1 /\ m = InsertSlot(n, i, k, v)
      BY <1>1
    <3> HIDE DEF i
    <3> QED BY <3>1, InsertUses
  <2>4. /\ SpaceUsed(n) = Len(n.lower) + Len(n.upper) + SlotBytes(n)[Count(n)]
        /\ SpaceUsed(m) = Len(n.lower) + Len(n.upper) + SlotBytes(m)[Count(m)]
        /\ Len(n.lower) \in Nat /\ Len(n.upper) \in Nat /\ SlotBytes(n)[Count(n)] \in Int
    BY <1>2, SpaceNumbers DEF SpaceUsed
  <2> DEFINE x == SlotBytes(n)[Count(n)]
             y == SlotBytes(m)[Count(m)]
             a == Len(n.lower)
             b == Len(n.upper)
             z == EntryLen(n, s)
             sn == SpaceUsed(n)
             sm == SpaceUsed(m)
  <2>5. y = x + z /\ z \in Int /\ sn = a + b + x /\ sm = a + b + y /\ a \in Nat /\ b \in Nat /\ x \in Int
    BY <2>3, <2>4
  <2> HIDE DEF x, y, a, b, z, sn, sm
  <2>6. sm = sn + z
    BY <2>5
  <2> QED BY <2>1, <2>2, <2>6 DEF z, sn, sm
<1>6. SlotSize + (Len(k) - p) + len <= FreeSpaceAfterCompaction(n)
  BY DEF RequestSpaceFor, SpaceNeeded
<1>7. Holds(r, n) /\ HintsHold(r) /\ SlotSize + (Len(k) - p) + len <= FreeSpace(r)
  <2> DEFINE need == SlotSize + Len(k) - h.prefixLength + Len(cells)
  <2>1. need = SlotSize + (Len(k) - p) + len
    <3>1. h.prefixLength = p
      BY DEF Holds, FencesHold
    <3> HIDE DEF p, cells
    <3> QED BY <1>1, <1>4, <3>1
  <2>2. CASE need <= FreeSpace(h)
    BY <2>1, <2>2 DEF WithSpaceFor
  <2>3. CASE ~(need <= FreeSpace(h))
    <3>1. r = Compactify(h)
      BY <2>3 DEF WithSpaceFor
    <3> HIDE DEF r, need
    <3>2. Holds(r, n) /\ HintsHold(r) /\ r.dataOffset + r.spaceUsed = r.size
      BY <3>1, CompactifyOK
    <3>3. FreeSpace(r) = FreeSpaceAfterCompaction(n)
      BY <3>2, FreeSpaces
    <3> QED BY <1>6, <3>2, <3>3
  <2> QED BY <2>2, <2>3
<1>8. Search(r, k).at = i
  <2> HIDE DEF r
  <2>1. Search(r, k) = [at |-> LowerBound(n, k), found |-> FoundAt(n, k, LowerBound(n, k))]
    BY <1>7, SearchFinds
  <2> QED BY <2>1
<1>9. d = UpdateHint(e, i - 1)
  <2> HIDE DEF e, i
  <2> QED BY <1>8 DEF HeapInsert, e
<1>10. e = StoreSuffix(r, i, SuffixOf(m, s), PayloadOf(m, s))
  <2>1. r.prefixLength = p
    BY <1>7 DEF Holds, FencesHold
  <2> QED BY <1>3, <2>1 DEF StoreKeyValue
<1> HIDE DEF r, e
<1>11. /\ SlotsEnd(r) + SlotSize + EntryLen(m, s) <= r.dataOffset
  <2>1. SlotsEnd(r) \in Nat /\ r.dataOffset \in Nat /\ FreeSpace(r) = r.dataOffset - SlotsEnd(r)
    BY <1>7, FreeSpaces
  <2> DEFINE x == SlotsEnd(r)
             y == EntryLen(m, s)
             o == r.dataOffset
             l == Len(k)
  <2>2. x \in Nat /\ o \in Nat /\ y = l - p + len /\ l \in Nat /\ SlotSize + (l - p) + len <= o - x
    BY <1>1, <1>5, <1>7, <2>1, SMTT(40)
  <2>3. p \in Nat /\ len \in Nat /\ SlotSize \in Nat
    BY <1>1, BTreeAssumption
  <2> HIDE DEF x, y, o, l, p
  <2>4. x + SlotSize + y <= o
    BY ONLY <2>2, <2>3
  <2> QED BY <2>4 DEF x, y, o
<1>12. /\ Holds(e, m) /\ e.hint = r.hint
       /\ \A j \in 1 .. (i - 1) : e.slot[j] = r.slot[j]
  <2>1. /\ i \in 1 .. Count(m) /\ s = m.slot[i] /\ PrefixLen(m) <= Len(s.key)
        /\ \A j \in (i + 1) .. Count(m) : m.slot[j] = n.slot[j - 1]
    BY <1>1, <1>2, <1>3
  <2> HIDE DEF s, i
  <2> QED BY <1>2, <1>3, <1>5, <1>7, <1>10, <1>11, <2>1, StoreHolds
<1>13. /\ r \in Layout /\ e \in Layout /\ Len(e.slot) = Len(r.slot) + 1 /\ i \in 1 .. Len(e.slot)
  <2>1. Len(r.slot) = Count(n) /\ Len(e.slot) = Count(m)
    BY <1>7, <1>12 DEF Holds
  <2> QED BY <1>1, <1>2, <1>7, <1>12, <2>1 DEF Holds, FencesHold
<1> HIDE DEF i
<1>14. HintsHold(d) /\ \A x : Holds(e, x) => Holds(d, x)
  BY <1>7, <1>9, <1>12, <1>13, UpdateHintOK
<1> QED BY <1>12, <1>14

(* removeSlot leaves the bytes where they are and gives back their room.   *)
LEMMA HeapRemoveOK ==
    ASSUME NEW n \in Page, PageOK(n), NEW h, Holds(h, n), NEW i \in 1 .. Count(n),
           NEW m, m = RemoveSlot(n, i), NEW d, d = HeapRemove(h, i)
    PROVE  Holds(d, m) /\ HintsHold(d)
<1> DEFINE used == h.spaceUsed - h.slot[i].keyLen - h.slot[i].payloadLen
           q == RemoveAt(h.slot, i)
           e == [h EXCEPT !.spaceUsed = used, !.slot = q]
           s == n.slot[i]
<1>1. /\ h \in Layout /\ FencesHold(h, n) /\ h.slot \in Seq(SlotInfo) /\ Len(h.slot) = Count(n)
      /\ Count(n) \in Nat /\ h.spaceUsed \in Int /\ h.dataOffset \in Nat /\ h.spaceUsed = SpaceUsed(n)
  BY PageFacts DEF Holds, FencesHold, Layout
<1>2. /\ m \in Page /\ (IsLeaf(m) <=> IsLeaf(n)) /\ m.lower = n.lower /\ m.upper = n.upper
      /\ Count(m) = Count(n) - 1
      /\ \A j \in 1 .. (i - 1) : m.slot[j] = n.slot[j]
      /\ \A j \in i .. (Count(n) - 1) : m.slot[j] = n.slot[j + 1]
  BY RemovedSlots
<1>3. /\ q \in Seq(SlotInfo) /\ Len(q) = Count(n) - 1
      /\ \A j \in 1 .. (i - 1) : q[j] = h.slot[j]
      /\ \A j \in i .. (Count(n) - 1) : q[j] = h.slot[j + 1]
  <2> DEFINE z == h.slot
             X == SlotInfo
  <2>1. z \in Seq(X) /\ i \in 1 .. Len(z) /\ Len(z) = Count(n)
    BY <1>1
  <2> HIDE DEF z, X
  <2>2. /\ RemoveAt(z, i) \in Seq(X) /\ Len(RemoveAt(z, i)) = Len(z) - 1
        /\ \A j \in 1 .. (i - 1) : RemoveAt(z, i)[j] = z[j]
        /\ \A j \in i .. (Len(z) - 1) : RemoveAt(z, i)[j] = z[j + 1]
    BY ONLY <2>1, RemoveAtProperties
  <2> QED BY <2>1, <2>2 DEF z, X
<1>4. /\ h.slot[i].keyLen = Len(SuffixOf(n, s)) /\ h.slot[i].payloadLen = Len(PayloadOf(n, s))
  BY DEF Holds, SlotHolds
<1>5. /\ Len(SuffixOf(n, s)) \in Nat /\ Len(PayloadOf(n, s)) \in Nat
      /\ EntryLen(n, s) = Len(SuffixOf(n, s)) + Len(PayloadOf(n, s))
  BY SlotInPage, RecordBytes
<1>6. used \in Int /\ used = SpaceUsed(n) - EntryLen(n, s)
  <2> DEFINE x == Len(SuffixOf(n, s))
             y == Len(PayloadOf(n, s))
  <2>1. x \in Nat /\ y \in Nat /\ used = h.spaceUsed - x - y /\ EntryLen(n, s) = x + y
    BY <1>4, <1>5
  <2> HIDE DEF x, y, used
  <2> QED BY <1>1, <2>1
<1>7. used = SpaceUsed(m)
  <2>1. SlotBytes(m)[Count(m)] = SlotBytes(n)[Count(n)] - EntryLen(n, s)
    BY RemoveUses
  <2>2. /\ SpaceUsed(n) = Len(n.lower) + Len(n.upper) + SlotBytes(n)[Count(n)]
        /\ SpaceUsed(m) = Len(n.lower) + Len(n.upper) + SlotBytes(m)[Count(m)]
        /\ Len(n.lower) \in Nat /\ Len(n.upper) \in Nat /\ SlotBytes(n)[Count(n)] \in Int
        /\ EntryLen(n, s) \in Int
    BY <1>2, SpaceNumbers, EntryLenInt DEF SpaceUsed
  <2> DEFINE x == SlotBytes(n)[Count(n)]
             y == SlotBytes(m)[Count(m)]
             a == Len(n.lower)
             b == Len(n.upper)
             z == EntryLen(n, s)
             sn == SpaceUsed(n)
             sm == SpaceUsed(m)
  <2>3. y = x - z /\ z \in Int /\ sn = a + b + x /\ sm = a + b + y /\ a \in Nat /\ b \in Nat /\ x \in Int
        /\ used = sn - z
    BY <1>6, <2>1, <2>2
  <2> HIDE DEF x, y, a, b, z, sn, sm, used
  <2>4. used = sm
    BY <2>3
  <2> QED BY <2>4 DEF sm
<1> HIDE DEF used, q
<1>8. e \in Layout /\ e.slot = q /\ e.spaceUsed = used
  BY <1>1, <1>3, <1>6 DEF Layout
<1>9. /\ e.size = h.size /\ e.lower = h.lower /\ e.upper = h.upper
      /\ e.prefixLength = h.prefixLength /\ e.mem = h.mem /\ e.dataOffset = h.dataOffset
  BY <1>1 DEF Layout
<1>10. d = MakeHint(e)
  BY DEF HeapRemove, used, q
<1> HIDE DEF e
<1>11. SameFrame(e, h) /\ GrownFrom(e, h) /\ e.dataOffset >= 0
  BY <1>1, <1>9 DEF SameFrame, GrownFrom
<1>12. FencesHold(e, m)
  BY <1>1, <1>2, <1>8, <1>11, FencesStay
<1>13. \A j \in 1 .. Count(n) : SlotHolds(e, m, h.slot[j], n.slot[j])
  BY <1>1, <1>2, <1>8, <1>11, SlotStays DEF Holds
<1> DEFINE old(j) == IF j < i THEN j ELSE j + 1
<1>14. ASSUME NEW j \in 1 .. Count(m)
       PROVE  old(j) \in 1 .. Count(n) /\ q[j] = h.slot[old(j)] /\ m.slot[j] = n.slot[old(j)]
  <2>1. CASE j < i
    BY <1>1, <1>2, <1>3, <2>1
  <2>2. CASE ~(j < i)
    <3>1. j \in i .. (Count(n) - 1) /\ j + 1 \in 1 .. Count(n)
      BY <1>1, <1>2, <2>2
    <3> QED BY <1>2, <1>3, <2>2, <3>1
  <2> QED BY <2>1, <2>2
<1>15. \A j \in 1 .. Count(m) : SlotHolds(e, m, e.slot[j], m.slot[j])
  <2> HIDE DEF old
  <2> QED BY <1>8, <1>13, <1>14
<1>16. SlotsApart(e.slot)
  <2>1. ASSUME NEW a \in 1 .. Len(q), NEW b \in 1 .. Len(q), a # b
        PROVE  Apart(q[a].offset, SlotLen(q[a]), q[b].offset, SlotLen(q[b]))
    <3>1. a \in 1 .. Count(m) /\ b \in 1 .. Count(m)
      BY <1>2, <1>3
    <3>2. old(a) # old(b)
      BY <1>1, <2>1
    <3>3. \A x, y \in 1 .. Count(n) : x # y =>
             Apart(h.slot[x].offset, SlotLen(h.slot[x]), h.slot[y].offset, SlotLen(h.slot[y]))
      BY <1>1 DEF Holds, SlotsApart
    <3> HIDE DEF old
    <3> QED BY <1>14, <3>1, <3>2, <3>3
  <2> QED BY <1>8, <2>1 DEF SlotsApart
<1>17. SlotsEnd(e) <= e.dataOffset
  <2>1. SlotSize \in Nat /\ HeaderSize \in Nat /\ Count(n) - 1 \in Nat
    BY <1>1, BTreeAssumption
  <2>2. SlotSize * Count(n) = SlotSize * (Count(n) - 1) + SlotSize /\ SlotSize * (Count(n) - 1) \in Nat
    BY <1>1, <2>1
  <2>3. HeaderSize + SlotSize * Count(n) <= h.dataOffset
    BY <1>1 DEF Holds, SlotsEnd
  <2>4. SlotsEnd(e) = HeaderSize + SlotSize * (Count(n) - 1)
    BY <1>3, <1>8 DEF SlotsEnd
  <2> DEFINE x == SlotSize * Count(n)
             y == SlotSize * (Count(n) - 1)
  <2>5. x = y + SlotSize /\ y \in Nat /\ HeaderSize + x <= h.dataOffset /\ SlotsEnd(e) = HeaderSize + y
    BY <2>2, <2>3, <2>4
  <2> HIDE DEF x, y
  <2> QED BY <1>1, <1>9, <2>1, <2>5
<1>18. Holds(e, m)
  BY <1>2, <1>3, <1>7, <1>8, <1>12, <1>15, <1>16, <1>17 DEF Holds
<1> QED BY <1>8, <1>10, <1>18, MakeHintOK

(* A page is copied as a whole behind the records another page has.        *)
LEMMA WholeCopyFills ==
    ASSUME NEW n \in Page, PageOK(n), NEW src, Holds(src, n),
           NEW w \in Page, PageOK(w), Fits(w), IsLeaf(w) <=> IsLeaf(n),
           NEW at \in Nat, at + Count(n) <= Count(w),
           \A j \in 1 .. Count(n) : w.slot[at + j] = n.slot[j],
           NEW dst, Holds(dst, First(w, at)), dst.dataOffset + dst.spaceUsed = dst.size,
           NEW d, d = CopyEach(src, dst, 1, Count(n))[Count(n)]
    PROVE  Holds(d, First(w, at + Count(n))) /\ d.dataOffset + d.spaceUsed = d.size
<1>1. Count(n) \in Nat
  BY PageFacts
<1>2. PICK c \in Nat : c = Count(n)
  BY <1>1
<1>3. PICK from \in Nat \ {0} : from = 1
  OBVIOUS
<1>4. from + c <= Count(n) + 1 /\ at + c <= Count(w)
  BY <1>2, <1>3
<1>5. SameSlots(w, at, n, from, c)
  <2> SUFFICES ASSUME NEW j \in 1 .. c
               PROVE  w.slot[at + j] = n.slot[from + j - 1]
    BY DEF SameSlots
  <2>1. from + j - 1 = j
    BY <1>3
  <2> QED BY <1>2, <2>1
<1>6. d = CopyEach(src, dst, from, c)[c]
  BY <1>2, <1>3
<1>7. /\ n \in Page /\ PageOK(n) /\ Holds(src, n) /\ w \in Page /\ PageOK(w) /\ Fits(w)
      /\ (IsLeaf(w) <=> IsLeaf(n)) /\ from \in Nat \ {0} /\ c \in Nat /\ at \in Nat
      /\ Holds(dst, First(w, at)) /\ dst.dataOffset + dst.spaceUsed = dst.size
  OBVIOUS
<1>8. Holds(d, First(w, at + c)) /\ d.dataOffset + d.spaceUsed = d.size
  BY ONLY <1>1, <1>4, <1>5, <1>6, <1>7, CopyFills
<1> QED BY <1>2, <1>8

(* mergeNodes copies both leaves to a new page under the common prefix of  *)
(* the outer fences.                                                       *)
LEMMA HeapMergeOK ==
    ASSUME NEW l \in Page, PageOK(l), NEW hl, Holds(hl, l), IsLeaf(l),
           NEW r \in Page, PageOK(r), NEW hr, Holds(hr, r), IsLeaf(r),
           NEW w, w = Merged(l, r), PageOK(w), Fits(w),
           NEW d, d = HeapMerge(hl, hr)
    PROVE  Holds(d, w) /\ HintsHold(d)
<1> DEFINE a == Count(l)
           b == Count(r)
           f == SetFences(InitPage(PageSize(w)), w.lower, w.upper)
           g == CopyEach(hl, f, 1, a)[a]
           e == CopyEach(hr, g, 1, b)[b]
<1>1. /\ w \in Page /\ IsLeaf(w) /\ w.lower = l.lower /\ w.upper = r.upper
      /\ Count(w) = a + b
      /\ \A j \in 1 .. a : w.slot[j] = l.slot[j]
      /\ \A j \in 1 .. b : w.slot[a + j] = r.slot[j]
  BY MergedSlots
<1>2. /\ a \in Nat /\ b \in Nat /\ a - 1 + 1 = a /\ b - 1 + 1 = b /\ 0 \in Nat /\ 1 \in Nat \ {0}
  BY PageFacts
<1>3. /\ LowerBytes(hl) = w.lower /\ UpperBytes(hr) = w.upper
      /\ hl.size = PageSize(w) /\ Len(hl.slot) = a /\ Len(hr.slot) = b
  <2>1. LowerBytes(hl) = l.lower /\ UpperBytes(hr) = r.upper
    BY FencesRead DEF Holds
  <2>2. hl.size = PageSize(l) /\ PageSize(l) = PageSize(w)
    BY <1>1 DEF Holds, FencesHold, PageSize
  <2> QED BY <1>1, <2>1, <2>2 DEF Holds
<1>4. d = MakeHint(e)
  BY <1>2, <1>3 DEF HeapMerge, CopyKeyValueRange
<1>5. Holds(f, First(w, 0)) /\ f.dataOffset + f.spaceUsed = f.size
  BY <1>1, FencedHolds
<1> HIDE DEF f
<1>6. Holds(g, First(w, 0 + a)) /\ g.dataOffset + g.spaceUsed = g.size
  <2>1. PICK at \in Nat : at = 0
    OBVIOUS
  <2>2. at + a <= Count(w)
    BY <1>1, <1>2, <2>1
  <2>3. \A j \in 1 .. a : w.slot[at + j] = l.slot[j]
    <3> TAKE j \in 1 .. a
    <3>1. at + j = j
      BY <2>1
    <3> QED BY <1>1, <3>1
  <2>4. Holds(f, First(w, at))
    BY <1>5, <2>1
  <2>5. Holds(g, First(w, at + a)) /\ g.dataOffset + g.spaceUsed = g.size
    BY <1>1, <1>5, <2>2, <2>3, <2>4, WholeCopyFills
  <2> QED BY <2>1, <2>5
<1> HIDE DEF g
<1>7. Holds(e, First(w, a + b)) /\ e.dataOffset + e.spaceUsed = e.size
  <2>1. PICK at \in Nat : at = a
    BY <1>2
  <2>2. at + b <= Count(w)
    BY <1>1, <1>2, <2>1
  <2>3. \A j \in 1 .. b : w.slot[at + j] = r.slot[j]
    BY <1>1, <2>1
  <2>4. Holds(g, First(w, at))
    BY <1>2, <1>6, <2>1
  <2>5. Holds(e, First(w, at + b)) /\ e.dataOffset + e.spaceUsed = e.size
    BY <1>1, <1>6, <2>2, <2>3, <2>4, WholeCopyFills
  <2> QED BY <2>1, <2>5
<1> HIDE DEF e
<1>8. Holds(e, w)
  BY <1>1, <1>7, FirstAll
<1>9. e \in Layout
  BY <1>8 DEF Holds, FencesHold
<1> QED BY <1>4, <1>8, <1>9, MakeHintOK

(***************************************************************************)
(* The steps.                                                              *)
(***************************************************************************)
Shows(h, n) == Holds(h, n) /\ HintsHold(h)

(* Every page has a layout that shows it.                                  *)
HeapOK == DOMAIN heap = Pages /\ \A p \in Pages : Shows(heap[p], page[p])

(* A page without fences and records, and a layout nobody has written to.  *)
LEMMA FreshHolds ==
    ASSUME NEW n \in Page, n.lower = << >>, n.upper = << >>, n.slot = << >>
    PROVE  Shows(InitPage(PageSize(n)), n)
<1> DEFINE h == InitPage(PageSize(n))
<1>1. Holds(h, n)
  BY InitHolds DEF Count
<1>2. h \in Layout /\ h.slot = << >> /\ \A i \in 0 .. (HintCount - 1) : h.hint[i] = Unset
  <2>1. PageSize(n) \in Nat
    BY BTreeAssumption DEF PageSize
  <2> QED BY <2>1, InitPageFields
<1> HIDE DEF h
<1>3. ASSUME NEW i \in 0 .. (HintCount - 1)
      PROVE  h.hint[i] = HintFor(h, i)
  <2> DEFINE at == Dist(Len(h.slot)) * (i + 1)
  <2>1. at \in Nat /\ Len(h.slot) = 0
    BY <1>2, HintForType
  <2> HIDE DEF at
  <2>2. ~ (at < Len(h.slot))
    BY <2>1
  <2>3. HintFor(h, i) = Unset
    BY <2>2 DEF HintFor, at
  <2> QED BY <1>2, <2>3
<1> QED BY <1>1, <1>3 DEF Shows, HintsHold, h

(* What the invariants of the tree say about a page.                       *)
LEMMA PageInUse ==
    ASSUME IInv, PagesFit, NEW p \in Pages
    PROVE  page[p] \in Page /\ PageOK(page[p]) /\ Fits(page[p])
BY TypeParts DEF IInv, PageType, TreeOK, KeysInFences, PagesFit

LEMMA OneShown ==
    ASSUME HeapOK, NEW p \in Pages, NEW m, NEW d, Shows(d, m),
           page' = [page EXCEPT ![p] = m], heap' = [heap EXCEPT ![p] = d]
    PROVE  HeapOK'
BY DEF HeapOK, Pages

LEMMA InsertShown ==
    ASSUME IInv, PagesFit, HeapOK, InsertBytes
    PROVE  HeapOK'
<1> DEFINE n == page[node]
           k == op.key
           v == op.val
           len == PayloadLen[v]
           m == InsertSlot(n, LowerBound(n, k), k, v)
           d == HeapInsert(heap[node], k, Cells(v, len))
<1>1. /\ AtLeaf("insert") /\ HasRoom(n) /\ heap' = [heap EXCEPT ![node] = d]
      /\ page' = [page EXCEPT ![node] = InsertSlot(n, LowerBound(n, skey), k, v)]
  BY DEF InsertBytes, LeafInsert
<1>2. /\ node \in Pages /\ IsLeaf(n) /\ InFences(skey, n.lower, n.upper) /\ LocalType /\ skey = op.key
  BY <1>1, AtLeafFacts
<1>3. page' = [page EXCEPT ![node] = m]
  BY <1>1, <1>2
<1>4. n \in Page /\ PageOK(n) /\ Fits(n) /\ Holds(heap[node], n) /\ HintsHold(heap[node])
  BY <1>2, PageInUse DEF HeapOK, Shows
<1>5. k \in Key /\ v \in Val /\ k \in Bytes /\ len \in Nat
  BY <1>1, <1>2, OpFacts, BTreeAssumption DEF AtLeaf, LocalType
<1>6. /\ [key |-> k, val |-> v] \in SlotType(n) /\ RequestSpaceFor(n, k, len)
      /\ len = (IF IsLeaf(n) THEN PayloadLen[v] ELSE PtrSize)
      /\ InFences(k, n.lower, n.upper)
  BY <1>1, <1>2, <1>5 DEF SlotType, LeafSlot, HasRoom
<1>7. Holds(d, m) /\ HintsHold(d)
  <2> HIDE DEF n, k, v, len
  <2> QED BY <1>4, <1>5, <1>6, HeapInsertOK
<1> HIDE DEF m, d
<1> QED BY <1>1, <1>2, <1>3, <1>7, OneShown DEF Shows

LEMMA MakeRootShown ==
    ASSUME IInv, HeapOK, MakeRootBytes
    PROVE  HeapOK'
<1> DEFINE p == NewPage
           r == Inner(<< >>, << >>, << >>, node)
<1>1. /\ page' = [q \in DOMAIN page \cup {p} |-> IF q = p THEN r ELSE page[q]]
      /\ root' = p /\ pc = "split" /\ parent = NoPage /\ FreePages # {}
      /\ heap' = [q \in DOMAIN page' |-> IF q = root' THEN InitPage(PageSizeInner) ELSE heap[q]]
  BY DEF MakeRootBytes, MakeRoot
<1>2. node \in PageId
  BY <1>1, TypeParts DEF IInv, CursorOnPath, Walking, PageType
<1>3. r \in Page /\ r.lower = << >> /\ r.upper = << >> /\ r.slot = << >> /\ PageSize(r) = PageSizeInner
  <2>1. << >> \in Bytes /\ << >> \in Seq(InnerSlot)
    BY DEF Bytes
  <2> QED BY <1>2, <2>1 DEF Inner, Page, InnerPage, PageSize, IsLeaf
<1>4. Shows(InitPage(PageSizeInner), r)
  BY <1>3, FreshHolds
<1>5. Pages' = Pages \cup {p} /\ p \notin Pages
  BY <1>1, NewPageFacts DEF Pages
<1> HIDE DEF p, r
<1> QED BY <1>1, <1>4, <1>5 DEF HeapOK, Pages

(* The record is where a search on the bytes finds it.                     *)
LEMMA RemovedShown ==
    ASSUME IInv, PagesFit, HeapOK, Removing
    PROVE  /\ node \in Pages
           /\ Shows(HeapRemove(heap[node], Search(heap[node], skey).at), Removed(page[node]))
<1> DEFINE n == page[node]
           h == heap[node]
           i == LowerBound(n, skey)
<1>1. AtLeaf("remove") /\ FoundAt(n, skey, i)
  BY DEF Removing
<1>2. /\ node \in Pages /\ skey \in Bytes /\ InFences(skey, n.lower, n.upper)
      /\ i \in 1 .. Count(n) + 1 /\ Count(n) \in Nat
  BY <1>1, AtLeafFacts
<1>3. n \in Page /\ PageOK(n) /\ Holds(h, n) /\ HintsHold(h)
  BY <1>2, PageInUse DEF HeapOK, Shows
<1>4. i \in 1 .. Count(n)
  BY <1>1, <1>2 DEF FoundAt
<1>5. Search(h, skey).at = i
  BY <1>2, <1>3, SearchFinds
<1>6. Shows(HeapRemove(h, i), RemoveSlot(n, i))
  BY <1>3, <1>4, HeapRemoveOK DEF Shows
<1> QED BY <1>2, <1>5, <1>6 DEF Removed

LEMMA RemoveShown ==
    ASSUME IInv, PagesFit, HeapOK, RemoveBytes
    PROVE  HeapOK'
<1> DEFINE d == HeapRemove(heap[node], Search(heap[node], skey).at)
           m == Removed(page[node])
<1>1. /\ Removing /\ page' = [page EXCEPT ![node] = m] /\ heap' = [heap EXCEPT ![node] = d]
  BY DEF RemoveBytes, RemoveOnly
<1>2. Shows(d, m) /\ node \in Pages
  BY <1>1, RemovedShown
<1> HIDE DEF d, m
<1> QED BY <1>1, <1>2, OneShown

LEMMA LeftHalfShown ==
    ASSUME NEW n \in Page, PageOK(n), Count(n) > 1,
           NEW s, s = FindSeparator(n), s.at >= 2, NEW h, Holds(h, n),
           NEW w, w = SplitLeft(n, s), Fits(w),
           NEW last, last = IF IsLeaf(n) THEN s.at ELSE s.at - 1
    PROVE  Shows(HalfOf(h, LowerBytes(h), s.sep, 1, last), w)
<1>1. /\ w \in Page /\ PageOK(w) /\ w.lower = n.lower /\ w.upper = s.sep
      /\ (IsLeaf(w) <=> IsLeaf(n)) /\ Count(w) = last
      /\ \A j \in 1 .. Count(w) : w.slot[j] = n.slot[j]
  BY SplitLeftOK
<1>2. s.at \in 1 .. Count(n)
  BY SeparatorProperties
<1>3. last \in Nat /\ last <= Count(n) /\ Count(n) \in Nat
  BY <1>1, <1>2, PageFacts
<1>4. LowerBytes(h) = w.lower /\ h.size = PageSize(w)
  <2>1. FencesHold(h, n)
    BY DEF Holds
  <2> QED BY <1>1, <2>1, FencesRead DEF FencesHold, PageSize
<1>5. PICK from \in Nat \ {0} : from = 1
  OBVIOUS
<1>6. last - from + 1 = Count(w)
  BY <1>1, <1>3, <1>5
<1>7. \A j \in 1 .. Count(w) : w.slot[j] = n.slot[from + j - 1]
  <2> TAKE j \in 1 .. Count(w)
  <2>1. from + j - 1 = j
    BY <1>5
  <2> QED BY <1>1, <2>1
<1> DEFINE d == HalfOf(h, LowerBytes(h), s.sep, from, last)
<1>8. d = MakeHint(CopyKeyValueRange(h, SetFences(InitPage(PageSize(w)), w.lower, w.upper), from, last))
  BY <1>1, <1>4 DEF HalfOf
<1> HIDE DEF d
<1>9. Holds(d, w) /\ HintsHold(d)
  BY <1>1, <1>3, <1>6, <1>7, <1>8, FilledHolds
<1> QED BY <1>5, <1>9 DEF Shows, d

LEMMA RightHalfShown ==
    ASSUME NEW n \in Page, PageOK(n), Count(n) > 1,
           NEW s, s = FindSeparator(n), s.at >= 2, NEW h, Holds(h, n),
           NEW w, w = SplitRight(n, s), Fits(w)
    PROVE  Shows(HalfOf(h, s.sep, UpperBytes(h), s.at + 1, Len(h.slot)), w)
<1>1. /\ w \in Page /\ PageOK(w) /\ w.lower = s.sep /\ w.upper = n.upper
      /\ (IsLeaf(w) <=> IsLeaf(n)) /\ Count(w) = Count(n) - s.at
      /\ \A j \in 1 .. Count(w) : w.slot[j] = n.slot[s.at + j]
  BY SplitRightOK
<1>2. s.at \in 1 .. Count(n)
  BY SeparatorProperties
<1>3. /\ UpperBytes(h) = w.upper /\ h.size = PageSize(w) /\ Len(h.slot) = Count(n)
  <2>1. FencesHold(h, n) /\ Len(h.slot) = Count(n)
    BY DEF Holds
  <2> QED BY <1>1, <2>1, FencesRead DEF FencesHold, PageSize
<1>4. PICK to \in Nat : to = Count(n)
  BY PageFacts
<1>5. PICK from \in Nat \ {0} : from = s.at + 1
  BY <1>2, <1>4
<1>6. to - from + 1 = Count(w) /\ to <= Count(n)
  BY <1>1, <1>2, <1>4, <1>5
<1>7. \A j \in 1 .. Count(w) : w.slot[j] = n.slot[from + j - 1]
  <2> TAKE j \in 1 .. Count(w)
  <2>1. from + j - 1 = s.at + j
    BY <1>2, <1>4, <1>5
  <2> QED BY <1>1, <2>1
<1> DEFINE d == HalfOf(h, s.sep, UpperBytes(h), from, to)
<1>8. d = MakeHint(CopyKeyValueRange(h, SetFences(InitPage(PageSize(w)), w.lower, w.upper), from, to))
  BY <1>1, <1>3 DEF HalfOf
<1> HIDE DEF d
<1>9. Holds(d, w) /\ HintsHold(d)
  BY <1>1, <1>6, <1>7, <1>8, FilledHolds
<1> QED BY <1>3, <1>4, <1>5, <1>9 DEF Shows, d

(* The parent takes the separator.                                         *)
LEMMA SplitShown ==
    ASSUME IInv, PagesFit, HeapOK, SplitBytes
    PROVE  HeapOK'
<1> DEFINE h == heap[node]
           n == page[node]
           p == page[parent]
           s == FindSeparator(n)
           left == NewPage
           last == IF IsLeaf(n) THEN s.at ELSE s.at - 1
           dl == HalfOf(h, LowerBytes(h), s.sep, 1, last)
           dr == HalfOf(h, s.sep, UpperBytes(h), s.at + 1, Len(h.slot))
           dp == HeapInsert(heap[parent], s.sep, Cells(left, PtrSize))
           mp == InsertSlot(p, LowerBound(p, s.sep), s.sep, left)
<1>1. /\ SplitNode
      /\ heap' = [q \in DOMAIN page' |->
             CASE q = left   -> dl
               [] q = node   -> dr
               [] q = parent -> HeapInsert(heap[q], s.sep, Cells(left, PtrSize))
               [] OTHER      -> heap[q]]
  BY DEF SplitBytes
<1>2. /\ pc = "split" /\ parent # NoPage /\ SplitChecks = "split" /\ FreePages # {}
      /\ page' = [q \in DOMAIN page \cup {left} |->
                     CASE q = left   -> SplitLeft(n, s)
                       [] q = node   -> SplitRight(n, s)
                       [] q = parent -> mp
                       [] OTHER      -> page[q]]
  BY <1>1 DEF SplitNode, Splitting
<1>3. /\ RequestSpaceFor(p, s.sep, PtrSize)
      /\ Fits(SplitLeft(n, s)) /\ Fits(SplitRight(n, s))
  BY <1>2 DEF SplitChecks
<1>4. /\ node \in Pages /\ parent \in Pages /\ ~IsLeaf(p) /\ parent \in Inners
      /\ pos \in 1 .. Count(p) + 1 /\ node = ChildAt(p, pos)
  BY <1>2 DEF IInv, CursorOnPath, Walking, Inners
<1>5. /\ n \in Page /\ PageOK(n) /\ Holds(h, n)
      /\ p \in Page /\ PageOK(p) /\ Fits(p) /\ Holds(heap[parent], p) /\ HintsHold(heap[parent])
  BY <1>4, PageInUse DEF HeapOK, Shows
<1>6. Count(n) > 1 /\ s.at >= 2
  BY <1>1, SplitCounts
<1>7. /\ s.sep \in Bytes /\ s.sep # << >> /\ InFences(s.sep, n.lower, n.upper)
  BY <1>5, <1>6, SeparatorProperties
<1>8. left \in PageId /\ left \notin Pages
  BY <1>2, NewPageFacts
<1>9. Shows(dl, SplitLeft(n, s))
  <2> HIDE DEF n, s, h, last
  <2> USE DEF s, last
  <2> QED BY <1>3, <1>5, <1>6, LeftHalfShown
<1>10. Shows(dr, SplitRight(n, s))
  <2> HIDE DEF n, h
  <2> QED BY <1>3, <1>5, <1>6, RightHalfShown
<1>11. InFences(s.sep, p.lower, p.upper)
  <2>1. n.lower = SepAt(p, pos - 1) /\ n.upper = SepAt(p, pos)
    BY <1>4 DEF IInv, TreeOK, ChildFences
  <2>2. InFences(s.sep, SepAt(p, pos - 1), SepAt(p, pos))
    BY <1>7, <2>1
  <2> HIDE DEF s, n, p
  <2> QED BY <1>4, <1>5, <1>7, <2>2, ChildWithin
<1>12. [key |-> s.sep, val |-> left] \in SlotType(p) /\ PtrSize \in Nat
       /\ PtrSize = IF IsLeaf(p) THEN PayloadLen[left] ELSE PtrSize
  BY <1>4, <1>7, <1>8, BTreeAssumption DEF SlotType, InnerSlot
<1>13. Shows(dp, mp)
  <2> DEFINE k == s.sep
  <2>1. /\ k \in Bytes /\ InFences(k, p.lower, p.upper) /\ [key |-> k, val |-> left] \in SlotType(p)
        /\ RequestSpaceFor(p, k, PtrSize)
    BY <1>3, <1>7, <1>11, <1>12
  <2> HIDE DEF k, left, p
  <2>2. /\ Holds(HeapInsert(heap[parent], k, Cells(left, PtrSize)), InsertSlot(p, LowerBound(p, k), k, left))
        /\ HintsHold(HeapInsert(heap[parent], k, Cells(left, PtrSize)))
    BY <1>5, <1>12, <2>1, HeapInsertOK
  <2> QED BY <2>2 DEF Shows, k
<1>14. DOMAIN page' = Pages \cup {left} /\ Pages' = Pages \cup {left} /\ DOMAIN heap' = Pages'
  BY <1>1, <1>2 DEF Pages
<1>15. left # node /\ left # parent /\ node # parent
  BY <1>4, <1>8 DEF IInv, TreeOK, OneParent
<1> HIDE DEF h, n, p, s, left, last, dl, dr, mp
<1>16. ASSUME NEW q \in Pages'
       PROVE  Shows(heap'[q], page'[q])
  <2>1. CASE q = left
    BY <1>1, <1>2, <1>9, <1>14, <1>15, <2>1
  <2>2. CASE q # left /\ q = node
    BY <1>1, <1>2, <1>10, <1>14, <1>15, <2>2
  <2>3. CASE q # left /\ q # node /\ q = parent
    BY <1>1, <1>2, <1>13, <1>14, <2>3
  <2>4. CASE q # left /\ q # node /\ q # parent
    BY <1>1, <1>2, <1>14, <2>4 DEF HeapOK
  <2> QED BY <2>1, <2>2, <2>3, <2>4
<1> QED BY <1>14, <1>16 DEF HeapOK

LEMMA MergeShown ==
    ASSUME IInv, PagesFit, HeapOK, MergeBytes, IInv', PagesFit'
    PROVE  HeapOK'
<1> DEFINE n == Removed(page[node])
           y == RightNeighbour
           h == HeapRemove(heap[node], Search(heap[node], skey).at)
           dp == HeapRemove(heap[parent], pos)
           mp == RemoveSlot(page[parent], pos)
           dy == HeapMerge(h, heap[y])
           my == Merged(n, page[y])
<1>1. /\ RemoveAndMerge
      /\ heap' = [q \in DOMAIN page' |->
             CASE q = parent -> HeapRemove(heap[q], pos)
               [] q = y      -> HeapMerge(h, heap[q])
               [] OTHER      -> heap[q]]
  BY DEF MergeBytes
<1>2. /\ Removing /\ CanMerge(n)
      /\ page' = [q \in DOMAIN page \ {node} |->
                     CASE q = parent -> mp
                       [] q = y      -> my
                       [] OTHER      -> page[q]]
  BY <1>1 DEF RemoveAndMerge, PagesAfterMerge
<1>3. /\ n \in Page /\ PageOK(n) /\ IsLeaf(n) /\ node \in Pages /\ Shows(h, n)
  BY <1>2, RemovedOK, RemovedShown
<1>4. /\ parent # NoPage /\ pos + 1 <= Count(page[parent]) /\ IsLeaf(page[y])
      /\ y = ChildAt(page[parent], pos + 1)
  BY <1>2 DEF CanMerge, RightNeighbour
<1>5. /\ parent \in Inners /\ pos \in 1 .. Count(page[parent]) + 1
      /\ parent \in Pages /\ node = ChildAt(page[parent], pos)
  BY <1>2, <1>4 DEF IInv, CursorOnPath, Walking, AtLeaf, Inners, Removing
<1>6. page[parent] \in Page /\ PageOK(page[parent]) /\ Count(page[parent]) \in Nat
  BY <1>5, PageInUse, PageFacts
<1>7. pos \in 1 .. Count(page[parent]) /\ pos + 1 \in 1 .. Count(page[parent]) + 1
  BY <1>4, <1>5, <1>6
<1>8. y \in Pages /\ y # parent /\ y # node /\ node # parent
  <2>1. y \in Pages
    BY <1>4, <1>5, <1>7 DEF IInv, TreeOK, ChildFences
  <2>2. y # parent /\ node # parent
    BY <1>4, <1>5, <1>7 DEF IInv, TreeOK, OneParent
  <2>3. pos # pos + 1
    BY <1>5
  <2>4. y # node
    BY <1>4, <1>5, <1>7, <2>3 DEF IInv, TreeOK, OneParent
  <2> QED BY <2>1, <2>2, <2>4
<1>9. page[y] \in Page /\ PageOK(page[y]) /\ Holds(heap[y], page[y])
  BY <1>8, PageInUse DEF HeapOK, Shows
<1>10. /\ DOMAIN page' = Pages \ {node} /\ Pages' = Pages \ {node} /\ DOMAIN heap' = Pages'
       /\ page'[y] = my
  BY <1>1, <1>2, <1>8 DEF Pages
<1>11. PageOK(my) /\ Fits(my)
  BY <1>8, <1>10 DEF IInv, TreeOK, KeysInFences, PagesFit
<1>12. Shows(dp, mp)
  BY <1>5, <1>6, <1>7, HeapRemoveOK DEF HeapOK, Shows
<1>13. Shows(dy, my)
  <2> HIDE DEF n, h, y
  <2> QED BY <1>3, <1>4, <1>9, <1>11, HeapMergeOK DEF Shows
<1> HIDE DEF n, y, h, dp, mp, my
<1>14. ASSUME NEW q \in Pages'
       PROVE  Shows(heap'[q], page'[q])
  <2>1. CASE q = parent
    BY <1>1, <1>2, <1>8, <1>10, <1>12, <2>1 DEF dp
  <2>2. CASE q # parent /\ q = y
    BY <1>1, <1>2, <1>8, <1>10, <1>13, <2>2
  <2>3. CASE q # parent /\ q # y
    BY <1>1, <1>2, <1>10, <2>3 DEF HeapOK
  <2> QED BY <2>1, <2>2, <2>3
<1> QED BY <1>10, <1>14 DEF HeapOK

LEMMA EmptyLeafShown == Shows(InitPage(PageSizeLeaf), EmptyLeaf)
<1>1. /\ EmptyLeaf \in Page /\ EmptyLeaf.slot = << >> /\ PageSize(EmptyLeaf) = PageSizeLeaf
      /\ EmptyLeaf.lower = << >> /\ EmptyLeaf.upper = << >>
  <2>1. << >> \in Bytes /\ << >> \in Seq(LeafSlot)
    BY DEF Bytes
  <2> QED BY <2>1 DEF EmptyLeaf, Leaf, Page, LeafPage, PageSize, IsLeaf
<1> QED BY <1>1, FreshHolds

(* Every step of the bytes is a step of the tree.                          *)
LEMMA StepsOfPages ==
    ASSUME [SlottedNext]_slottedVars
    PROVE  [Next]_vars
BY DEF SlottedNext, slottedVars, SlottedStep, InsertBytes, MakeRootBytes, SplitBytes, RemoveBytes,
       MergeBytes, Looking, ClearBytes, Next, Step

LEMMA NextShown ==
    ASSUME IInv, PagesFit, HeapOK, [SlottedNext]_slottedVars
    PROVE  IInv' /\ PagesFit' /\ HeapOK'
<1>1. IInv' /\ PagesFit'
  BY StepsOfPages, NextOK, NextFits
<1> SUFFICES HeapOK'
  BY <1>1
<1>2. CASE InsertBytes
  BY <1>2, InsertShown
<1>3. CASE MakeRootBytes
  BY <1>3, MakeRootShown
<1>4. CASE SplitBytes
  BY <1>4, SplitShown
<1>5. CASE RemoveBytes
  BY <1>5, RemoveShown
<1>6. CASE MergeBytes
  BY <1>1, <1>6, MergeShown
<1>7. CASE ClearBytes
  <2>1. /\ page' = [p \in {root'} |-> EmptyLeaf]
        /\ heap' = [p \in {root'} |-> InitPage(PageSizeLeaf)]
    BY <1>7 DEF ClearBytes, Clear
  <2> QED BY <2>1, EmptyLeafShown DEF HeapOK, Pages
<1>8. CASE UNCHANGED <<page, heap>>
  BY <1>8 DEF HeapOK, Pages
<1>9. ASSUME NEW o \in Ops, Call(o), UNCHANGED heap
      PROVE  UNCHANGED <<page, heap>>
  BY <1>9 DEF Call
<1>10. \/ InsertBytes \/ MakeRootBytes \/ SplitBytes \/ RemoveBytes \/ MergeBytes \/ ClearBytes
       \/ UNCHANGED <<page, heap>>
  BY <1>9 DEF SlottedNext, SlottedStep, Looking, slottedVars, vars
<1> QED BY <1>2, <1>3, <1>4, <1>5, <1>6, <1>7, <1>8, <1>10

LEMMA InitShown ==
    ASSUME SlottedInit
    PROVE  IInv /\ PagesFit /\ HeapOK
<1>1. IInv
  BY InitOK DEF SlottedInit
<1>2. page = [p \in {root} |-> EmptyLeaf] /\ heap = [p \in {root} |-> InitPage(PageSizeLeaf)]
  BY DEF SlottedInit, Init
<1> QED BY <1>1, <1>2, EmptyLeafFits, EmptyLeafShown DEF PagesFit, HeapOK, Pages

(* The conjunction that the steps on the bytes preserve.                   *)
THEOREM HeapInvariant == SlottedSpec => [](IInv /\ PagesFit /\ HeapOK)
<1>1. SlottedInit => IInv /\ PagesFit /\ HeapOK
  BY InitShown
<1>2. IInv /\ PagesFit /\ HeapOK /\ [SlottedNext]_slottedVars => (IInv /\ PagesFit /\ HeapOK)'
  BY NextShown
<1> QED BY <1>1, <1>2, PTL DEF SlottedSpec

(***************************************************************************)
(* The regions of the heap.                                                *)
(***************************************************************************)
(* Where region i of Regions(h) begins, and its length.                    *)
RegionAt(h, i) ==
    IF i = 1 THEN h.lower.offset ELSE IF i = 2 THEN h.upper.offset ELSE h.slot[i - 2].offset
RegionLen(h, i) ==
    IF i = 1 THEN h.lower.length ELSE IF i = 2 THEN h.upper.length ELSE SlotLen(h.slot[i - 2])

LEMMA RegionTyped ==
    ASSUME NEW h \in Layout, NEW i \in 1 .. (Len(h.slot) + 2)
    PROVE  RegionAt(h, i) \in Int /\ RegionLen(h, i) \in Nat
<1>1. h.lower \in Fence /\ h.upper \in Fence /\ h.slot \in Seq(SlotInfo) /\ Len(h.slot) \in Nat
  BY LenProperties DEF Layout
<1>2. CASE i = 1 \/ i = 2
  BY <1>1, <1>2 DEF RegionAt, RegionLen, Fence
<1>3. CASE i # 1 /\ i # 2
  <2>1. i - 2 \in 1 .. Len(h.slot)
    BY <1>1, <1>3
  <2> QED BY <1>3, <2>1, SlotTyped DEF RegionAt, RegionLen
<1> QED BY <1>2, <1>3

LEMMA RegionsAre ==
    ASSUME NEW h \in Layout
    PROVE  /\ Len(Regions(h)) = Len(h.slot) + 2
           /\ DOMAIN Regions(h) = 1 .. (Len(h.slot) + 2)
           /\ \A i \in 1 .. (Len(h.slot) + 2) : Regions(h)[i] = Region(RegionAt(h, i), RegionLen(h, i))
<1> DEFINE c == Len(h.slot)
           S == SUBSET Int
           a == <<Region(h.lower.offset, h.lower.length), Region(h.upper.offset, h.upper.length)>>
           b == [i \in DOMAIN h.slot |-> Region(h.slot[i].offset, h.slot[i].keyLen + h.slot[i].payloadLen)]
<1>1. c \in Nat /\ DOMAIN h.slot = 1 .. c
  BY LenProperties DEF Layout
<1>2. \A i \in 1 .. (c + 2) : Region(RegionAt(h, i), RegionLen(h, i)) \in S
  BY RegionTyped DEF Region
<1>3. a \in Seq(S) /\ Len(a) = 2
      /\ a[1] = Region(RegionAt(h, 1), RegionLen(h, 1)) /\ a[2] = Region(RegionAt(h, 2), RegionLen(h, 2))
  <2>1. /\ Region(h.lower.offset, h.lower.length) = Region(RegionAt(h, 1), RegionLen(h, 1))
        /\ Region(h.upper.offset, h.upper.length) = Region(RegionAt(h, 2), RegionLen(h, 2))
    BY DEF RegionAt, RegionLen
  <2>2. 1 \in 1 .. (c + 2) /\ 2 \in 1 .. (c + 2)
    BY <1>1
  <2> HIDE DEF S, c
  <2> QED BY <1>2, <2>1, <2>2
<1>4. \A i \in 1 .. c : b[i] = Region(RegionAt(h, i + 2), RegionLen(h, i + 2)) /\ i + 2 \in 1 .. (c + 2)
  <2> TAKE i \in 1 .. c
  <2>1. i + 2 - 2 = i /\ i + 2 # 1 /\ i + 2 # 2 /\ i + 2 \in 1 .. (c + 2)
    BY <1>1
  <2>2. b[i] = Region(h.slot[i].offset, h.slot[i].keyLen + h.slot[i].payloadLen)
    BY <1>1
  <2> HIDE DEF b, c
  <2> QED BY <2>1, <2>2 DEF RegionAt, RegionLen, SlotLen
<1>5. b \in [1 .. c -> S]
  <2>1. DOMAIN b = 1 .. c /\ b = [i \in 1 .. c |-> b[i]]
    BY <1>1
  <2>2. \A i \in 1 .. c : b[i] \in S
    BY <1>2, <1>4
  <2> HIDE DEF b, c, S
  <2> QED BY <2>1, <2>2
<1>6. b \in Seq(S) /\ Len(b) = c
  <2> HIDE DEF b, S
  <2> QED BY <1>1, <1>5, SeqDef, LenProperties
<1>7. Regions(h) = a \o b
  BY DEF Regions
<1> HIDE DEF a, b, c, S
<1>8. /\ Len(a \o b) = c + 2 /\ a \o b \in Seq(S)
      /\ \A i \in 1 .. (c + 2) : (a \o b)[i] = IF i <= 2 THEN a[i] ELSE b[i - 2]
  <2>1. /\ a \o b \in Seq(S) /\ Len(a \o b) = Len(a) + Len(b)
        /\ \A i \in 1 .. Len(a) + Len(b) :
              (a \o b)[i] = IF i <= Len(a) THEN a[i] ELSE b[i - Len(a)]
    BY <1>3, <1>6, ConcatProperties
  <2>2. Len(a) + Len(b) = c + 2
    BY <1>1, <1>3, <1>6
  <2> QED BY <1>3, <2>1, <2>2
<1>9. \A i \in 1 .. (c + 2) : Regions(h)[i] = Region(RegionAt(h, i), RegionLen(h, i))
  <2> TAKE i \in 1 .. (c + 2)
  <2>1. CASE i = 1 \/ i = 2
    BY <1>1, <1>3, <1>7, <1>8, <2>1
  <2>2. CASE i # 1 /\ i # 2
    <3>1. i - 2 \in 1 .. c /\ i - 2 + 2 = i /\ ~ (i <= 2)
      BY <1>1, <2>2
    <3> QED BY <1>4, <1>7, <1>8, <3>1
  <2> QED BY <2>1, <2>2
<1>10. DOMAIN (a \o b) = 1 .. (c + 2)
  BY <1>8, LenProperties
<1> QED BY <1>7, <1>8, <1>9, <1>10 DEF c

(* What lies in a region lies in the heap.                                 *)
LEMMA PlacedInHeap ==
    ASSUME NEW h \in Layout, NEW at \in Int, NEW s, NEW len \in Nat, len = Len(s), Placed(h, at, s)
    PROVE  Region(at, len) \subseteq h.dataOffset .. (h.size - 1)
<1> SUFFICES ASSUME NEW a \in Region(at, len)
             PROVE  a \in h.dataOffset .. (h.size - 1)
  OBVIOUS
<1>1. a \in Int /\ at <= a /\ a <= at + len - 1
  BY DEF Region
<1>2. a - at + 1 \in 1 .. len /\ at + (a - at + 1) - 1 = a
  BY <1>1
<1> QED BY <1>2 DEF Placed

LEMMA ApartDisjoint ==
    ASSUME NEW a \in Int, NEW m \in Nat, NEW b \in Int, NEW n \in Nat, Apart(a, m, b, n)
    PROVE  Region(a, m) \cap Region(b, n) = {}
BY DEF Apart, Region

LEMMA RegionSize ==
    ASSUME NEW a \in Int, NEW m \in Nat
    PROVE  Cardinality(Region(a, m)) = m
<1>1. a + m - 1 \in Int
  OBVIOUS
<1>2. Cardinality(a .. (a + m - 1)) = IF a > a + m - 1 THEN 0 ELSE (a + m - 1) - a + 1
  BY <1>1, FS_Interval
<1> QED BY <1>2 DEF Region

LEMMA RegionsInHeap ==
    ASSUME NEW n \in Page, PageOK(n), NEW h, Holds(h, n), NEW i \in 1 .. (Count(n) + 2)
    PROVE  Region(RegionAt(h, i), RegionLen(h, i)) \subseteq h.dataOffset .. (h.size - 1)
<1>1. h \in Layout /\ Len(h.slot) = Count(n) /\ Count(n) \in Nat /\ FencesHold(h, n)
  BY PageFacts DEF Holds, FencesHold
<1>2. RegionAt(h, i) \in Int /\ RegionLen(h, i) \in Nat
  BY <1>1, RegionTyped
<1>3. CASE i = 1
  BY <1>1, <1>2, <1>3, PlacedInHeap DEF FencesHold, RegionAt, RegionLen
<1>4. CASE i = 2
  BY <1>1, <1>2, <1>4, PlacedInHeap DEF FencesHold, RegionAt, RegionLen
<1>5. CASE i # 1 /\ i # 2
  <2> DEFINE j == i - 2
             s == n.slot[j]
             t == h.slot[j]
             x == SuffixOf(n, s) \o PayloadOf(n, s)
  <2>1. j \in 1 .. Count(n)
    BY <1>1, <1>5
  <2> HIDE DEF j
  <2>2. SlotHolds(h, n, t, s)
    BY <2>1 DEF Holds
  <2>3. s \in SlotType(n) /\ PrefixLen(n) <= Len(s.key)
    BY <2>1, SlotInPage
  <2> HIDE DEF s
  <2>4. SuffixOf(n, s) \in Seq(Cell) /\ PayloadOf(n, s) \in Seq(Cell)
    BY <2>3, RecordBytes
  <2>5. Len(x) = Len(SuffixOf(n, s)) + Len(PayloadOf(n, s))
    BY <2>4, ConcatProperties
  <2>6. RegionAt(h, i) = t.offset /\ RegionLen(h, i) = SlotLen(t)
    BY <1>5 DEF RegionAt, RegionLen, j
  <2>7. Placed(h, t.offset, x) /\ SlotLen(t) = Len(x)
    BY <2>2, <2>5 DEF SlotHolds, SlotLen
  <2> HIDE DEF t, x
  <2> QED BY <1>1, <1>2, <2>6, <2>7, PlacedInHeap
<1> QED BY <1>3, <1>4, <1>5

LEMMA RegionsDisjoint ==
    ASSUME NEW n \in Page, NEW h, Holds(h, n),
           NEW i \in 1 .. (Count(n) + 2), NEW j \in 1 .. (Count(n) + 2), i < j
    PROVE  Region(RegionAt(h, i), RegionLen(h, i)) \cap Region(RegionAt(h, j), RegionLen(h, j)) = {}
<1>1. h \in Layout /\ Len(h.slot) = Count(n) /\ Count(n) \in Nat /\ FencesHold(h, n)
  BY PageFacts DEF Holds, FencesHold
<1>2. /\ RegionAt(h, i) \in Int /\ RegionLen(h, i) \in Nat
      /\ RegionAt(h, j) \in Int /\ RegionLen(h, j) \in Nat
  BY <1>1, RegionTyped
<1>3. Apart(RegionAt(h, i), RegionLen(h, i), RegionAt(h, j), RegionLen(h, j))
  <2>1. CASE i = 1 /\ j = 2
    BY <1>1, <2>1 DEF FencesHold, RegionAt, RegionLen
  <2>2. CASE j # 2
    <3> DEFINE y == j - 2
    <3>1. y \in 1 .. Count(n) /\ j # 1
      BY <1>1, <2>2
    <3>2. RegionAt(h, j) = h.slot[y].offset /\ RegionLen(h, j) = SlotLen(h.slot[y])
      BY <2>2, <3>1 DEF RegionAt, RegionLen
    <3> HIDE DEF y
    <3>3. SlotHolds(h, n, h.slot[y], n.slot[y])
      BY <3>1 DEF Holds
    <3>4. CASE i = 1
      BY <3>2, <3>3, <3>4 DEF SlotHolds, RegionAt, RegionLen, Apart
    <3>5. CASE i = 2
      BY <3>2, <3>3, <3>5 DEF SlotHolds, RegionAt, RegionLen, Apart
    <3>6. CASE i # 1 /\ i # 2
      <4> DEFINE x == i - 2
      <4>1. x \in 1 .. Count(n) /\ x # y
        BY <1>1, <3>6 DEF y
      <4>2. RegionAt(h, i) = h.slot[x].offset /\ RegionLen(h, i) = SlotLen(h.slot[x])
        BY <3>6 DEF RegionAt, RegionLen
      <4> HIDE DEF x
      <4> QED BY <1>1, <3>1, <3>2, <4>1, <4>2 DEF Holds, SlotsApart
    <3> QED BY <3>4, <3>5, <3>6
  <2>3. j = 2 => i = 1
    BY <1>1
  <2> QED BY <2>1, <2>2, <2>3
<1> QED BY <1>2, <1>3, ApartDisjoint

LEMMA RunningSum ==
    ASSUME NEW h \in Layout, NEW r, r = Regions(h)
    PROVE  \E g : g = [i \in 0 .. Len(r) |-> IF i = 0 THEN 0 ELSE g[i - 1] + Cardinality(r[i])]
<1> DEFINE c == Len(h.slot) + 2
           f == [i \in 1 .. c |-> RegionLen(h, i)]
<1>1. Len(h.slot) \in Nat
  BY LenProperties DEF Layout
<1>2. c \in Nat
  BY <1>1
<1>3. \A i \in 1 .. c : RegionAt(h, i) \in Int /\ RegionLen(h, i) \in Nat
  BY RegionTyped
<1>4. Len(r) = c /\ \A i \in 1 .. c : Cardinality(r[i]) = RegionLen(h, i)
  BY <1>3, RegionsAre, RegionSize
<1>5. f \in [1 .. c -> Int]
  BY <1>3
<1>6. PICK g : SumOf(g, f, c)
  <2> HIDE DEF c, f
  <2> QED BY <1>2, <1>5, SumExists
<1> HIDE DEF c
<1>7. \A i \in 1 .. c : g[i] = g[i - 1] + Cardinality(r[i])
  BY <1>4, <1>6 DEF SumOf
<1>8. g = [i \in 0 .. c |-> IF i = 0 THEN 0 ELSE g[i - 1] + Cardinality(r[i])]
  BY <1>2, <1>6, <1>7 DEF SumOf
<1> QED BY <1>4, <1>8

(* The running sum of the regions' sizes is spaceUsed.                     *)
LEMMA RegionsUse ==
    ASSUME NEW n \in Page, PageOK(n), NEW h, Holds(h, n),
           NEW r, r = Regions(h),
           NEW used, used = [i \in 0 .. Len(r) |-> IF i = 0 THEN 0 ELSE used[i - 1] + Cardinality(r[i])]
    PROVE  h.spaceUsed = used[Len(r)]
<1> DEFINE c == Count(n)
           a == Len(n.lower)
           b == Len(n.upper)
           sum == SlotBytes(n)
           T == {i \in 0 .. c : used[i + 2] = a + b + sum[i]}
<1>1. h \in Layout /\ Len(h.slot) = c /\ c \in Nat /\ FencesHold(h, n)
  BY PageFacts DEF Holds, FencesHold
<1>2. /\ Len(r) = c + 2 /\ \A i \in 1 .. (c + 2) : Cardinality(r[i]) = RegionLen(h, i)
  <2>1. /\ Len(r) = c + 2
        /\ \A i \in 1 .. (c + 2) : r[i] = Region(RegionAt(h, i), RegionLen(h, i))
    BY <1>1, RegionsAre
  <2>2. \A i \in 1 .. (c + 2) : RegionAt(h, i) \in Int /\ RegionLen(h, i) \in Nat
    BY <1>1, RegionTyped
  <2> QED BY <2>1, <2>2, RegionSize
<1>3. /\ used[0] = 0 /\ \A i \in 1 .. (c + 2) : used[i] = used[i - 1] + RegionLen(h, i)
  <2>1. 0 \in 0 .. Len(r) /\ \A i \in 1 .. (c + 2) : i \in 0 .. Len(r) /\ i # 0
    BY <1>1, <1>2
  <2> HIDE DEF c
  <2> QED BY <1>2, <2>1, Zenon
<1>4. a \in Nat /\ b \in Nat
  BY SpaceNumbers
<1>5. used[2] = a + b
  <2>1. RegionLen(h, 1) = a /\ RegionLen(h, 2) = b
    BY <1>1 DEF RegionLen, FencesHold
  <2>2. used[1] = used[0] + RegionLen(h, 1) /\ used[2] = used[1] + RegionLen(h, 2)
    <3>1. 1 \in 1 .. (c + 2) /\ 2 \in 1 .. (c + 2) /\ 1 - 1 = 0 /\ 2 - 1 = 1
      BY <1>1
    <3> QED BY <1>3, <3>1
  <2> HIDE DEF a, b
  <2> QED BY <1>3, <1>4, <2>1, <2>2
<1>6. \A i \in 1 .. c : RegionLen(h, i + 2) = EntryLen(n, n.slot[i])
  <2> TAKE i \in 1 .. c
  <2>1. i + 2 # 1 /\ i + 2 # 2 /\ i + 2 - 2 = i
    OBVIOUS
  <2>2. SlotHolds(h, n, h.slot[i], n.slot[i])
    BY DEF Holds
  <2>3. EntryLen(n, n.slot[i]) = Len(SuffixOf(n, n.slot[i])) + Len(PayloadOf(n, n.slot[i]))
    BY SlotInPage, RecordBytes
  <2>4. /\ h.slot[i].keyLen = Len(SuffixOf(n, n.slot[i]))
        /\ h.slot[i].payloadLen = Len(PayloadOf(n, n.slot[i]))
    BY <2>2 DEF SlotHolds
  <2>5. RegionLen(h, i + 2) = SlotLen(h.slot[i])
    <3> DEFINE k == i + 2
    <3>1. k # 1 /\ k # 2 /\ k - 2 = i
      BY <2>1
    <3> HIDE DEF k
    <3>2. RegionLen(h, k) = SlotLen(h.slot[i])
      BY <3>1 DEF RegionLen
    <3> QED BY <3>2 DEF k
  <2> QED BY <2>3, <2>4, <2>5 DEF SlotLen
<1>7. /\ sum[0] = 0 /\ \A i \in 0 .. c : sum[i] \in Int
      /\ \A i \in 1 .. c : sum[i] = sum[i - 1] + EntryLen(n, n.slot[i]) /\ EntryLen(n, n.slot[i]) \in Int
  BY SlotBytesSum, EntryLenInt
<1> HIDE DEF sum
<1>8. 0 .. c \subseteq T
  <2>1. 0 \in T
    <3>1. 0 + 2 = 2 /\ 0 \in 0 .. c
      BY <1>1
    <3> HIDE DEF a, b, c
    <3> QED BY <1>4, <1>5, <1>7, <3>1
  <2>2. ASSUME NEW i \in 1 .. c, i - 1 \in T
        PROVE  i \in T
    <3>1. used[(i - 1) + 2] = a + b + sum[i - 1]
      BY <2>2
    <3>2. i + 2 \in 1 .. (c + 2) /\ (i + 2) - 1 = (i - 1) + 2 /\ i - 1 \in 0 .. c /\ i \in 0 .. c
      BY <1>1
    <3>3. used[i + 2] = used[(i - 1) + 2] + RegionLen(h, i + 2)
      BY <1>3, <3>2
    <3> DEFINE e == EntryLen(n, n.slot[i])
    <3>4. RegionLen(h, i + 2) = e /\ sum[i] = sum[i - 1] + e /\ e \in Int /\ sum[i - 1] \in Int
      BY <1>6, <1>7, <3>2
    <3> HIDE DEF a, b, e
    <3>5. used[i + 2] = a + b + sum[i]
      BY <1>4, <3>1, <3>3, <3>4
    <3> QED BY <3>2, <3>5
  <2> HIDE DEF T
  <2> QED BY <1>1, <2>1, <2>2, UpTo
<1>9. used[c + 2] = a + b + sum[c]
  <2>1. c \in 0 .. c
    BY <1>1
  <2> QED BY <1>8, <2>1
<1> QED BY <1>2, <1>9 DEF Holds, SpaceUsed, sum

LEMMA PageHeapSound ==
    ASSUME NEW n \in Page, PageOK(n), Fits(n), NEW h, Holds(h, n), NEW r, r = Regions(h)
    PROVE  LET used[i \in 0 .. Len(r)] == IF i = 0 THEN 0 ELSE used[i - 1] + Cardinality(r[i])
           IN  /\ SlotsEnd(h) <= h.dataOffset
               /\ \A i \in DOMAIN r : r[i] \subseteq h.dataOffset .. (h.size - 1)
               /\ \A i, j \in DOMAIN r : i # j => r[i] \cap r[j] = {}
               /\ h.spaceUsed = used[Len(r)]
               /\ FreeSpace(Compactify(h)) = FreeAfterCompaction(h)
<1> DEFINE used[i \in 0 .. Len(r)] == IF i = 0 THEN 0 ELSE used[i - 1] + Cardinality(r[i])
           c == Count(n)
<1>1. h \in Layout /\ Len(h.slot) = c /\ c \in Nat
  BY PageFacts DEF Holds, FencesHold
<1>2. /\ Len(r) = c + 2 /\ DOMAIN r = 1 .. (c + 2)
      /\ \A i \in 1 .. (c + 2) : r[i] = Region(RegionAt(h, i), RegionLen(h, i))
  BY <1>1, RegionsAre
<1>3. \A i \in DOMAIN r : r[i] \subseteq h.dataOffset .. (h.size - 1)
  BY <1>2, RegionsInHeap
<1>4. ASSUME NEW i \in DOMAIN r, NEW j \in DOMAIN r, i # j
      PROVE  r[i] \cap r[j] = {}
  <2>1. i \in 1 .. (c + 2) /\ j \in 1 .. (c + 2)
    BY <1>2
  <2>2. CASE i < j
    BY <1>2, <2>1, <2>2, RegionsDisjoint
  <2>3. CASE j < i
    BY <1>2, <2>1, <2>3, RegionsDisjoint
  <2>4. i < j \/ j < i
    BY <1>1, <1>4, <2>1
  <2> QED BY <2>2, <2>3, <2>4
<1>5. h.spaceUsed = used[Len(r)]
  <2>1. \E g : g = [i \in 0 .. Len(r) |-> IF i = 0 THEN 0 ELSE g[i - 1] + Cardinality(r[i])]
    BY <1>1, <1>2, RunningSum
  <2>2. used = [i \in 0 .. Len(r) |-> IF i = 0 THEN 0 ELSE used[i - 1] + Cardinality(r[i])]
    BY <2>1
  <2> HIDE DEF used
  <2> QED BY <2>2, RegionsUse
<1>6. FreeSpace(Compactify(h)) = FreeAfterCompaction(h)
  <2>1. Holds(Compactify(h), n) /\ Compactify(h).dataOffset + Compactify(h).spaceUsed = Compactify(h).size
    BY CompactifyOK
  <2>2. FreeSpace(Compactify(h)) = FreeSpaceAfterCompaction(n)
    BY <2>1, FreeSpaces
  <2> QED BY <2>2, FreeSpaces
<1>7. SlotsEnd(h) <= h.dataOffset
  BY DEF Holds
<1> QED BY <1>3, <1>4, <1>5, <1>6, <1>7

LEMMA PageShown ==
    ASSUME NEW n \in Page, PageOK(n), NEW h, Holds(h, n)
    PROVE  /\ LowerBytes(h) = n.lower /\ UpperBytes(h) = n.upper
           /\ h.prefixLength = PrefixLen(n)
           /\ Len(h.slot) = Count(n)
           /\ \A i \in DOMAIN h.slot :
                 /\ Take(n.lower, h.prefixLength) \o KeyBytes(h, i) = n.slot[i].key
                 /\ PayloadCells(h, i) =
                       Cells(n.slot[i].val, IF IsLeaf(n) THEN PayloadLen[n.slot[i].val] ELSE PtrSize)
<1>1. /\ FencesHold(h, n) /\ Len(h.slot) = Count(n) /\ h \in Layout /\ h.prefixLength = PrefixLen(n)
  BY DEF Holds, FencesHold
<1>2. DOMAIN h.slot = 1 .. Count(n)
  BY <1>1, LenProperties DEF Layout
<1>3. ASSUME NEW i \in 1 .. Count(n)
      PROVE  /\ Take(n.lower, h.prefixLength) \o KeyBytes(h, i) = n.slot[i].key
             /\ PayloadCells(h, i) =
                   Cells(n.slot[i].val, IF IsLeaf(n) THEN PayloadLen[n.slot[i].val] ELSE PtrSize)
  <2> DEFINE k == n.slot[i].key
             c == PrefixLen(n)
  <2>1. k \in Bytes /\ InFences(k, n.lower, n.upper)
    BY SlotInPage
  <2>2. n.lower \in Bytes /\ c \in Nat
    BY PageFacts, PrefixLenNat
  <2>3. SharePrefix(k, n.lower, c)
    <3> HIDE DEF k
    <3> QED BY <2>1, KeyHasPrefix
  <2>4. Take(n.lower, c) \o Suffix(k, c) = k
    <3> HIDE DEF k, c
    <3> QED BY <2>1, <2>2, <2>3, PrefixPutBack
  <2>5. KeyBytes(h, i) = SuffixOf(n, n.slot[i]) /\ PayloadCells(h, i) = PayloadOf(n, n.slot[i])
    BY SlotRead
  <2> QED BY <1>1, <2>4, <2>5 DEF SuffixOf, PayloadOf
<1> QED BY <1>1, <1>2, <1>3, FencesRead

(***************************************************************************)
(* The theorems.                                                           *)
(***************************************************************************)
(* The operations on bytes are operations of the tree: what the steps do   *)
(* to hints, heads and heap never takes them where BTree would not go, so  *)
(* the theorems about BTree hold with the bytes as well.                   *)
THEOREM BytesFollowTree == SlottedSpec => Spec
<1>1. SlottedInit => Init
  BY DEF SlottedInit
<1>2. [SlottedNext]_slottedVars => [Next]_vars
  BY StepsOfPages
<1> QED BY <1>1, <1>2, PTL DEF SlottedSpec, Spec

(* However often a page is cut, merged and compacted, its slots and its    *)
(* heap never meet, no record lies over another or over a fence, spaceUsed *)
(* is what the records and fences take, and compactify leaves the room     *)
(* that requestSpaceFor has promised.                                      *)
THEOREM HeapIsSound == SlottedSpec => []HeapSound
<1>1. ASSUME IInv, PagesFit, HeapOK PROVE HeapSound
  <2>1. ASSUME NEW p \in Pages
        PROVE  page[p] \in Page /\ PageOK(page[p]) /\ Fits(page[p]) /\ Holds(heap[p], page[p])
    BY <1>1, PageInUse DEF HeapOK, Shows
  <2> QED BY <2>1, PageHeapSound DEF HeapSound
<1> QED BY <1>1, HeapInvariant, PTL

(* The bytes of every page are the page that the tree's theorems speak of: *)
(* its fences, its prefix, and each record, although the key bytes that    *)
(* splitNode and mergeNodes copy are cut, or completed from a fence, to    *)
(* the prefix of the page they go to.                                      *)
THEOREM HeapShowsTree == SlottedSpec => []HeapShowsPages
<1>1. ASSUME IInv, PagesFit, HeapOK PROVE HeapShowsPages
  <2>1. ASSUME NEW p \in Pages
        PROVE  page[p] \in Page /\ PageOK(page[p]) /\ Holds(heap[p], page[p])
    BY <1>1, PageInUse DEF HeapOK, Shows
  <2> QED BY <2>1, PageShown DEF HeapShowsPages
<1> QED BY <1>1, HeapInvariant, PTL

(* lowerBound through hints, heads and bytes ends at the slot where a      *)
(* search through all keys of the page would end, for every key that a     *)
(* descent can bring to the page, whatever the heads' and hints' numbers   *)
(* are: the hints that updateHint keeps are never stale.                   *)
THEOREM SearchIsRight == SlottedSpec => []SearchAgrees
<1>1. ASSUME IInv, PagesFit, HeapOK PROVE SearchAgrees
  <2>1. ASSUME NEW p \in Pages
        PROVE  /\ page[p] \in Page /\ PageOK(page[p])
               /\ Holds(heap[p], page[p]) /\ HintsHold(heap[p])
    BY <1>1, PageInUse DEF HeapOK, Shows
  <2>2. Key \subseteq Bytes
    BY BTreeAssumption
  <2> QED BY <2>1, <2>2, SearchFinds DEF SearchAgrees
<1> QED BY <1>1, HeapInvariant, PTL

=============================================================================
