---------------------------- MODULE SlottedPages ----------------------------
(***************************************************************************)
(* The bytes of the basic pages.  BTree keeps a page as a record with its  *)
(* fences and slots; here every page has besides the memory layout of      *)
(* BTreeNode: slots that grow from the front, a heap that grows from the   *)
(* back and holds fences, keys without the common prefix and payloads,     *)
(* spaceUsed and dataOffset, the heads of the keys, and the hints that     *)
(* narrow a search.  The steps that change a page change its layout as the *)
(* code does; heap[p] must then show page[p], and a search through hints,  *)
(* heads and bytes must find what BTree's LowerBound defines.              *)
(*                                                                         *)
(* Cells of the memory hold bytes of keys or tokens <<x, j>> for byte j of *)
(* payload or pointer x.  Slots are counted from 1, code indices from 0.   *)
(***************************************************************************)
EXTENDS BTree

CONSTANTS HeadBytes,    \* bytes of a key in its slot: 4
          HintCount     \* BTreeNodeHeader::hintCount: 16

ASSUME SlottedAssumption == HeadBytes \in Nat \ {0} /\ HintCount \in Nat

VARIABLE heap           \* the layout of each page

slottedVars == <<vars, heap>>

Unset == -1             \* memory nobody has written

(* BTreeNode::init: no fences, an empty heap.                              *)
InitPage(size) ==
    [size |-> size, slot |-> << >>, spaceUsed |-> 0, dataOffset |-> size,
     lower |-> [offset |-> 0, length |-> 0], upper |-> [offset |-> 0, length |-> 0],
     prefixLength |-> 0, hint |-> [i \in 0 .. (HintCount - 1) |-> Unset],
     mem |-> [a \in 0 .. (size - 1) |-> Unset]]

Cells(x, len) == [j \in 1 .. len |-> <<x, j>>]

Read(h, at, len) ==
    [j \in 1 .. len |-> IF at + j - 1 \in DOMAIN h.mem THEN h.mem[at + j - 1] ELSE Unset]

SlotsEnd(h) == HeaderSize + SlotSize * Len(h.slot)

FreeSpace(h) == h.dataOffset - SlotsEnd(h)

FreeAfterCompaction(h) == h.size - SlotsEnd(h) - h.spaceUsed

(* Takes Len(cells) bytes from the heap and fills them.                    *)
Push(h, cells) ==
    LET at == h.dataOffset - Len(cells)
    IN  [h EXCEPT !.dataOffset = at,
                  !.spaceUsed = @ + Len(cells),
                  !.mem = [a \in DOMAIN @ |-> IF a - at \in 0 .. (Len(cells) - 1)
                                              THEN cells[a - at + 1] ELSE @[a]]]

LowerBytes(h) == Read(h, h.lower.offset, h.lower.length)
UpperBytes(h) == Read(h, h.upper.offset, h.upper.length)
KeyBytes(h, i) == Read(h, h.slot[i].offset, h.slot[i].keyLen)
PayloadCells(h, i) == Read(h, h.slot[i].offset + h.slot[i].keyLen, h.slot[i].payloadLen)

(* insertFence, twice, and the common prefix of the fences.                *)
SetFences(h, lower, upper) ==
    LET l == Push(h, lower)
        u == Push(l, upper)
    IN  [u EXCEPT !.lower = [offset |-> l.dataOffset, length |-> Len(lower)],
                  !.upper = [offset |-> u.dataOffset, length |-> Len(upper)],
                  !.prefixLength = CommonPrefixLen(lower, upper)]

(* head: the first bytes as a number; a shorter key is padded with zeros.  *)
HeadOf(key) == NumberOf(key, 0, HeadBytes)

(* A new slot i for a key that has lost the page's prefix.                 *)
StoreSuffix(h, i, suffix, cells) ==
    LET d == Push(h, suffix \o cells)
    IN  [d EXCEPT !.slot = InsertAt(@, i, [offset |-> d.dataOffset, keyLen |-> Len(suffix),
                                           payloadLen |-> Len(cells), head |-> HeadOf(suffix)])]

Suffix(key, n) == SubSeq(key, n + 1, Len(key))

(* The memmove of the slots behind i, and storeKeyValue.                   *)
StoreKeyValue(h, i, key, cells) == StoreSuffix(h, i, Suffix(key, h.prefixLength), cells)

(* mutant: the bytes that the prefix has gained are not skipped.           *)
CopyKeyValueMut(src, dst, i) ==
    IF src.prefixLength <= dst.prefixLength
    THEN StoreSuffix(dst, Len(dst.slot) + 1,
                     SubSeq(KeyBytes(src, i), 1,
                            src.slot[i].keyLen - (dst.prefixLength - src.prefixLength)),
                     PayloadCells(src, i))
    ELSE StoreKeyValue(dst, Len(dst.slot) + 1,
                       Take(LowerBytes(src), src.prefixLength) \o KeyBytes(src, i), PayloadCells(src, i))

(* Copying a record to a page with a longer prefix drops bytes in place;   *)
(* with a shorter one the key is put together from the lower fence.        *)
CopyKeyValue(src, dst, i) ==
    IF src.prefixLength <= dst.prefixLength
    THEN StoreSuffix(dst, Len(dst.slot) + 1,
                     Suffix(KeyBytes(src, i), dst.prefixLength - src.prefixLength), PayloadCells(src, i))
    ELSE StoreKeyValue(dst, Len(dst.slot) + 1,
                       Take(LowerBytes(src), src.prefixLength) \o KeyBytes(src, i), PayloadCells(src, i))

(* The target after each of n records.                                     *)
CopyEach(src, dst, from, n) ==
    LET copied[i \in 0 .. n] ==
            IF i = 0 THEN dst ELSE CopyKeyValue(src, copied[i - 1], from + i - 1)
    IN  copied

CopyKeyValueRange(src, dst, from, to) ==
    CopyEach(src, dst, from, to - from + 1)[to - from + 1]

(***************************************************************************)
(* Hints: the heads of HintCount slots at equal distances.                 *)
(***************************************************************************)
Dist(n) == n \div (HintCount + 1)

HintFor(h, i) ==
    LET s == Dist(Len(h.slot)) * (i + 1)
    IN  IF s < Len(h.slot) THEN h.slot[s + 1].head ELSE Unset

MakeHint(h) == [h EXCEPT !.hint = [i \in DOMAIN @ |-> HintFor(h, i)]]

(* mutant: the hint in front of the new slot's is the first that is kept.  *)
FirstStaleHintMut(n, slotId) ==
    IF n > 2 * HintCount + 1 /\ Dist(n - 1) = Dist(n) /\ slotId \div Dist(n) > 1
    THEN slotId \div Dist(n)
    ELSE 0

(* After an insertion of slot slotId the hints before it stay.             *)
FirstStaleHint(n, slotId) ==
    IF n > 2 * HintCount + 1 /\ Dist(n - 1) = Dist(n) /\ slotId \div Dist(n) > 1
    THEN (slotId \div Dist(n)) - 1
    ELSE 0

UpdateHint(h, slotId) ==
    [h EXCEPT !.hint = [i \in DOMAIN @ |->
        IF i >= FirstStaleHint(Len(h.slot), slotId) THEN HintFor(h, i) ELSE @[i]]]

(* searchHint: the first hint not below the head, the first behind it that *)
(* is different, and the range of slots between them.                      *)
FirstHint(hits) == Min(hits \cup {HintCount})

SearchHint(h, keyHead) ==
    LET n    == Len(h.slot)
        lo   == FirstHint({i \in DOMAIN h.hint : h.hint[i] >= keyHead})
        hi   == FirstHint({i \in DOMAIN h.hint : i >= lo /\ h.hint[i] # keyHead})
    IN  IF HintCount = 0 \/ n <= 2 * HintCount
        THEN <<0, n>>
        ELSE <<lo * Dist(n), IF hi < HintCount THEN (hi + 1) * Dist(n) ELSE n>>

(* The bytes that the slot's head cannot tell apart are compared.          *)
Compare(h, mid, key, keyHead) ==
    IF keyHead # h.slot[mid + 1].head
    THEN IF keyHead < h.slot[mid + 1].head THEN "below" ELSE "above"
    ELSE IF key = KeyBytes(h, mid + 1) THEN "found"
    ELSE IF Less(key, KeyBytes(h, mid + 1)) THEN "below" ELSE "above"

(* Where the search ends, counted from 1, for every range of slots.        *)
BinarySearch(h, key, keyHead) ==
    LET bin[r \in (0 .. Len(h.slot)) \X (0 .. Len(h.slot))] ==
            LET mid == ((r[2] - r[1]) \div 2) + r[1]
                cmp == Compare(h, mid, key, keyHead)
            IN  IF r[1] >= r[2] THEN [at |-> r[1] + 1, found |-> FALSE]
                ELSE IF cmp = "found" THEN [at |-> mid + 1, found |-> TRUE]
                ELSE IF cmp = "below" THEN bin[<<r[1], mid>>]
                ELSE bin[<<mid + 1, r[2]>>]
    IN  bin

(* lowerBound on the bytes.                                                *)
Search(h, fullKey) ==
    LET key == Suffix(fullKey, h.prefixLength)
    IN  BinarySearch(h, key, HeadOf(key))[SearchHint(h, HeadOf(key))]

(***************************************************************************)
(* The operations on a page.                                               *)
(***************************************************************************)
Compactify(h) ==
    MakeHint(CopyKeyValueRange(h, SetFences(InitPage(h.size), LowerBytes(h), UpperBytes(h)),
                               1, Len(h.slot)))

(* requestSpaceFor, where BTree has found that there is room.              *)
WithSpaceFor(h, key, cells) ==
    IF SlotSize + Len(key) - h.prefixLength + Len(cells) <= FreeSpace(h) THEN h ELSE Compactify(h)

HeapInsert(h, key, cells) ==
    LET r == WithSpaceFor(h, key, cells)
        i == Search(r, key).at
    IN  UpdateHint(StoreKeyValue(r, i, key, cells), i - 1)

(* mutant: the payload is not given back.                                  *)
HeapRemoveMut(h, i) ==
    MakeHint([h EXCEPT !.spaceUsed = @ - h.slot[i].keyLen, !.slot = RemoveAt(@, i)])

HeapRemove(h, i) ==
    MakeHint([h EXCEPT !.spaceUsed = @ - h.slot[i].keyLen - h.slot[i].payloadLen,
                       !.slot = RemoveAt(@, i)])

(* splitNode: both halves are filled from the page as it was.              *)
HalfOf(h, lower, upper, from, to) ==
    MakeHint(CopyKeyValueRange(h, SetFences(InitPage(h.size), lower, upper), from, to))

HeapMerge(l, r) ==
    LET fenced == SetFences(InitPage(l.size), LowerBytes(l), UpperBytes(r))
    IN  MakeHint(CopyKeyValueRange(r, CopyKeyValueRange(l, fenced, 1, Len(l.slot)), 1, Len(r.slot)))

-----------------------------------------------------------------------------
SlottedInit == Init /\ heap = [p \in {root} |-> InitPage(PageSizeLeaf)]

InsertBytes ==
    /\ LeafInsert
    /\ heap' = [heap EXCEPT ![node] = HeapInsert(@, op.key, Cells(op.val, PayloadLen[op.val]))]

MakeRootBytes ==
    /\ MakeRoot
    /\ heap' = [q \in DOMAIN page' |-> IF q = root' THEN InitPage(PageSizeInner) ELSE heap[q]]

SplitBytes ==
    LET h    == heap[node]
        n    == page[node]
        s    == FindSeparator(n)
        left == NewPage
        last == IF IsLeaf(n) THEN s.at ELSE s.at - 1
    IN  /\ SplitNode
        /\ heap' = [q \in DOMAIN page' |->
               CASE q = left   -> HalfOf(h, LowerBytes(h), s.sep, 1, last)
                 [] q = node   -> HalfOf(h, s.sep, UpperBytes(h), s.at + 1, Len(h.slot))
                 [] q = parent -> HeapInsert(heap[q], s.sep, Cells(left, PtrSize))
                 [] OTHER      -> heap[q]]

RemoveBytes ==
    /\ RemoveOnly
    /\ heap' = [heap EXCEPT ![node] = HeapRemove(@, Search(@, skey).at)]

MergeBytes ==
    /\ RemoveAndMerge
    /\ heap' = [q \in DOMAIN page' |->
           CASE q = parent         -> HeapRemove(heap[q], pos)
             [] q = RightNeighbour -> HeapMerge(HeapRemove(heap[node], Search(heap[node], skey).at), heap[q])
             [] OTHER              -> heap[q]]

(* The steps that only look, and those that end the process.               *)
Looking == Step /\ UNCHANGED <<page, heap>>

ClearBytes ==
    /\ Clear
    /\ heap' = [p \in {root'} |-> InitPage(PageSizeLeaf)]

SlottedStep == InsertBytes \/ MakeRootBytes \/ SplitBytes \/ RemoveBytes \/ MergeBytes \/ Looking

SlottedNext ==
    \/ (\E o \in Ops : Call(o)) /\ UNCHANGED heap
    \/ ClearBytes
    \/ SlottedStep

SlottedSpec == SlottedInit /\ [][SlottedNext]_slottedVars

-----------------------------------------------------------------------------
(***************************************************************************)
(* Properties.                                                             *)
(***************************************************************************)
(* The regions of a page's heap, as sets of addresses.                     *)
Region(at, len) == at .. (at + len - 1)
Regions(h) ==
    <<Region(h.lower.offset, h.lower.length), Region(h.upper.offset, h.upper.length)>>
      \o [i \in DOMAIN h.slot |-> Region(h.slot[i].offset, h.slot[i].keyLen + h.slot[i].payloadLen)]

(* Slots and heap never meet and no two regions of the heap overlap        *)
(* (storeKeyValue and copyKeyValueRange assert the first); spaceUsed is    *)
(* what the regions take, however often the page has been cut, merged and  *)
(* compacted, so that compactify leaves the room that was promised         *)
(* ("assert(freeSpace() == should)").                                      *)
HeapSound ==
    \A p \in Pages :
        LET h == heap[p]
            r == Regions(h)
            used[i \in 0 .. Len(r)] == IF i = 0 THEN 0 ELSE used[i - 1] + Cardinality(r[i])
        IN  /\ SlotsEnd(h) <= h.dataOffset
            /\ \A i \in DOMAIN r : r[i] \subseteq h.dataOffset .. (h.size - 1)
            /\ \A i, j \in DOMAIN r : i # j => r[i] \cap r[j] = {}
            /\ h.spaceUsed = used[Len(r)]
            /\ FreeSpace(Compactify(h)) = FreeAfterCompaction(h)

(* The bytes of a page are the page: its fences, the prefix, and every     *)
(* record, behind keys that were cut and put together again on the way     *)
(* through splits and merges.  The tree that BTree's properties are about  *)
(* is the one in memory.                                                   *)
HeapShowsPages ==
    \A p \in Pages :
        LET h == heap[p]
            n == page[p]
            x(i) == n.slot[i].val
        IN  /\ LowerBytes(h) = n.lower /\ UpperBytes(h) = n.upper
            /\ h.prefixLength = PrefixLen(n)
            /\ Len(h.slot) = Count(n)
            /\ \A i \in DOMAIN h.slot :
                  /\ Take(n.lower, h.prefixLength) \o KeyBytes(h, i) = n.slot[i].key
                  /\ PayloadCells(h, i) = Cells(x(i), IF IsLeaf(n) THEN PayloadLen[x(i)] ELSE PtrSize)

(* A search that believes the hints and the heads ends where a search      *)
(* through all keys would, on every page and for every key that a descent  *)
(* can bring there.                                                        *)
SearchAgrees ==
    \A p \in Pages : \A k \in Key :
        InFences(k, page[p].lower, page[p].upper) =>
            LET i == LowerBound(page[p], k)
            IN  Search(heap[p], k) = [at |-> i, found |-> FoundAt(page[p], k, i)]

=============================================================================
