----------------------------- MODULE DenseTree ------------------------------
(***************************************************************************)
(* The B-tree as it is built by default (enableDense): a leaf that has no  *)
(* room for another record, and whose keys and payloads all have the same  *)
(* length, may turn into a dense page (DenseNode, libbtree/src/dense.cpp). *)
(*                                                                         *)
(* A dense page stores no keys.  It is an array of payloads of one length  *)
(* with a bit mask of the ones that are present; the place of a record     *)
(* follows from the last bytes of its key, read as a number (the numeric   *)
(* part), counted from the smallest key above the lower fence (arrayStart).*)
(* The bytes before the numeric part are those of the lower fence.         *)
(*                                                                         *)
(* Everything that happens on basic pages is BTree's Step.  A step that    *)
(* changes the layout of the page in "node" leaves the operation where it  *)
(* is, so that it goes on with the new layout, as the code's calls do.     *)
(* pc = "fault" is an access outside the page or through a null pointer.   *)
(***************************************************************************)
EXTENDS BTree

CONSTANTS NumericLen,     \* sizeof(NumericPart): 4
          DenseHeader,    \* offsetof(DenseNode, mask)
          MaskBytes,      \* maskBytesPerWord
          MaskBits        \* maskBitsPerWord

ASSUME DenseAssumption ==
    /\ {NumericLen, MaskBytes, MaskBits} \subseteq Nat \ {0}
    /\ DenseHeader \in Nat
    /\ MaskBits % MaskBytes = 0
    /\ DenseHeader + MaskBytes <= HeaderSize + 2 * SlotSize

(***************************************************************************)
(* Numeric parts.                                                          *)
(***************************************************************************)
(* The powers of Base up to one more than the largest NumericPart.         *)
Powers ==
    LET power[i \in 0 .. NumericLen] == IF i = 0 THEN 1 ELSE power[i - 1] * Base
    IN  power

NumericLimit == Powers[NumericLen]

ComputeNumericPartLen(fullKeyLen)      == Min({NumericLen, fullKeyLen})
ComputeNumericPrefixLength(fullKeyLen) == fullKeyLen - ComputeNumericPartLen(fullKeyLen)

(* What is left of x without its last 0, 1, ..., len bytes.                *)
Shifted(x, len) ==
    LET rest[i \in 0 .. len] == IF i = 0 THEN x ELSE rest[i - 1] \div Base
    IN  rest

ToBytes(x, len) == [i \in 1 .. len |-> Shifted(x, len)[len - i] % Base]

(* The numeric part that k has as a key of targetLength bytes: a shorter   *)
(* key is filled up with zeros, a longer one is cut off.                   *)
GetNumericPart(k, targetLength) ==
    LET len == ComputeNumericPartLen(targetLength)
    IN  NumberOf(k, targetLength - len, len)

(* mutant: a fence shorter than the keys is taken for a key.               *)
LeastGreaterKeyMut(k, targetLength) == GetNumericPart(k, targetLength) + 1

LeastGreaterKey(k, targetLength) ==
    GetNumericPart(k, targetLength) + (IF Len(k) >= targetLength THEN 1 ELSE 0)

(***************************************************************************)
(* Dense pages.                                                            *)
(***************************************************************************)
IsDense(n) == n.tag = "dense"

FencesOffset(lower, upper, fullKeyLen) ==
    PageSizeLeaf - Len(lower) - Max({Len(upper), fullKeyLen})

MaskWordCount(slotCount) == (slotCount + MaskBits - 1) \div MaskBits

ArrayEnd(slotCount, valLen) ==
    DenseHeader + MaskWordCount(slotCount) * MaskBytes + slotCount * valLen

(* mutant: the mask is not counted.                                        *)
ComputeSlotCountMut(valLen, fencesStart) ==
    LET bits  == MaskBits \div MaskBytes
        start == (fencesStart * bits) \div (valLen * bits + 1)
    IN  Max({c \in 0 .. start : DenseHeader + c * valLen <= fencesStart})

ComputeSlotCount(valLen, fencesStart) ==
    LET bits  == MaskBits \div MaskBytes
        start == (fencesStart * bits) \div (valLen * bits + 1)
    IN  Max({c \in 0 .. start : ArrayEnd(c, valLen) <= fencesStart})

(* A dense page without records; NoVal is a slot whose bit is not set.     *)
EmptyDense(lower, upper, fullKeyLen, valLen) ==
    LET slots == ComputeSlotCount(valLen, FencesOffset(lower, upper, fullKeyLen))
    IN  [tag |-> "dense", lower |-> lower, upper |-> upper,
         fullKeyLen |-> fullKeyLen, valLen |-> valLen,
         arrayStart |-> LeastGreaterKey(lower, fullKeyLen),
         slotCount |-> slots, occupiedCount |-> 0,
         arr |-> [i \in 0 .. (slots - 1) |-> NoVal]]

Indices(n)  == 0 .. (n.slotCount - 1)
Occupied(n) == {i \in Indices(n) : n.arr[i] # NoVal}

(* The numeric part wraps around at NumericLimit and keeps only the bytes  *)
(* the key has.                                                            *)
RestoreKey(n, i) ==
    Take(n.lower, ComputeNumericPrefixLength(n.fullKeyLen))
      \o ToBytes((n.arrayStart + i) % NumericLimit, ComputeNumericPartLen(n.fullKeyLen))

(* The records of a dense page in the order of the array: the loop over    *)
(* its first 0, 1, ..., slotCount slots.                                   *)
CopyRecords(n) ==
    LET copied[i \in 0 .. n.slotCount] ==
            IF i = 0 THEN << >>
            ELSE IF n.arr[i - 1] = NoVal THEN copied[i - 1]
            ELSE Append(copied[i - 1], [key |-> RestoreKey(n, i - 1), val |-> n.arr[i - 1]])
    IN  copied

Records(n) == CopyRecords(n)[n.slotCount]

WrongLen         == -1
NotNumericRange  == -2
SlightlyTooLarge == -3
FarTooLarge      == -4

(* Bytes of k that a page does not find in its prefix nor in its array.    *)
SharesNumericPrefix(n, k) ==
    \A i \in (PrefixLen(n) + 1) .. ComputeNumericPrefixLength(n.fullKeyLen) : k[i] = n.lower[i]

KeyToIndex(n, k) ==
    LET index == (GetNumericPart(k, n.fullKeyLen) - n.arrayStart) % NumericLimit
    IN  IF Len(k) # n.fullKeyLen THEN WrongLen
        ELSE IF ~SharesNumericPrefix(n, k) THEN NotNumericRange
        ELSE IF index < n.slotCount THEN index
        ELSE IF index < n.slotCount + n.slotCount \div 2 THEN SlightlyTooLarge
        ELSE FarTooLarge

HasKey(n, k) == KeyToIndex(n, k) >= 0 /\ n.arr[KeyToIndex(n, k)] # NoVal

SetSlot(n, i, v) ==
    [n EXCEPT !.arr[i] = v, !.occupiedCount = IF n.arr[i] = NoVal THEN @ + 1 ELSE @]

UnsetSlot(n, i) == [n EXCEPT !.arr[i] = NoVal, !.occupiedCount = @ - 1]

(* assert(a < UINT32_MAX) of leastGreaterKey.                              *)
NumericPartAtMax(k, targetLength) == GetNumericPart(k, targetLength) = NumericLimit - 1

(* convertToBasic: the same fences and records as a basic leaf.            *)
ConvertToBasic(n) == Leaf(n.lower, n.upper, Records(n))

(* copyKeyValueRangeToBasic ends with an assertion that the slots and the  *)
(* records do not overlap.                                                 *)
ConvertFits(n) == Fits(ConvertToBasic(n))

DenseUnderfull(n) ==
    HeaderSize + (n.fullKeyLen - PrefixLen(n) + n.valLen + SlotSize) * n.occupiedCount
      + Len(n.lower) + Len(n.upper) < PageSizeLeaf - PageSizeLeaf \div 4

-----------------------------------------------------------------------------
(***************************************************************************)
(* From basic to dense (BTreeNode::insert without room, densify1).         *)
(***************************************************************************)
Full(n) == AtLeaf("insert") /\ ~HasRoom(n)

(* mutant: the new record's lengths are not compared.                      *)
SameLengthsMut(n) ==
    /\ Len(n.lower) + NumericLen >= Len(n.slot[1].key)
    /\ \A i \in 2 .. Count(n) :
          /\ Len(n.slot[i].key) = Len(n.slot[1].key)
          /\ PayloadLen[n.slot[i].val] = PayloadLen[n.slot[1].val]

(* All records and the new one have the lengths of the first, and the      *)
(* lower fence has the bytes that the array does not stand for.            *)
SameLengths(n) ==
    /\ Len(op.key) = Len(n.slot[1].key)
    /\ PayloadLen[op.val] = PayloadLen[n.slot[1].val]
    /\ Len(n.lower) + NumericLen >= Len(n.slot[1].key)
    /\ \A i \in 2 .. Count(n) :
          /\ Len(n.slot[i].key) = Len(n.slot[1].key)
          /\ PayloadLen[n.slot[i].val] = PayloadLen[n.slot[1].val]

DenseOf(n) == EmptyDense(n.lower, n.upper, Len(n.slot[1].key), PayloadLen[n.slot[1].val])

(* The last key has a place in the array, and then all of them do.         *)
LastKeyInArray(n) == KeyToIndex(DenseOf(n), n.slot[Count(n)].key) >= 0

DensifyAsserts(n) == Full(n) /\ SameLengths(n) /\ NumericPartAtMax(n.lower, Len(op.key))

CanDensify(n) == Full(n) /\ SameLengths(n) /\ LastKeyInArray(n)

Densified(n) ==
    LET d == DenseOf(n)
        slotOf(i) == {j \in 1 .. Count(n) : KeyToIndex(d, n.slot[j].key) = i}
    IN  [d EXCEPT !.occupiedCount = Count(n),
                  !.arr = [i \in Indices(d) |-> IF slotOf(i) = {} THEN NoVal
                                                ELSE n.slot[Max(slotOf(i))].val]]

Densify ==
    LET n == page[node]
    IN  /\ CanDensify(n)
        /\ ~DensifyAsserts(n)
        /\ page' = [page EXCEPT ![node] = Densified(n)]
        /\ UNCHANGED <<root, pc, op, cursor, toSplit, out, res>>

DensifyDies == DensifyAsserts(page[node]) /\ Die("assert")

(***************************************************************************)
(* Operations on a dense page.                                             *)
(***************************************************************************)
AtDense(kind) ==
    /\ pc = "descend"
    /\ op.kind = kind
    /\ IsDense(page[node])

DenseLookup ==
    LET n == page[node]
    IN  /\ AtDense("lookup")
        /\ Return(IF HasKey(n, skey) THEN Answer(TRUE, n.arr[KeyToIndex(n, skey)], << >>)
                  ELSE NoAnswer)
        /\ UNCHANGED tree

OwnLengths(n) == PayloadLen[op.val] = n.valLen /\ Len(op.key) = n.fullKeyLen

(* A record that is present is overwritten.                                *)
DenseInsert ==
    LET n == page[node]
        i == KeyToIndex(n, skey)
    IN  /\ AtDense("insert")
        /\ OwnLengths(n)
        /\ i >= 0
        /\ page' = [page EXCEPT ![node] = SetSlot(n, i, op.val)]
        /\ UNCHANGED root
        /\ Return(NoAnswer)

(* mutant: the slots are not counted.                                      *)
EstimateFitsMut(n) ==
    n.occupiedCount * (n.fullKeyLen - PrefixLen(n) + PayloadLen[op.val])
      + Len(n.lower) + Len(n.upper) + HeaderSize <= PageSizeLeaf

(* Whether a dense page becomes a basic one for a record of other lengths  *)
(* is decided by the space its records would take if they had the length   *)
(* of the new payload.                                                     *)
EstimateFits(n) ==
    n.occupiedCount * (n.fullKeyLen - PrefixLen(n) + PayloadLen[op.val] + SlotSize)
      + Len(n.lower) + Len(n.upper) + HeaderSize <= PageSizeLeaf

Converting ==
    /\ AtDense("insert")
    /\ ~OwnLengths(page[node])
    /\ EstimateFits(page[node])

DenseConvert ==
    LET n == page[node]
    IN  /\ Converting
        /\ ConvertFits(n)
        /\ page' = [page EXCEPT ![node] = ConvertToBasic(n)]
        /\ UNCHANGED <<root, pc, op, cursor, toSplit, out, res>>

DenseConvertDies == Converting /\ ~ConvertFits(page[node]) /\ Die("assert")

DenseInsertFails ==
    LET n == page[node]
    IN  /\ AtDense("insert")
        /\ IF OwnLengths(n) THEN KeyToIndex(n, skey) < 0 ELSE ~EstimateFits(n)
        /\ pc' = "split"
        /\ UNCHANGED <<root, page, op, cursor, toSplit, out, res>>

(***************************************************************************)
(* splitNode1.  The page is cut behind its array: the left page keeps the  *)
(* array, the right one is an empty page, dense if the key is only         *)
(* slightly too large.  When the split was called for because of the       *)
(* payload's length, split_to_self is not initialised.                     *)
(***************************************************************************)
(* mutant: one slot too early.                                             *)
BoundaryMut(n) == RestoreKey(n, n.slotCount - 2)

Boundary(n) == RestoreKey(n, n.slotCount - 1)

SplitToSelf(n) ==
    IF KeyToIndex(n, skey) >= 0 THEN BOOLEAN ELSE {KeyToIndex(n, skey) = SlightlyTooLarge}

(* mutant: the left page keeps the upper fence.                            *)
DenseLeftMut(n) == n

DenseLeft(n) == [n EXCEPT !.upper = Boundary(n)]

(* mutant: the new page's lower fence is the first key behind the array.   *)
DenseRightMut(n, dense) ==
    IF dense THEN EmptyDense(RestoreKey(n, n.slotCount), n.upper, n.fullKeyLen, n.valLen)
    ELSE Leaf(RestoreKey(n, n.slotCount), n.upper, << >>)

DenseRight(n, dense) ==
    IF dense THEN EmptyDense(Boundary(n), n.upper, n.fullKeyLen, n.valLen)
    ELSE Leaf(Boundary(n), n.upper, << >>)

SplittingDense ==
    /\ pc = "split"
    /\ parent # NoPage
    /\ IsDense(page[node])

DenseSplitChecks(dense) ==
    LET n == page[node]
        p == page[parent]
    IN  IF ~RequestSpaceFor(p, Boundary(n), PtrSize) THEN "parent"
        ELSE IF FoundAt(p, Boundary(n), LowerBound(p, Boundary(n))) THEN "abort"
        ELSE IF dense /\ NumericPartAtMax(Boundary(n), n.fullKeyLen) THEN "assert"
        ELSE "split"

DenseSplit ==
    LET n == page[node]
        p == page[parent]
        left == NewPage
    IN  /\ SplittingDense
        /\ FreePages # {}
        /\ \E dense \in SplitToSelf(n) :
              /\ DenseSplitChecks(dense) = "split"
              /\ page' = [q \in DOMAIN page \cup {left} |->
                    CASE q = left   -> DenseLeft(n)
                      [] q = node   -> DenseRight(n, dense)
                      [] q = parent -> InsertSlot(p, LowerBound(p, Boundary(n)), Boundary(n), left)
                      [] OTHER      -> page[q]]
        /\ UNCHANGED root
        /\ pc' = "descend"
        /\ FromRoot(op.key)
        /\ UNCHANGED <<op, toSplit, out, res>>

DenseSplitDies ==
    /\ SplittingDense
    /\ \E dense \in SplitToSelf(page[node]) :
          /\ DenseSplitChecks(dense) \in {"abort", "assert"}
          /\ Die(DenseSplitChecks(dense))

DenseEnsureSpace ==
    /\ SplittingDense
    /\ DenseSplitChecks(FALSE) = "parent"
    /\ pc' = "ensure"
    /\ toSplit' = parent
    /\ UNCHANGED <<root, page, op, out, res>>
    /\ FromRoot(skey)

(***************************************************************************)
(* removeImpl on a dense page.  An underfull one that has a right          *)
(* neighbour in its parent becomes basic and may be merged into it.        *)
(***************************************************************************)
DenseRemoveMiss ==
    /\ AtDense("remove")
    /\ ~HasKey(page[node], skey)
    /\ Return(NoAnswer)
    /\ UNCHANGED tree

BecomesBasic(n) ==
    /\ parent # NoPage
    /\ Count(page[parent]) >= 2
    /\ pos + 1 <= Count(page[parent])
    /\ DenseUnderfull(n)

DenseRemove ==
    LET n == UnsetSlot(page[node], KeyToIndex(page[node], skey))
        b == ConvertToBasic(n)
    IN  /\ AtDense("remove")
        /\ HasKey(page[node], skey)
        /\ Return(Answer(TRUE, NoVal, << >>))
        /\ \/ /\ ~BecomesBasic(n)
              /\ page' = [page EXCEPT ![node] = n]
           \/ /\ BecomesBasic(n) /\ ~CanMerge(b)
              /\ page' = [page EXCEPT ![node] = b]
           \/ /\ BecomesBasic(n) /\ CanMerge(b)
              /\ page' = [q \in PagesAfterMerge |->
                             CASE q = parent         -> RemoveSlot(page[parent], pos)
                               [] q = RightNeighbour -> Merged(b, page[RightNeighbour])
                               [] OTHER              -> page[q]]
        /\ UNCHANGED root

(***************************************************************************)
(* range_lookup1.  The first leaf of a scan is searched for the start key, *)
(* the others are visited with a null key pointer.                         *)
(***************************************************************************)
FirstLeaf == skey = op.key

(* isNumericRangeAnyLen reads the key in front of the numeric part.        *)
ReadsNullKey(n) ==
    ~FirstLeaf /\ PrefixLen(n) < Min({ComputeNumericPrefixLength(n.fullKeyLen), Len(skey)})

IsNumericRangeAnyLen(n) ==
    \A i \in (PrefixLen(n) + 1) .. ComputeNumericPrefixLength(n.fullKeyLen) :
        n.lower[i] = IF i <= Len(skey) THEN skey[i] ELSE 0

(* mutant: a start key of full length is passed over.                      *)
FirstIndexMut(n) ==
    IF FirstLeaf THEN LeastGreaterKey(skey, n.fullKeyLen) - n.arrayStart ELSE 0

FirstIndex(n) ==
    IF FirstLeaf
    THEN LeastGreaterKey(skey, n.fullKeyLen) - (IF Len(skey) = n.fullKeyLen THEN 1 ELSE 0)
           - n.arrayStart
    ELSE 0

DenseUpwards(n) ==
    IF IsNumericRangeAnyLen(n)
    THEN Records([n EXCEPT !.arr = [i \in Indices(n) |-> IF i < FirstIndex(n) THEN NoVal ELSE @[i]]])
    ELSE << >>

StartAtMax(n) ==
    FirstLeaf /\ IsNumericRangeAnyLen(n) /\ NumericPartAtMax(skey, n.fullKeyLen)

DenseScan ==
    LET n   == page[node]
        all == out \o DenseUpwards(n)
    IN  /\ AtDense("scan")
        /\ ~ReadsNullKey(n)
        /\ ~StartAtMax(n)
        /\ IF Len(all) >= op.limit
           THEN Return(Answer(FALSE, NoVal, SubSeq(all, 1, op.limit)))
           ELSE IF n.upper = << >>
           THEN Return(Answer(FALSE, NoVal, all))
           ELSE /\ out' = all
                /\ FromRoot(Successor(n.upper))
                /\ UNCHANGED <<pc, op, toSplit, res>>
        /\ UNCHANGED tree

(* A start key behind the array makes the scan read a word behind the      *)
(* mask: payload bytes, or memory outside the page.  A bit that is set     *)
(* there is taken for a record if it is the one right behind the array     *)
(* ("entryIndex > slotCount").                                             *)
StrayWord(n) ==
    /\ FirstLeaf
    /\ IsNumericRangeAnyLen(n)
    /\ FirstIndex(n) \div MaskBits >= MaskWordCount(n.slotCount)

DenseScanDies ==
    LET n == page[node]
    IN  /\ AtDense("scan")
        /\ \/ ReadsNullKey(n) /\ Die("fault")
           \/ ~ReadsNullKey(n) /\ StartAtMax(n) /\ Die("assert")
           \/ /\ StrayWord(n)
              /\ DenseHeader + (FirstIndex(n) \div MaskBits) * MaskBytes >= PageSizeLeaf
              /\ Die("fault")
           \/ StrayWord(n) /\ FirstIndex(n) = n.slotCount /\ Die("assert")

(* range_lookup_desc: "this function is currently broken".                 *)
DenseScanDesc == AtDense("scandesc") /\ Die("abort")

-----------------------------------------------------------------------------
OnBasic ==
    /\ Walking
    /\ ~IsDense(page[node])
    /\ ~CanDensify(page[node])
    /\ ~DensifyAsserts(page[node])

DenseStep ==
    \/ OnBasic /\ Step
    \/ Densify \/ DensifyDies
    \/ DenseLookup
    \/ DenseInsert \/ DenseConvert \/ DenseConvertDies \/ DenseInsertFails
    \/ pc = "split" /\ IsDense(page[node]) /\ MakeRoot
    \/ DenseSplit \/ DenseSplitDies \/ DenseEnsureSpace
    \/ DenseRemoveMiss \/ DenseRemove
    \/ DenseScan \/ DenseScanDies \/ DenseScanDesc

DenseNext ==
    \/ \E o \in Ops : Call(o)
    \/ Clear
    \/ DenseStep

DenseSpec == Init /\ [][DenseNext]_vars

-----------------------------------------------------------------------------
(***************************************************************************)
(* Properties.                                                             *)
(***************************************************************************)
DensePages == {p \in Pages : IsDense(page[p])}
Dead       == pc \in {"abort", "assert", "fault"}

(* The tree with every dense page shown as the basic leaf it stands for.   *)
Shown(n)   == IF IsDense(n) THEN ConvertToBasic(n) ELSE n
ShownPages == [p \in Pages |-> Shown(page[p])]

View == INSTANCE BTree WITH page <- ShownPages

(* The array of a dense page is where the code looks for it: it begins     *)
(* with the first key above the lower fence, the fence supplies the bytes  *)
(* before the numeric part (asserted in densify1 and changeLowerFence),    *)
(* the array does not run into the fences, and occupiedCount, which        *)
(* decides over conversions, counts the bits of the mask.                  *)
DenseArraySound ==
    \A p \in DensePages :
        LET n == page[p]
        IN  /\ n.arrayStart = LeastGreaterKey(n.lower, n.fullKeyLen)
            /\ Len(n.lower) >= ComputeNumericPrefixLength(n.fullKeyLen)
            /\ ArrayEnd(n.slotCount, n.valLen) <= FencesOffset(n.lower, n.upper, n.fullKeyLen)
            /\ n.occupiedCount = Cardinality(Occupied(n))

(* keyToIndex asserts that a key that reached the page is not below the    *)
(* start of its array; the unsigned difference would wrap around.          *)
KeyAboveArrayStart ==
    Walking /\ IsDense(page[node]) /\ Len(skey) = page[node].fullKeyLen
        /\ SharesNumericPrefix(page[node], skey) =>
            GetNumericPart(skey, page[node].fullKeyLen) >= page[node].arrayStart

(* The keys of a dense page, restored from their places in the array, are  *)
(* in order and between the page's fences, like those of the other pages.  *)
DenseKeysInFences == View!KeysInFences

(* Separators in a parent are the fences of its children, whatever layout  *)
(* the children have and however often it has changed.                     *)
DenseChildFences == View!ChildFences

(* A descent reaches the page that is responsible for the key, also after  *)
(* splits behind the array of a dense page.                                *)
DenseCursorOnPath == View!CursorOnPath

(* Merging a dense page into its neighbour frees it.                       *)
DenseNoLeak == View!NoLeak

(* The sums that decide over conversions are computed from occupiedCount   *)
(* and never from the records.  They are large enough: after a remove      *)
(* always, before an insert if the new payload is not shorter than the     *)
(* ones of the page.                                                       *)
ConversionsFit ==
    LET n == page[node]
        m == UnsetSlot(n, KeyToIndex(n, skey))
    IN  /\ Converting /\ PayloadLen[op.val] >= n.valLen => Fits(ConvertToBasic(n))
        /\ AtDense("remove") /\ HasKey(n, skey) /\ BecomesBasic(m) => Fits(ConvertToBasic(m))

(* The estimate of an insert is large enough for the records the page has, *)
(* as the assertion at the end of copyKeyValueRangeToBasic says.  A build  *)
(* without assertions comes to the same states and copies all the same.    *)
EstimateEnough == Converting => ConvertFits(page[node])

(* Every operation ends, also when it changes the layout of a page and     *)
(* looks at the page again: layouts never alternate for ever.              *)
DenseTerminates == (pc # "idle") ~> (pc = "idle" \/ Dead)

=============================================================================
