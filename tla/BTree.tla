------------------------------- MODULE BTree --------------------------------
(***************************************************************************)
(* The B-tree of libbtree (BTree, BTreeNode and the AnyNode dispatch) with *)
(* basic leaves and basic inner pages: enablePrefix on, the dense, hash    *)
(* and head layouts off.                                                   *)
(*                                                                         *)
(* A page is a record: its fences, its slot array in key order and, for an *)
(* inner page, the child to the right of the last separator.  Bytes are    *)
(* accounted for as the code does (header, slots, fences, keys without the *)
(* page's common prefix, payloads), so that splits and merges happen when  *)
(* the code's do.  The operations are loops that walk down from the root;  *)
(* each iteration is a step.  An insert that finds no room splits a page,  *)
(* or the parent that has no room for the separator, and starts over.      *)
(*                                                                         *)
(* A failing assert, ASSUME or abort() of the code ends the process: pc    *)
(* becomes "assert" or "abort" and no step follows.                        *)
(***************************************************************************)
EXTENDS KeyOrder, FiniteSets, FiniteSetsExt, SequencesExt

CONSTANTS Key,            \* the keys callers use
          Val,            \* the payloads
          NoVal,          \* stands for a null payload pointer
          PayloadLen,     \* the length of each payload
          Limits,         \* after how many records a scan's callback says stop
          PageId,         \* page addresses
          NoPage,         \* the null page pointer
          PageSizeLeaf,   \* pageSizeLeaf
          PageSizeInner,  \* pageSizeInner
          HeaderSize,     \* sizeof(BTreeNodeHeader)
          SlotSize,       \* sizeof(Slot)
          PtrSize,        \* sizeof(AnyNode*)
          SepWindow       \* share of a leaf searched for a separator: 16

ASSUME BTreeAssumption ==
    /\ Key \subseteq Bytes
    /\ NoVal \notin Val
    /\ PayloadLen \in [Val -> Nat]
    /\ Limits \subseteq Nat \ {0}
    /\ PageId # {}
    /\ NoPage \notin PageId
    /\ {PageSizeLeaf, PageSizeInner, HeaderSize, SlotSize, PtrSize} \subseteq Nat
    /\ HeaderSize <= PageSizeLeaf /\ HeaderSize <= PageSizeInner
    /\ SepWindow \in 5 .. 16

VARIABLES root,     \* BTree::root
          page,     \* the allocated pages
          pc,       \* where the running operation is
          op,       \* the running operation and its arguments
          node,     \* local variable of the descents: the page reached
          parent,   \* ... the page it was reached from
          pos,      \* ... and the index of the pointer that was followed
          skey,     \* the key the descent looks for (key, or a scan's keyOut)
          toSplit,  \* ensureSpace's argument
          out,      \* records a scan has passed to its callback
          res       \* the answer of the last operation

tree   == <<root, page>>
cursor == <<node, parent, pos, skey>>
vars   == <<root, page, pc, op, node, parent, pos, skey, toSplit, out, res>>

(***************************************************************************)
(* Operations and answers.                                                 *)
(***************************************************************************)
Op(kind, key, val, limit) ==
    [kind |-> kind, key |-> key, val |-> val, limit |-> limit]

NoOp == Op("none", << >>, NoVal, 0)

MaxKVSize ==
    LET smaller == IF PageSizeLeaf < PageSizeInner THEN PageSizeLeaf ELSE PageSizeInner
    IN  (smaller - HeaderSize - 2 * SlotSize) \div 3

(* insertImpl's documented precondition on sizes.                          *)
FitsKV(k, v) == Len(k) + PayloadLen[v] <= MaxKVSize

InsertOps == {Op("insert", k, v, 0) : k \in Key, v \in Val}
PointOps  == {Op(kind, k, NoVal, 0) : kind \in {"remove", "lookup"}, k \in Key}
ScanOps   == {Op(kind, k, NoVal, n) : kind \in {"scan", "scandesc"}, k \in Key, n \in Limits}
Ops       == InsertOps \cup PointOps \cup ScanOps

Answer(found, val, recs) == [found |-> found, val |-> val, recs |-> recs]
NoAnswer == Answer(FALSE, NoVal, << >>)

(***************************************************************************)
(* Pages.                                                                  *)
(***************************************************************************)
LeafSlot  == [key : Key, val : Val]
InnerSlot == [key : Bytes, val : PageId]

LeafPage  == [tag : {"leaf"}, lower : Bytes, upper : Bytes, slot : Seq(LeafSlot), up : {NoPage}]
InnerPage == [tag : {"inner"}, lower : Bytes, upper : Bytes, slot : Seq(InnerSlot), up : PageId]

IsLeaf(n) == n.tag = "leaf"
Count(n)  == Len(n.slot)

Leaf(lower, upper, slot) ==
    [tag |-> "leaf", lower |-> lower, upper |-> upper, slot |-> slot, up |-> NoPage]
Inner(lower, upper, slot, up) ==
    [tag |-> "inner", lower |-> lower, upper |-> upper, slot |-> slot, up |-> up]

(* The child behind pointer i; the last pointer is "upper".                *)
ChildAt(n, i) == IF i <= Count(n) THEN n.slot[i].val ELSE n.up

(* The key that bounds child i on its right; 0 is the page's lower fence.  *)
SepAt(n, i) ==
    IF i = 0 THEN n.lower ELSE IF i <= Count(n) THEN n.slot[i].key ELSE n.upper

(* mutant: an empty upper fence taken for a bound that shares everything.  *)
PrefixLenMut(n) ==
    IF n.upper = << >> THEN Len(n.lower) ELSE CommonPrefixLen(n.lower, n.upper)

(* Byte accounting.  setFences computes the prefix that all keys of the    *)
(* page share and that is not stored with them.                            *)
PrefixLen(n) == CommonPrefixLen(n.lower, n.upper)

EntryLen(n, s) ==
    Len(s.key) - PrefixLen(n) + (IF IsLeaf(n) THEN PayloadLen[s.val] ELSE PtrSize)

(* What the first i slots take up, for every i.                            *)
SlotBytes(n) ==
    LET sum[i \in 0 .. Count(n)] ==
            IF i = 0 THEN 0 ELSE sum[i - 1] + EntryLen(n, n.slot[i])
    IN  sum

SpaceUsed(n) == Len(n.lower) + Len(n.upper) + SlotBytes(n)[Count(n)]

PageSize(n) == IF IsLeaf(n) THEN PageSizeLeaf ELSE PageSizeInner

FreeSpaceAfterCompaction(n) ==
    PageSize(n) - (HeaderSize + SlotSize * Count(n)) - SpaceUsed(n)

(* mutant: the slot itself is not counted.                                 *)
SpaceNeededMut(n, k, payloadLen) == (Len(k) - PrefixLen(n)) + payloadLen

SpaceNeeded(n, k, payloadLen) == SlotSize + (Len(k) - PrefixLen(n)) + payloadLen

(* requestSpaceFor: what does not fit in the gap fits after compactify.    *)
RequestSpaceFor(n, k, payloadLen) ==
    SpaceNeeded(n, k, payloadLen) <= FreeSpaceAfterCompaction(n)

Fits(n) == FreeSpaceAfterCompaction(n) >= 0

UnderFull(n) == FreeSpaceAfterCompaction(n) >= PageSizeLeaf \div 4

(* mutant: skips a key that is equal.                                      *)
LowerBoundMut(n, k) ==
    CHOOSE i \in 1 .. Count(n) + 1 :
        /\ \A j \in 1 .. (i - 1) : Leq(n.slot[j].key, k)
        /\ \A j \in i .. Count(n) : Less(k, n.slot[j].key)

(* lowerBound: the first slot whose key is not smaller than k.             *)
LowerBound(n, k) ==
    CHOOSE i \in 1 .. Count(n) + 1 :
        /\ \A j \in 1 .. (i - 1) : Less(n.slot[j].key, k)
        /\ \A j \in i .. Count(n) : Leq(k, n.slot[j].key)

FoundAt(n, k, i) == i <= Count(n) /\ n.slot[i].key = k

InsertSlot(n, i, k, v) == [n EXCEPT !.slot = InsertAt(@, i, [key |-> k, val |-> v])]
RemoveSlot(n, i)       == [n EXCEPT !.slot = RemoveAt(@, i)]

(* mutant: the cut one slot further to the right.                          *)
WindowLowMut(n) == 2 + Count(n) \div 2 - Count(n) \div (2 * SepWindow)

(***************************************************************************)
(* findSeparator.  An inner page is cut in the middle.  A leaf is cut      *)
(* within a window around the middle, where the common prefix of the       *)
(* window's ends shows the shortest key that separates two neighbours; it  *)
(* may be a proper prefix of the key to the right of the cut.  Everything  *)
(* up to slot "at" goes to the left page.                                  *)
(***************************************************************************)
WindowLow(n)  == 1 + Count(n) \div 2 - Count(n) \div (2 * SepWindow)
WindowHigh(n) == WindowLow(n) + Count(n) \div SepWindow

FindLeafSeparator(n) ==
    LET lo     == WindowLow(n)
        hi     == WindowHigh(n)
        key(i) == n.slot[i].key
        common == CommonPrefixLen(key(lo), key(hi))
        first  == CHOOSE i \in (lo + 1) .. hi :
                      /\ key(i)[common + 1] # key(lo)[common + 1]
                      /\ \A j \in (lo + 1) .. (i - 1) :
                             key(j)[common + 1] = key(lo)[common + 1]
    IN  IF Len(key(lo)) = common
        THEN [sep |-> key(lo), at |-> lo]
        ELSE IF Len(key(first)) = common + 1
        THEN [sep |-> key(first), at |-> first]
        ELSE [sep |-> Take(key(first), common + 1), at |-> first - 1]

FindSeparator(n) ==
    IF IsLeaf(n)
    THEN FindLeafSeparator(n)
    ELSE [sep |-> n.slot[Count(n) \div 2].key, at |-> Count(n) \div 2]

(* mutant: the left page's last pointer is not set.                        *)
SplitLeftMut(n, s) ==
    IF IsLeaf(n)
    THEN Leaf(n.lower, s.sep, SubSeq(n.slot, 1, s.at))
    ELSE Inner(n.lower, s.sep, SubSeq(n.slot, 1, s.at - 1), NoPage)

(* The two pages that BTreeNode::splitNode makes of n.                     *)
SplitLeft(n, s) ==
    IF IsLeaf(n)
    THEN Leaf(n.lower, s.sep, SubSeq(n.slot, 1, s.at))
    ELSE Inner(n.lower, s.sep, SubSeq(n.slot, 1, s.at - 1), n.slot[s.at].val)

(* mutants: the right page keeps the old lower fence; it keeps the         *)
(* separator that moves to the parent.                                     *)
SplitRightMut(n, s) ==
    IF IsLeaf(n)
    THEN Leaf(n.lower, n.upper, SubSeq(n.slot, s.at + 1, Count(n)))
    ELSE Inner(s.sep, n.upper, SubSeq(n.slot, s.at + 1, Count(n)), n.up)

SplitRightMut2(n, s) ==
    IF IsLeaf(n)
    THEN Leaf(s.sep, n.upper, SubSeq(n.slot, s.at + 1, Count(n)))
    ELSE Inner(s.sep, n.upper, SubSeq(n.slot, s.at, Count(n)), n.up)

SplitRight(n, s) ==
    IF IsLeaf(n)
    THEN Leaf(s.sep, n.upper, SubSeq(n.slot, s.at + 1, Count(n)))
    ELSE Inner(s.sep, n.upper, SubSeq(n.slot, s.at + 1, Count(n)), n.up)

(* mutant: the merged page keeps the right page's lower fence.             *)
MergedMut(l, r) == Leaf(r.lower, r.upper, l.slot \o r.slot)

(* mergeNodes on two leaves, and the bound it checks beforehand.           *)
Merged(l, r) == Leaf(l.lower, r.upper, l.slot \o r.slot)

MergeFits(l, r) ==
    LET prefix == PrefixLen(Merged(l, r))
        grow(n) == (PrefixLen(n) - prefix) * Count(n)
    IN  SpaceUsed(l) + SpaceUsed(r) + HeaderSize + SlotSize * (Count(l) + Count(r))
          + grow(l) + grow(r) <= PageSizeLeaf

(***************************************************************************)
(* Allocation.  malloc does not fail; PageId bounds the tree.              *)
(***************************************************************************)
FreePages == PageId \ DOMAIN page
NewPage   == CHOOSE p \in PageId : p \notin DOMAIN page

EmptyLeaf == Leaf(<< >>, << >>, << >>)

-----------------------------------------------------------------------------
(***************************************************************************)
(* The state machine.                                                      *)
(***************************************************************************)
Init ==
    /\ root = CHOOSE p \in PageId : TRUE
    /\ page = [p \in {root} |-> EmptyLeaf]
    /\ pc = "idle"
    /\ op = NoOp
    /\ node = NoPage
    /\ parent = NoPage
    /\ pos = 0
    /\ skey = << >>
    /\ toSplit = NoPage
    /\ out = << >>
    /\ res = NoAnswer

(* Where every loop of the operations begins.                              *)
FromRoot(key) ==
    /\ node' = root
    /\ parent' = NoPage
    /\ pos' = 0
    /\ skey' = key

Return(answer) ==
    /\ pc' = "idle"
    /\ op' = NoOp
    /\ node' = NoPage
    /\ parent' = NoPage
    /\ pos' = 0
    /\ skey' = << >>
    /\ out' = << >>
    /\ res' = answer
    /\ UNCHANGED toSplit

(* lookupImpl, insertImpl, removeImpl, range_lookupImpl and                *)
(* range_lookup_descImpl are entered.                                      *)
Call(o) ==
    /\ pc = "idle"
    /\ o.kind = "insert" => FitsKV(o.key, o.val)
    /\ pc' = "descend"
    /\ op' = o
    /\ FromRoot(o.key)
    /\ res' = NoAnswer
    /\ UNCHANGED <<root, page, toSplit, out>>

(* One iteration of "while (node->isAnyInner())".                          *)
StepDown ==
    LET i == LowerBound(page[node], skey)
    IN  /\ ~IsLeaf(page[node])
        /\ parent' = node
        /\ pos' = i
        /\ node' = ChildAt(page[node], i)
        /\ UNCHANGED <<root, page, pc, op, skey, toSplit, out, res>>

Descend ==
    /\ pc = "descend"
    /\ StepDown

AtLeaf(kind) ==
    /\ pc = "descend"
    /\ op.kind = kind
    /\ IsLeaf(page[node])

LeafLookup ==
    LET n == page[node]
        i == LowerBound(n, skey)
    IN  /\ AtLeaf("lookup")
        /\ Return(IF FoundAt(n, skey, i) THEN Answer(TRUE, n.slot[i].val, << >>) ELSE NoAnswer)
        /\ UNCHANGED tree

(* BTreeNode::insert asks for the space before it looks for the key.       *)
HasRoom(n) == RequestSpaceFor(n, op.key, PayloadLen[op.val])

LeafInsert ==
    LET n == page[node]
        i == LowerBound(n, skey)
    IN  /\ AtLeaf("insert")
        /\ HasRoom(n)
        /\ ~FoundAt(n, skey, i)
        /\ page' = [page EXCEPT ![node] = InsertSlot(n, i, op.key, op.val)]
        /\ UNCHANGED root
        /\ Return(NoAnswer)

Die(how) ==
    /\ pc' = how
    /\ UNCHANGED <<root, page, op, cursor, toSplit, out, res>>

LeafInsertFound ==
    LET n == page[node]
    IN  /\ AtLeaf("insert")
        /\ HasRoom(n)
        /\ FoundAt(n, skey, LowerBound(n, skey))
        /\ Die("abort")

LeafInsertFull ==
    /\ AtLeaf("insert")
    /\ ~HasRoom(page[node])
    /\ pc' = "split"
    /\ UNCHANGED <<root, page, op, cursor, toSplit, out, res>>

(***************************************************************************)
(* BTree::splitNode(node, parent).                                         *)
(***************************************************************************)
MakeRoot ==
    LET p == NewPage
    IN  /\ pc = "split"
        /\ parent = NoPage
        /\ FreePages # {}
        /\ page' = [q \in DOMAIN page \cup {p} |->
                       IF q = p THEN Inner(<< >>, << >>, << >>, node) ELSE page[q]]
        /\ root' = p
        /\ parent' = p
        /\ pos' = 1
        /\ UNCHANGED <<pc, op, node, skey, toSplit, out, res>>

(* splitNodeWithParent: what happens to the page in "node".                *)
SplitChecks ==
    LET n == page[node]
        p == page[parent]
        s == FindSeparator(n)
    IN  IF Count(n) < 2 THEN "assert"                       \* ASSUME(count > 1)
        ELSE IF ~RequestSpaceFor(p, s.sep, PtrSize) THEN "parent"
        ELSE IF s.at < 2 THEN "assert"                      \* assert(sepSlot > 0)
        ELSE IF FoundAt(p, s.sep, LowerBound(p, s.sep)) THEN "abort"
        ELSE IF ~(Fits(SplitLeft(n, s)) /\ Fits(SplitRight(n, s))) THEN "assert"
        ELSE "split"

Splitting ==
    /\ pc = "split"
    /\ parent # NoPage

SplitNode ==
    LET n == page[node]
        p == page[parent]
        s == FindSeparator(n)
        left == NewPage
    IN  /\ Splitting
        /\ SplitChecks = "split"
        /\ FreePages # {}
        /\ page' = [q \in DOMAIN page \cup {left} |->
                       CASE q = left   -> SplitLeft(n, s)
                         [] q = node   -> SplitRight(n, s)
                         [] q = parent -> InsertSlot(p, LowerBound(p, s.sep), s.sep, left)
                         [] OTHER      -> page[q]]
        /\ UNCHANGED root
        /\ pc' = "descend"                                  \* insertImpl again
        /\ FromRoot(op.key)
        /\ UNCHANGED <<op, toSplit, out, res>>

SplitDies ==
    /\ Splitting
    /\ SplitChecks \in {"assert", "abort"}
    /\ Die(SplitChecks)

(* mutant: starts the insert over without splitting the parent.            *)
EnsureSpaceMut ==
    /\ Splitting
    /\ SplitChecks = "parent"
    /\ pc' = "descend"
    /\ UNCHANGED <<root, page, op, toSplit, out, res>>
    /\ FromRoot(skey)

(* mutant: asks for the page that does not fit, not for its parent.        *)
EnsureSpaceMut2 ==
    /\ Splitting
    /\ SplitChecks = "parent"
    /\ pc' = "ensure"
    /\ toSplit' = node
    /\ UNCHANGED <<root, page, op, out, res>>
    /\ FromRoot(skey)

(***************************************************************************)
(* ensureSpace(toSplit): walk down again to find the parent of the page    *)
(* that is too full to take the separator, and split that page instead.    *)
(***************************************************************************)
EnsureSpace ==
    /\ Splitting
    /\ SplitChecks = "parent"
    /\ pc' = "ensure"
    /\ toSplit' = parent
    /\ UNCHANGED <<root, page, op, out, res>>
    /\ FromRoot(skey)

EnsureStep ==
    /\ pc = "ensure"
    /\ node # toSplit
    /\ StepDown

EnsureFound ==
    /\ pc = "ensure"
    /\ node = toSplit \/ IsLeaf(page[node])
    /\ pc' = "split"
    /\ node' = toSplit
    /\ toSplit' = NoPage
    /\ UNCHANGED <<root, page, op, parent, pos, skey, out, res>>

(***************************************************************************)
(* removeImpl on a leaf.  A leaf that is underfull after the removal is    *)
(* merged into its right neighbour if the neighbour is a slot of the same  *)
(* parent, underfull too, and the result fits.                             *)
(***************************************************************************)
RemoveMiss ==
    LET n == page[node]
    IN  /\ AtLeaf("remove")
        /\ ~FoundAt(n, skey, LowerBound(n, skey))
        /\ Return(NoAnswer)
        /\ UNCHANGED tree

Removing ==
    LET n == page[node]
    IN  /\ AtLeaf("remove")
        /\ FoundAt(n, skey, LowerBound(n, skey))
        /\ Return(Answer(TRUE, NoVal, << >>))

Removed(n) == RemoveSlot(n, LowerBound(n, skey))

RightNeighbour == ChildAt(page[parent], pos + 1)

CanMerge(n) ==
    /\ UnderFull(n)
    /\ parent # NoPage
    /\ Count(page[parent]) >= 2
    /\ pos + 1 <= Count(page[parent])
    /\ IsLeaf(page[RightNeighbour])
    /\ UnderFull(page[RightNeighbour])
    /\ MergeFits(n, page[RightNeighbour])

RemoveOnly ==
    LET n == Removed(page[node])
    IN  /\ Removing
        /\ ~CanMerge(n)
        /\ page' = [page EXCEPT ![node] = n]
        /\ UNCHANGED root

(* mutant: the emptied page is not freed.                                  *)
PagesAfterMergeMut == DOMAIN page

(* node->dealloc() after mergeNodes.                                       *)
PagesAfterMerge == DOMAIN page \ {node}

RemoveAndMerge ==
    LET n == Removed(page[node])
    IN  /\ Removing
        /\ CanMerge(n)
        /\ page' = [q \in PagesAfterMerge |->
                       CASE q = parent         -> RemoveSlot(page[parent], pos)
                         [] q = RightNeighbour -> Merged(n, page[RightNeighbour])
                         [] OTHER              -> page[q]]
        /\ UNCHANGED root

(***************************************************************************)
(* Scans.  Each iteration passes the records of one leaf to the callback,  *)
(* which asks to stop when it has seen op.limit of them, and goes on from  *)
(* the root with a key taken from the leaf's fence.                        *)
(***************************************************************************)
Upwards(n) ==
    LET first == IF skey = op.key THEN LowerBound(n, skey) ELSE 1
    IN  SubSeq(n.slot, first, Count(n))

(* mutant: leaves out a record whose key is the start key.                 *)
DownwardsMut(n) == Reverse(SubSeq(n.slot, 1, LowerBound(n, skey) - 1))

Downwards(n) ==
    LET i    == LowerBound(n, skey)
        last == IF FoundAt(n, skey, i) THEN i ELSE i - 1
    IN  Reverse(SubSeq(n.slot, 1, last))

(* The scan in direction "kind" meets recs in this leaf and would go on    *)
(* with key next; an empty fence is the end of the tree.                   *)
ScanLeaf(kind, recs, fence, next) ==
    LET all == out \o recs
    IN  /\ AtLeaf(kind)
        /\ IF Len(all) >= op.limit
           THEN Return(Answer(FALSE, NoVal, SubSeq(all, 1, op.limit)))
           ELSE IF fence = << >>
           THEN Return(Answer(FALSE, NoVal, all))
           ELSE /\ out' = all
                /\ FromRoot(next)
                /\ UNCHANGED <<pc, op, toSplit, res>>
        /\ UNCHANGED tree

ScanUp ==
    LET n == page[node]
    IN  ScanLeaf("scan", Upwards(n), n.upper, Successor(n.upper))

ScanDown ==
    LET n == page[node]
    IN  ScanLeaf("scandesc", Downwards(n), n.lower, n.lower)

(* clearImpl frees every page below the root and starts with a new leaf.   *)
Clear ==
    /\ pc = "idle"
    /\ root' = CHOOSE p \in PageId : TRUE
    /\ page' = [p \in {root'} |-> EmptyLeaf]
    /\ res' = NoAnswer
    /\ UNCHANGED <<pc, op, cursor, toSplit, out>>

(* The steps of a running operation.                                       *)
Step ==
    \/ Descend
    \/ LeafLookup
    \/ LeafInsert \/ LeafInsertFound \/ LeafInsertFull
    \/ MakeRoot \/ SplitNode \/ SplitDies
    \/ EnsureSpace \/ EnsureStep \/ EnsureFound
    \/ RemoveMiss \/ RemoveOnly \/ RemoveAndMerge
    \/ ScanUp \/ ScanDown

Next ==
    \/ \E o \in Ops : Call(o)
    \/ Clear
    \/ Step

Spec == Init /\ [][Next]_vars

(* Operations run to completion in the thread that called them.            *)
FairSpec == Spec /\ WF_vars(Step)

-----------------------------------------------------------------------------
(***************************************************************************)
(* Properties.                                                             *)
(***************************************************************************)
Pages  == DOMAIN page
Leaves == {p \in Pages : IsLeaf(page[p])}
Inners == {p \in Pages : ~IsLeaf(page[p])}

OpsAndNoOp == Ops \cup {NoOp}

(* The types of the variables; a page in use is a leaf or an inner page.   *)
TypeOK ==
    /\ Pages \subseteq PageId
    /\ page \in [Pages -> LeafPage \cup InnerPage]
    /\ root \in PageId
    /\ pc \in {"idle", "descend", "ensure", "split", "abort", "assert"}
    /\ op \in OpsAndNoOp
    /\ node \in PageId \cup {NoPage}
    /\ parent \in PageId \cup {NoPage}
    /\ pos \in Nat
    /\ skey \in Bytes
    /\ toSplit \in PageId \cup {NoPage}
    /\ out \in Seq(LeafSlot)
    /\ res \in [found : BOOLEAN, val : Val \cup {NoVal}, recs : Seq(LeafSlot)]

(* A page is searchable by lowerBound: its slots are in strictly ascending *)
(* key order and its keys, or separators, lie between its fences.  A       *)
(* separator is never empty: as a fence it would mean "no bound".          *)
PageOK(n) ==
    /\ \A i, j \in 1 .. Count(n) : i < j => Less(n.slot[i].key, n.slot[j].key)
    /\ \A i \in 1 .. Count(n) : InFences(n.slot[i].key, n.lower, n.upper)
    /\ ~IsLeaf(n) => \A i \in 1 .. Count(n) : n.slot[i].key # << >>

(* insert, remove, splitNode and mergeNodes keep every page searchable.    *)
KeysInFences == \A p \in Pages : PageOK(page[p])

(* The fences stored in a child are the separators its parent keeps on     *)
(* either side of the pointer to it; the root has no fences.  It is what   *)
(* validate_child_fences of the code looks for.                            *)
ChildFences ==
    /\ root \in Pages
    /\ page[root].lower = << >>
    /\ page[root].upper = << >>
    /\ \A p \in Inners :
          \A i \in 1 .. Count(page[p]) + 1 :
             LET c == ChildAt(page[p], i)
             IN  /\ c \in Pages
                 /\ page[c].lower = SepAt(page[p], i - 1)
                 /\ page[c].upper = SepAt(page[p], i)

(* The pages form a tree: no two pointers lead to the same page, none to   *)
(* the root and none back to the page it is in, so a split or a merge      *)
(* never changes a page that some other parent still uses.                 *)
OneParent ==
    \A p, q \in Inners :
        \A i \in 1 .. Count(page[p]) + 1, j \in 1 .. Count(page[q]) + 1 :
            /\ ChildAt(page[p], i) \notin {root, p}
            /\ ChildAt(page[p], i) = ChildAt(page[q], j) => p = q /\ i = j

(* No two leaves are responsible for the same key.                         *)
LeavesDisjoint ==
    \A p, q \in Leaves : p # q =>
        \A k \in Key : ~ (/\ InFences(k, page[p].lower, page[p].upper)
                         /\ InFences(k, page[q].lower, page[q].upper))

Walking == pc \in {"descend", "ensure", "split"}

(* A descent is on the right path: the page it has reached is responsible  *)
(* for the key it looks for, and it is the child of "parent" at "pos".     *)
(* Only inserts split, and they look for their own key.                    *)
CursorOnPath ==
    Walking =>
        /\ node \in Pages
        /\ InFences(skey, page[node].lower, page[node].upper)
        /\ IF parent = NoPage
           THEN node = root
           ELSE /\ parent \in Inners
                /\ pos \in 1 .. Count(page[parent]) + 1
                /\ node = ChildAt(page[parent], pos)
        /\ pc # "descend" => op.kind = "insert"
        /\ op.kind \in {"insert", "remove", "lookup"} => skey = op.key

(* Following the search key from page x leads to page y: y belongs to      *)
(* every set of pages that contains x and is closed under such a step.     *)
NextPage(x) == ChildAt(page[x], LowerBound(page[x], skey))

Leads(x, y) ==
    \A S \in SUBSET Pages :
        x \in S /\ (\A z \in S \cap Inners : NextPage(z) \in S) => y \in S

(* ensureSpace finds the page it is told to split: that page is still on   *)
(* the way of the key, at or below the page its second descent has         *)
(* reached.                                                                *)
SplitPageAhead ==
    /\ Walking /\ parent # NoPage => Leads(root, parent)
    /\ pc = "ensure" => toSplit \in Inners /\ Leads(node, toSplit)

(* The search key begins with the prefix that the page has cut off its     *)
(* keys.  lowerBound skips that many bytes of the key without looking.     *)
SearchSharesPrefix ==
    Walking =>
        SharePrefix(skey, page[node].lower, PrefixLen(page[node]))

(* No page holds more bytes than it has: neither splits, which change the  *)
(* prefix and add fences, nor merges, which shorten the prefix, overflow.  *)
PagesFit == \A p \in Pages : Fits(page[p])

PointsTo(p, q) == \E i \in 1 .. Count(page[p]) + 1 : ChildAt(page[p], i) = q

(* Every allocated page is reachable from the root, so that destroy frees  *)
(* all of them: a removal frees the page it merges into its neighbour.     *)
(* Each page but the root has a parent, and no group of inner pages hangs  *)
(* together apart from the root.                                           *)
NoLeak ==
    /\ \A q \in Pages \ {root} : \E p \in Inners : PointsTo(p, q)
    /\ \A S \in SUBSET (Inners \ {root}) :
          S # {} => \E p \in Inners \ S, q \in S : PointsTo(p, q)

(* The contents of the tree: what its leaves hold.                         *)
Entries == UNION {Range(page[p].slot) : p \in Leaves}

Contents ==
    LET all == Entries
    IN  [k \in Key |-> IF \E e \in all : e.key = k
                       THEN (CHOOSE e \in all : e.key = k).val
                       ELSE NoVal]

(* The process dies only when a caller inserts a key that is present.      *)
(* Keys and payloads within maxKVSize never end in abort() or a failing    *)
(* assertion of the split.                                                 *)
DiesOnlyOnDuplicate ==
    pc \in {"abort", "assert"} => op.kind = "insert" /\ Contents[op.key] # NoVal

(* The operation in progress; the one that ended the process stays.        *)
Request == IF pc \in {"abort", "assert"} THEN [op EXCEPT !.kind = "aborted"] ELSE op

(* The tree implements a map: every operation takes effect in one step and *)
(* splits, merges, restarts and fence-by-fence scans are invisible.        *)
Store == INSTANCE KVStore WITH map <- Contents, req <- Request

StoreSpec == Store!KVSpec

(* Every operation ends: an insert splits only finitely often before it    *)
(* finds room, and a scan moves on to another leaf each time.              *)
Terminates == (pc # "idle") ~> (pc \in {"idle", "abort", "assert"})

=============================================================================
