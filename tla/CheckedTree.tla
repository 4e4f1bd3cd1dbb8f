----------------------------- MODULE CheckedTree -----------------------------
(***************************************************************************)
(* DataStructureWrapper (libbtree/src/btree2020.cpp) in a build without    *)
(* NDEBUG, which defines CHECK_TREE_OPS: each call goes to the tree and to *)
(* a std::map beside it, and assertions compare the two.  The tests and    *)
(* the examples of the library use the tree through this wrapper.          *)
(*                                                                         *)
(* A scan is compared record by record: an iterator over the map starts at *)
(* the first record that the tree should pass on and moves with it.  The   *)
(* map does not change during a scan, so that the iterator is the sequence *)
(* of records it goes through.  A failed comparison ends the process; the  *)
(* step in which it fails is shown with all that the tree did in it.       *)
(***************************************************************************)
EXTENDS BTree

VARIABLES std_map,      \* the std::map: NoVal for a key it does not hold
          failed        \* the call whose assertions failed, or NoOp

checkedVars == <<vars, std_map, failed>>

CheckedInit ==
    /\ Init
    /\ std_map = [k \in Key |-> NoVal]
    /\ failed = NoOp

(* insert stores the record in the map before it calls the tree.           *)
CheckedCall(o) ==
    /\ Call(o)
    /\ std_map' = IF o.kind = "insert" THEN [std_map EXCEPT ![o.key] = o.val] ELSE std_map
    /\ UNCHANGED failed

(* mutant: the map is not cleared.                                         *)
CheckedClearMut == Clear /\ UNCHANGED <<std_map, failed>>

CheckedClear ==
    /\ Clear
    /\ std_map' = [k \in Key |-> NoVal]
    /\ UNCHANGED failed

(* Nothing is compared while an operation runs, nor after an insert.       *)
Unchecked ==
    /\ Descend \/ (op.kind = "insert" /\ Step)
    /\ UNCHANGED <<std_map, failed>>

(* The assertions of the call in progress hold, or it is the last one.     *)
Check(agrees) == failed' = IF agrees THEN NoOp ELSE op

InStdMap(k) == std_map[k] # NoVal

LookupChecked ==
    /\ LeafLookup
    /\ Check(res' = Answer(InStdMap(op.key), std_map[op.key], << >>))
    /\ UNCHANGED std_map

RemoveChecked ==
    /\ RemoveMiss \/ RemoveOnly \/ RemoveAndMerge
    /\ Check(res'.found = InStdMap(op.key))
    /\ std_map' = [std_map EXCEPT ![op.key] = NoVal]

-----------------------------------------------------------------------------
(***************************************************************************)
(* Scans.                                                                  *)
(***************************************************************************)
StdRecords ==
    LET keys == SetToSortSeq({k \in Key : InStdMap(k)}, Less)
    IN  [i \in DOMAIN keys |-> [key |-> keys[i], val |-> std_map[keys[i]]]]

(* std_map.lower_bound: the position of the first key that is not less     *)
(* than k; one behind the last is end().                                   *)
StdLowerBound(k) == 1 + Cardinality({s \in Key : InStdMap(s) /\ Less(s, k)})

StdUpwards(k) == SubSeq(StdRecords, StdLowerBound(k), Len(StdRecords))

(* mutant: the iterator stays at the first key that is not less than k.    *)
StdDownwardsMut(k) ==
    IF StdLowerBound(k) > Len(StdRecords) THEN << >>
    ELSE Reverse(SubSeq(StdRecords, 1, StdLowerBound(k)))

(* range_lookup_desc steps back from a key behind the start key, but not   *)
(* from end(), where the iterator counts as exhausted, and not from        *)
(* begin(), where it stays at a record that the scan does not reach.       *)
StdDownwards(k) ==
    LET i     == StdLowerBound(k)
        first == IF i \in 2 .. Len(StdRecords) /\ StdRecords[i].key # k THEN i - 1 ELSE i
    IN  IF i > Len(StdRecords) THEN << >> ELSE Reverse(SubSeq(StdRecords, 1, first))

(* What the tree has passed on so far is where the iterator came along; a  *)
(* scan that was not stopped by its callback has exhausted the iterator.   *)
(* The records passed on are in out, and in res once the scan has ended.   *)
ScanAgrees(passed, expected, ended) ==
    /\ IsPrefix(passed, expected)
    /\ ended /\ Len(passed) < op.limit => passed = expected

ScanUpChecked ==
    /\ ScanUp
    /\ Check(ScanAgrees(out' \o res'.recs, StdUpwards(op.key), pc' = "idle"))
    /\ UNCHANGED std_map

ScanDownChecked ==
    /\ ScanDown
    /\ Check(ScanAgrees(out' \o res'.recs, StdDownwards(op.key), pc' = "idle"))
    /\ UNCHANGED std_map

CheckedStep ==
    \/ Unchecked
    \/ LookupChecked
    \/ RemoveChecked
    \/ ScanUpChecked
    \/ ScanDownChecked

CheckedNext ==
    /\ failed = NoOp
    /\ \/ \E o \in Ops : CheckedCall(o)
       \/ CheckedClear
       \/ CheckedStep

CheckedSpec == CheckedInit /\ [][CheckedNext]_checkedVars

-----------------------------------------------------------------------------
(***************************************************************************)
(* Properties.                                                             *)
(***************************************************************************)
(* Every stored key is smaller than k, or every stored key is larger.      *)
OutsideStored(k) ==
    LET stored == {s \in Key : InStdMap(s)}
    IN  /\ stored # {}
        /\ (\A s \in stored : Less(s, k)) \/ (\A s \in stored : Less(k, s))

(* Whatever was split, merged, removed or cleared before: the assertions   *)
(* of the wrapper do not fail for a lookup, a remove or an ascending scan, *)
(* and for a descending one only if it starts outside the stored keys.     *)
ChecksFailOnlyAtEnds ==
    failed # NoOp => failed.kind = "scandesc" /\ OutsideStored(failed.key)

=============================================================================
