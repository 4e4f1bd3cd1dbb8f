---------------------------- MODULE MCDenseTree -----------------------------
(***************************************************************************)
(* Instances of DenseTree for TLC.  A workload is a sequence of operations *)
(* that come first (load) and a set of operations of which up to max       *)
(* follow, in any order; lookups are always possible.                      *)
(***************************************************************************)
EXTENDS DenseTree

CONSTANT Workloads

VARIABLES work,         \* the workload
          calls,        \* operations of it started so far
          map           \* the contents of the tree, kept to be computed only once a state

mcVars == <<vars, work, calls, map>>

ContentsOf(entries) ==
    [k \in Key |-> IF \E e \in entries : e.key = k
                   THEN (CHOOSE e \in entries : e.key = k).val
                   ELSE NoVal]

MCInit == Init /\ work \in Workloads /\ calls = 0 /\ map = ContentsOf(View!Entries)

LoadNext ==
    /\ calls < Len(work.load)
    /\ Call(work.load[calls + 1])
    /\ calls' = calls + 1

AnyCall ==
    /\ calls \in Len(work.load) .. Len(work.load) + work.max - 1
    /\ \/ \E o \in work.ops : Call(o)
       \/ Clear
    /\ calls' = calls + 1

MoreLookups ==
    /\ calls = Len(work.load) + work.max
    /\ \E k \in {o.key : o \in work.ops} : Call(Op("lookup", k, NoVal, 0))
    /\ UNCHANGED calls

Run == DenseStep /\ UNCHANGED calls

Stop == Dead /\ UNCHANGED <<vars, calls>>

Track == \E entries \in {View!Entries'} : map' = ContentsOf(entries)

MCNext ==
    /\ LoadNext \/ AnyCall \/ MoreLookups \/ Run \/ Stop
    /\ Track
    /\ UNCHANGED work

MCSpec == MCInit /\ [][MCNext]_mcVars

MCFairSpec == MCSpec /\ WF_vars(DenseStep)

-----------------------------------------------------------------------------
(* As long as the process lives the tree is a map, whichever layout its    *)
(* leaves have.  An insert of a present key may overwrite: a dense page    *)
(* does, where a basic page aborts.                                        *)
DStore == INSTANCE KVStore WITH req <- op

Overwrite ==
    /\ op.kind = "insert"
    /\ map[op.key] # NoVal
    /\ map' = [map EXCEPT ![op.key] = op.val]
    /\ op' = NoOp
    /\ res' = NoAnswer

MapWhileAlive ==
    /\ DStore!KVInit
    /\ [][DStore!KVNext \/ Overwrite \/ Dead']_<<map, op, res>>

-----------------------------------------------------------------------------
Pages16 == 1 .. 16
Ins(k, v) == Op("insert", k, v, 0)
Del(k)    == Op("remove", k, NoVal, 0)
Loading(keys, v) == [i \in DOMAIN keys |-> Ins(keys[i], v)]
Work(load, ops, max) == [load |-> load, ops |-> ops, max |-> max]

(* Operations on certain keys that insert certain payloads only.           *)
OpsOn(keys, vals) == {o \in Ops : o.key \in keys /\ o.val \in {NoVal} \cup vals}

(* Two-byte keys whose numeric part is the whole key, and two of one byte; *)
(* payloads of two lengths.                                                *)
P(n)      == <<n \div 8, n % 8>>
PairKeys  == {P(n) : n \in 0 .. 15 \cup {18}} \cup {<<1>>, <<2>>}
LoadPairs == Loading(<<P(0), P(1), P(3), P(6), P(9), P(4)>>, "s")

PairWork  == Work(LoadPairs,
                  {o \in OpsOn({P(n) : n \in 0 .. 14}, {"s"}) : o.kind # "scandesc"}, 2)
MixedWork == Work(SubSeq(LoadPairs, 1, 5),
                  {o \in OpsOn({<<1>>, <<2>>} \cup {P(n) : n \in {1, 5, 10, 11, 18}}, {"s", "z"}) :
                      o.kind # "scandesc" /\ o.limit # 2}, 2)

(* Three-byte keys: the first byte is not part of the number.              *)
K(a, n)    == <<a, n \div 8, n % 8>>
TripleKeys == {K(0, n) : n \in {0, 1, 2, 3, 4, 5, 6, 7, 12, 30, 62, 63}}
                \cup {K(1, n) : n \in {0, 1, 2, 3, 4, 7}} \cup {K(2, 0), K(2, 1)}

LoadTriples ==
    Loading(<<K(0, 0), K(0, 1), K(0, 2), K(0, 3), K(0, 5)>>, "b") \o <<Del(K(0, 5))>>
      \o Loading(<<K(0, 30), K(1, 0), K(1, 1), K(1, 2), K(1, 3), K(1, 4), K(1, 7)>>, "b")
      \o <<Del(K(0, 30))>>
TripleWork == Work(LoadTriples, OpsOn(TripleKeys \ {K(0, 62), K(0, 63)}, {"b"}), 2)

(* Numeric parts at their limit: a leaf whose lower fence is K(0, 63), and *)
(* one before it that is dense.                                            *)
EdgeWork ==
    Work(Loading(<<K(0, 0), K(0, 1), K(0, 2), K(0, 3), K(0, 6), K(0, 62), K(0, 63), K(1, 0), K(1, 1)>>, "b"),
         OpsOn({K(0, n) : n \in {0, 1, 2, 3, 6, 7, 62, 63}} \cup {K(1, n) : n \in 0 .. 2}, {"b"}), 3)

DenseKeys  == PairKeys \cup TripleKeys
DenseVals  == {"s", "z", "b"}
DenseLens  == [v \in DenseVals |-> CASE v = "s" -> 2 [] v = "z" -> 0 [] v = "b" -> 3]
DenseWorks == {PairWork, MixedWork, TripleWork, EdgeWork}

(* A dense leaf that has an upper fence inside its array.                  *)
FencedKeys  == {<<x, y>> : x, y \in 0 .. 3} \cup {<<0>>}
FencedVals  == {"s", "z"}
FencedLens  == [v \in FencedVals |-> IF v = "s" THEN 1 ELSE 0]
FencedWorks == {Work(Loading(<< <<0, 0>>, <<0, 2>>, <<1, 0>>, <<3, 3>>, <<0, 1>> >>, "s"), Ops, 1)}
=============================================================================
