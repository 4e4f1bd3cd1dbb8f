------------------------------ MODULE MCBTree -------------------------------
(***************************************************************************)
(* Instances of BTree for TLC.  An instance is a set of keys with payload  *)
(* sizes, page sizes scaled down in proportion, and a workload: the keys   *)
(* of Load are inserted first, in that order, then up to MaxOps arbitrary  *)
(* operations follow; lookups are always possible.                         *)
(***************************************************************************)
EXTENDS BTree

CONSTANTS Load,         \* sequence of <<key, payload>> inserted at the start
          MaxOps,       \* operations after that
          OpKey         \* the keys they use

VARIABLE calls          \* operations started so far

mcVars == <<vars, calls>>

MCInit == Init /\ calls = 0

LoadNext ==
    /\ calls < Len(Load)
    /\ Call(Op("insert", Load[calls + 1][1], Load[calls + 1][2], 0))
    /\ calls' = calls + 1

AnyCall ==
    /\ calls \in Len(Load) .. Len(Load) + MaxOps - 1
    /\ \/ \E o \in Ops : o.key \in OpKey /\ Call(o)
       \/ Clear
    /\ calls' = calls + 1

MoreLookups ==
    /\ calls = Len(Load) + MaxOps
    /\ \E k \in OpKey : Call(Op("lookup", k, NoVal, 0))
    /\ UNCHANGED calls

Run == Step /\ UNCHANGED calls

(* A process that has died stays dead; any other state has a next step.    *)
Dead == pc \in {"abort", "assert"} /\ UNCHANGED mcVars

MCNext == LoadNext \/ AnyCall \/ MoreLookups \/ Run \/ Dead

MCSpec == MCInit /\ [][MCNext]_mcVars

MCFairSpec == MCSpec /\ WF_mcVars(Run)

(* Without a workload: any sequence of calls, however long.                *)
FreeNext == (Next /\ UNCHANGED calls) \/ Dead

FreeSpec == MCInit /\ [][FreeNext]_mcVars

-----------------------------------------------------------------------------
(* All keys of one or two bytes over 0 .. 3: every one-byte key is a       *)
(* prefix of four others.                                                  *)
One == {<<x>> : x \in 0 .. 3}
Two == {<<x, y>> : x, y \in 0 .. 3}
Keys20 == One \cup Two

ShortVal == {"s"}
ShortLen == [v \in ShortVal |-> 0]

SmallKeys == {<<0>>, <<0, 1>>, <<1>>, <<1, 0>>, <<1, 1>>}
TwoVals   == {"s", "b"}
MaxLens   == [v \in TwoVals |-> IF v = "s" THEN 0 ELSE 5]   \* <<1, 0>> with "b" is maxKVSize
LoadNone  == << >>

Pages16 == 1 .. 16

(* The keys in an order that fills leaves from both ends, so that splits   *)
(* happen on the left and on the right and a separator reaches a full      *)
(* inner page in the middle.                                               *)
TallKeys == << <<3, 3>>, <<3, 2>>, <<3, 1>>, <<3, 0>>, <<3>>, <<2, 3>>, <<2, 2>>, <<2, 0>>, <<2>>,
               <<1, 3>>, <<1, 2>>, <<1, 1>>, <<1>>, <<0, 3>>, <<0, 2>>, <<0, 0>>, <<0>> >>
LoadTall == [i \in DOMAIN TallKeys |-> <<TallKeys[i], "s">>]
TallOpKeys == {<<0>>, <<0, 1>>, <<1, 0>>, <<1, 2>>, <<2, 1>>, <<3, 3>>}
=============================================================================
