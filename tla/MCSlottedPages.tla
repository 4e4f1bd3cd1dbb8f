--------------------------- MODULE MCSlottedPages ---------------------------
(***************************************************************************)
(* Instances of SlottedPages for TLC: the operations of Load come first,   *)
(* up to MaxOps of OpSet follow.                                           *)
(***************************************************************************)
EXTENDS SlottedPages

CONSTANTS Load, MaxOps, OpSet

VARIABLE calls

mcVars == <<slottedVars, calls>>

MCInit == SlottedInit /\ calls = 0

LoadNext ==
    /\ calls < Len(Load)
    /\ Call(Load[calls + 1]) /\ UNCHANGED heap
    /\ calls' = calls + 1

AnyCall ==
    /\ calls \in Len(Load) .. Len(Load) + MaxOps - 1
    /\ \/ \E o \in OpSet : Call(o) /\ UNCHANGED heap
       \/ ClearBytes
    /\ calls' = calls + 1

Run == SlottedStep /\ UNCHANGED calls

(* All operations are done, or the process has died.                       *)
Ended ==
    /\ pc \in {"abort", "assert"} \/ (pc = "idle" /\ calls = Len(Load) + MaxOps)
    /\ UNCHANGED mcVars

MCNext == LoadNext \/ AnyCall \/ Run \/ Ended

MCSpec == MCInit /\ [][MCNext]_mcVars

-----------------------------------------------------------------------------
Pages32 == 1 .. 32
TwoVals == {"s", "b"}
TwoLens == [v \in TwoVals |-> IF v = "s" THEN 0 ELSE 2]

Keys == {<<x>> : x \in 0 .. 5} \cup {<<x, y>> : x, y \in 0 .. 5}

Ins(k, v) == Op("insert", k, v, 0)
Del(k)    == Op("remove", k, NoVal, 0)

(* Keys in steps over the whole range, then in the gaps between them, then *)
(* a removal: leaves of all sizes, two levels of inner pages.              *)
Steps   == [i \in 1 .. 24 |-> <<(i * 5) % 6, ((i - 1) \div 6) + 1>>]
Gaps    == << <<0>>, <<1>>, <<4>>, <<4, 0>>, <<4, 5>>, <<5, 0>>, <<5, 5>> >>
LoadAll == [i \in 1 .. 24 |-> Ins(Steps [i], IF i % 3 = 0 THEN "b" ELSE "s")]
             \o [i \in DOMAIN Gaps |-> Ins(Gaps[i], "s")]
             \o <<Del(<<1>>)>>
OpKeys  == {<<0>>, <<1>>, <<1, 0>>, <<1, 1>>, <<2, 0>>, <<3, 3>>, <<4, 2>>, <<5>>, <<5, 4>>}
SomeOps == {o \in InsertOps \cup PointOps : o.kind # "lookup" /\ o.key \in OpKeys}
=============================================================================
