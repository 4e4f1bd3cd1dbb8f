--------------------------- MODULE MCCheckedTree ----------------------------
(***************************************************************************)
(* CheckedTree for TLC: keys that are prefixes of one another, pages that  *)
(* hold two to four records, any sequence of calls.                        *)
(***************************************************************************)
EXTENDS CheckedTree

(* A process that has died stays dead.                                     *)
Dead ==
    /\ failed # NoOp \/ pc \in {"abort", "assert"}
    /\ UNCHANGED checkedVars

MCNext == CheckedNext \/ Dead

MCSpec == CheckedInit /\ [][MCNext]_checkedVars

-----------------------------------------------------------------------------
SmallKeys == {<<0>>, <<0, 1>>, <<1>>, <<1, 0>>, <<1, 1>>}
TwoVals   == {"s", "b"}
TwoLens   == [v \in TwoVals |-> IF v = "s" THEN 0 ELSE 3]
Pages16   == 1 .. 16
=============================================================================
