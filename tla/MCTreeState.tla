---------------------------- MODULE MCTreeState -----------------------------
(* Two filter types on which the tree operations differ: a data source and   *)
(* a range filter, the latter with two settings it accepts and one it does   *)
(* not.  What has been stashed or saved is a data source with its child.     *)
EXTENDS TreeState

CONSTANTS d1, r1, r2, r3

MCKind == [v \in {d1, r1, r2, r3} |-> IF v = d1 THEN "data" ELSE "range"]
MCStashes == {<<[depth |-> 0, val |-> d1], [depth |-> 1, val |-> r1]>>}
=============================================================================
