---------------------------- MODULE MCMultiTree ------------------------------
(* The instance of MultiTree for TLC.                                      *)
EXTENDS MultiTree, TLC

SmallAndLarge == [t \in Types |-> IF t = "small" THEN 1 ELSE 2]
SecondOrThirdIsLarge == [i \in 1..5 |-> IF i \in {2, 3} THEN {"small", "large"} ELSE {"small"}]
Renaming == Permutations(NodeKeys)
=============================================================================
