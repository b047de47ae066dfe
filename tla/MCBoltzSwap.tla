------------------------------ MODULE MCBoltzSwap ------------------------------
(***************************************************************************)
(* Instances of BoltzSwap for TLC: which tasks work on the swap.           *)
(***************************************************************************)
EXTENDS BoltzSwap, TLC

CONSTANTS p1, p2, r1, o1

OneMessage == {p1}
TwoMessages == {p1, p2}
Pass == {r1}
Operator == {o1}
NoOperator == {}
AllRequests == {"cancel", "coop", "unilateral"}
NoRequests == {}
Symmetry == Permutations(TwoMessages)
=============================================================================
