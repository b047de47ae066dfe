--------------------------- MODULE MCBraiinsDeposit ---------------------------
(***************************************************************************)
(* The instance of BraiinsDeposit for TLC.                                 *)
(***************************************************************************)
EXTENDS BraiinsDeposit

CONSTANTS d1, o1

OneDriver == {d1}
User == {o1}
TwoSwaps == {1, 2}
=============================================================================
