-------------------------------- MODULE MCCredit --------------------------------
(***************************************************************************)
(* Instances of CreditDesk for TLC: scores of two in one tier and one in the  *)
(* next, and an amount that only the better tier backs.                       *)
(***************************************************************************)
EXTENDS CreditDesk, TLC

CONSTANTS c1

MCScores == [c \in Clients |-> IF c = c1 THEN {70, 75, 85} ELSE {85}]
MCAmounts == {800}

Symmetry == Permutations(Calls)

================================================================================
