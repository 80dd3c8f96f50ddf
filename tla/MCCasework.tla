------------------------------ MODULE MCCasework ------------------------------
(***************************************************************************)
(* An instance of Casework for TLC: two alerts, one of them severe, two       *)
(* cases, one of a client, and two analysts.  The task needs two high alerts  *)
(* instead of three.                                                         *)
(***************************************************************************)
EXTENDS Casework, TLC

CONSTANTS a1, a2, c1, c2

MCSevere == {a1}
MCHigh == {a1, a2}
MCOwned == {c1}

Symmetry == Permutations(Analysts)

================================================================================
