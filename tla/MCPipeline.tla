------------------------------ MODULE MCPipeline ------------------------------
(***************************************************************************)
(* Instances of Pipeline for TLC.  The safety instance has one transaction,  *)
(* large and with a counterparty on the watchlist, that two deliveries, a    *)
(* poll and two workers race for; deliveries and workers are symmetric.  The *)
(* liveness instance has a second transaction, refused, ahead of it in every *)
(* page of the poll.                                                         *)
(***************************************************************************)
EXTENDS Pipeline, TLC

MCNone == {}
MCAll == Tx
MCInvalid == {2}

Symmetry == Permutations(Requests) \cup Permutations(Workers)

================================================================================
