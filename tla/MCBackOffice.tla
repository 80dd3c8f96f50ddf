------------------------------ MODULE MCBackOffice ------------------------------
(***************************************************************************)
(* An instance of BackOffice for TLC.  The amounts of a history are in units of    *)
(* 50 000 XAF, those of a loan in tenths of it; a ring is two accounts, not three.   *)
(***************************************************************************)
EXTENDS BackOffice, TLC

CONSTANTS a, b, c, d, e, t1, t2, t3, u1, u2, x1, x2

MCMoves ==
    {<<"deposit", 2>>, <<"withdrawal", 1>>, <<"loan_disbursement", 4>>, <<"loan_repayment", 3>>}

Movement(nr, kind, tenths, to, early) ==
    [nr |-> nr, kind |-> kind, tenths |-> tenths, to |-> to, early |-> early]

MCConducts ==
    {Movement(1, "transfer", 3, a, FALSE), Movement(2, "transfer", 3, b, FALSE),
     Movement(3, "transfer", 2, c, FALSE)}

Transaction(nr, account, device, to) == [nr |-> nr, account |-> account, device |-> device, to |-> to]

MCTransactions ==
    {Transaction(1, a, d, None), Transaction(2, b, d, c), Transaction(3, c, d, None)}

Row(id, account, label, stamp) == [id |-> id, account |-> account, label |-> label, stamp |-> stamp]

MCClients ==
    {[country |-> "other", entity |-> FALSE], [country |-> "other", entity |-> TRUE],
     [country |-> "high", entity |-> FALSE], [country |-> "critical", entity |-> FALSE]}

MCFiles ==
    {<<Row(1, a, 1, 2), Row(2, b, 0, 1), Bad, Row(1, a, 1, 1), Row(3, c, 0, 1)>>,
     <<Row(2, d, 1, 1), Row(4, a, 0, 3), Row(5, b, 0, 2), Row(6, d, 1, 1)>>}

Symmetry == Permutations({t1, t2, t3}) \cup Permutations({x1, x2})

================================================================================
