-------------------------------- MODULE MCLedger --------------------------------
(***************************************************************************)
(* An instance of FraudLedger for TLC.  Amounts and times are scaled down: an   *)
(* hour is one unit and a day three, five units of money are the large amount.  *)
(***************************************************************************)
EXTENDS FraudLedger, TLC

CONSTANTS a, d, e, i1, i2, s1, s2, s3, s4

Tx(account, kind, amount, cp, ip, agent, night) ==
    [id |-> 0, account |-> account, kind |-> kind, amount |-> amount, cp |-> cp, ip |-> ip,
     agent |-> agent, night |-> night, date |-> 0]

\* One account: money to and from one party and another, two addresses, an agent.
OneAccount ==
    {Tx(a, "transfer", 4, e, i1, None, FALSE), Tx(a, "deposit", 4, e, i2, None, TRUE),
     Tx(a, "withdrawal", 8, None, i1, e, FALSE), Tx(a, "transfer", 3, d, i1, None, FALSE)}

\* Four accounts that pay one party.
Smurfs == {Tx(x, "transfer", 3, e, None, None, FALSE) : x \in {s1, s2, s3, s4}}

MCCases ==
    {[models |-> "none", graphOn |-> FALSE, rows |-> 3, lateness |-> {0, 2}, payloads |-> OneAccount],
     [models |-> "none", graphOn |-> FALSE, rows |-> 4, lateness |-> {0}, payloads |-> Smurfs],
     [models |-> "anomaly", graphOn |-> FALSE, rows |-> 2, lateness |-> {0, 2}, payloads |-> Smurfs],
     [models |-> "both", graphOn |-> TRUE, rows |-> 2, lateness |-> {0, 2}, payloads |-> OneAccount]}

Symmetry == Permutations({s1, s2, s3, s4})

================================================================================
