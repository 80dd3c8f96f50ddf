-------------------------------- MODULE RuleEngine ------------------------------
(***************************************************************************)
(* The detection rules: what each says of a row of the transactions table,    *)
(* given the histories that the caller has read.  A history is a set of rows,  *)
(* a severity a number of hundredths, 0 of a rule that does not trigger.      *)
(***************************************************************************)
EXTENDS Integers, FiniteSets, FiniteSetsExt

CONSTANTS
    MaxAmount,          \* settings.max_transaction_amount
    StructuringAmount,  \* settings.structuring_threshold
    RapidCount,         \* settings.rapid_transaction_count
    AgentRapidCount,    \* settings.rapid_transaction_count_agent
    AgentFloat,         \* settings.agent_float_volume_minimum
    RoundAmount,        \* 1000 XAF
    Day,                \* 24 hours
    None

ASSUME RuleAssumption ==
    /\ {MaxAmount, StructuringAmount, RapidCount, AgentRapidCount, AgentFloat, RoundAmount, Day}
           \subseteq Nat \ {0}
    /\ StructuringAmount <= MaxAmount

Rule ==
    {"large_amount", "structuring", "rapid_transactions", "round_number", "unusual_hours",
     "high_velocity_volume", "new_ip_address", "circular_transfer", "new_counterparty_transfer",
     "rapid_pair_transfers", "cross_account_structuring", "agent_rapid_transactions",
     "agent_float_volume"}

Cap(x) == IF x > 100 THEN 100 ELSE x
When(triggered, severity) == IF triggered THEN severity ELSE 0

\* min(value / (threshold * times), 1.0) of a rule whose value reaches its threshold.
Reached(value, threshold, times) ==
    When(value >= threshold, Cap((100 * value) \div (times * threshold)))

Volume(history) == MapThenSumSet(LAMBDA u : u.amount, history)
Others(t, history) == {u \in history : u.id # t.id}
With(cp, history) == {u \in history : u.cp = cp}

LargeAmount(t) == Reached(t.amount, MaxAmount, 2)
Structuring(t) == When(t.amount >= StructuringAmount /\ t.amount < MaxAmount, 70)
RapidTransactions(h1) == Reached(Cardinality(h1), RapidCount, 2)
RoundNumber(t) == When(t.amount >= RoundAmount /\ t.amount % RoundAmount = 0, 30)
UnusualHours(t) == When(t.night, 40)

\* The row itself is added to a history that may already hold it.
Velocity(t, h1) == Reached(Volume(h1) + t.amount, 3 * MaxAmount, 2)

NewIp(t, h24) ==
    LET known == {u.ip : u \in h24} \ {None}
    IN  When(t.ip # None /\ known # {} /\ t.ip \notin known, 50)

\* Mutant: only deposits come in.
CircularDepositsOnly(t, h24) ==
    When(/\ t.kind = "deposit" /\ t.cp # None
         /\ \E u \in With(t.cp, Others(t, h24)) :
               u.kind = "withdrawal" /\ u.amount = t.amount,
         70)

\* An incoming row with a similar outgoing one to the same party; a transfer
\* counts as both.
CircularTransfer(t, h24) ==
    When(/\ t.kind \in {"deposit", "transfer"} /\ t.cp # None
         /\ \E u \in With(t.cp, Others(t, h24)) :
               /\ u.kind \in {"withdrawal", "transfer"}
               /\ t.date - u.date < Day /\ u.date - t.date < Day
               /\ 5 * (u.amount - t.amount) < t.amount /\ 5 * (t.amount - u.amount) < t.amount,
         70)

NewCounterparty(t, h24) ==
    LET known == {u.cp : u \in Others(t, h24)} \ {None}
    IN  When(t.kind = "transfer" /\ t.cp # None /\ known # {} /\ t.cp \notin known, 40)

RapidPair(t, h24) ==
    LET count == Cardinality(With(t.cp, Others(t, h24))) + 1
    IN  When(t.kind = "transfer" /\ t.cp # None, Reached(count, 3, 2))

\* Mutant: the senders are looked for in the account's own history.
CrossAccountSelf(t, paid) ==
    When(Cardinality({u.account : u \in {v \in paid : v.account = t.account}}) >= 3, 75)

\* What the beneficiary of the row was paid by at least three other accounts.
CrossAccount(t, paid) ==
    LET senders == {u.account : u \in paid} \ {t.account}
    IN  When(/\ Cardinality(paid) >= 3 /\ Cardinality(senders) >= 3
             /\ Volume(paid) > 2 * StructuringAmount,
             75)

AgentRapid(served) == Reached(Cardinality(served), AgentRapidCount, 2)
AgentFloatVolume(t, served) == Reached(Volume(served) + t.amount, AgentFloat, 3)

\* RuleEngine.evaluate: h1 and h24 are the account's last hour and day, paid the
\* rows that name the same counterparty, served those of the agent.
Evaluate(t, h1, day, paid, served) ==
    LET h24 == IF day = {} THEN h1 ELSE day
    IN  [large_amount |-> LargeAmount(t),
         structuring |-> Structuring(t),
         rapid_transactions |-> RapidTransactions(h1),
         round_number |-> RoundNumber(t),
         unusual_hours |-> UnusualHours(t),
         high_velocity_volume |-> Velocity(t, h1),
         new_ip_address |-> NewIp(t, h24),
         circular_transfer |-> CircularTransfer(t, h24),
         new_counterparty_transfer |-> NewCounterparty(t, h24),
         rapid_pair_transfers |-> RapidPair(t, h24),
         cross_account_structuring |-> CrossAccount(t, paid),
         agent_rapid_transactions |-> IF t.agent = None THEN 0 ELSE AgentRapid(served),
         agent_float_volume |-> IF t.agent = None THEN 0 ELSE AgentFloatVolume(t, served)]

Triggered(severity) == {r \in Rule : severity[r] > 0}

\* RuleEngineResult.combined_score: the mean severity and five hundredths for
\* every triggered rule, up to four of them.
CombinedScore(severity) ==
    LET n == Cardinality(Triggered(severity))
        sum == MapThenSumSet(LAMBDA r : severity[r], Triggered(severity))
    IN  IF n = 0 THEN 0 ELSE Cap(sum \div n + (IF n > 4 THEN 20 ELSE 5 * n))

================================================================================
