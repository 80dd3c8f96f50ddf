------------------------------ MODULE CreditHistory -----------------------------
(***************************************************************************)
(* What a client's history comes to: the features of the last 180 days, their  *)
(* weighted score and its tier.  CreditDesk takes the score as given; here it is *)
(* computed, from the movements of the client and the fraud alerts that          *)
(* compliance has confirmed, as time passes.                                 *)
(*                                                                         *)
(* Time is counted in months of thirty days, money in units of 50 000 XAF, the   *)
(* scale of the net flow's sigmoid; components are in hundredths.  Features that   *)
(* only the cluster model reads (extremes, diversity, trends, transfers, round     *)
(* trips) are left out: they do not enter the score.                          *)
(***************************************************************************)
EXTENDS Integers, Sequences, FiniteSets, FiniteSetsExt, Functions, Absent

CONSTANTS
    Moves,              \* <<kind, amount>> of the client's transactions
    MinTransactions,    \* settings.credit_min_transactions
    FraudAlerts,        \* the client's alerts
    Pause,              \* months from one moment to the next
    MaxMonths,          \* bound: the clock
    MaxMoves            \* bound: transactions

VARIABLES
    month,
    moves,              \* the transactions, each [kind, amount, month]
    alerts              \* each alert: when it was created and whether it is confirmed

creditVars == <<month, moves, alerts>>

ASSUME HistoryAssumption ==
    /\ Moves \subseteq STRING \X (Nat \ {0}) /\ IsFiniteSet(FraudAlerts)
    /\ MinTransactions \in Nat /\ Pause \in Nat /\ MaxMonths \in Nat /\ MaxMoves \in Nat

Posting == {[kind |-> m[1], amount |-> m[2], month |-> t] : m \in Moves, t \in 0 .. MaxMonths}

CreditTypeOK ==
    /\ month \in 0 .. MaxMonths
    /\ moves \in Seq(Posting) /\ Len(moves) <= MaxMoves
    /\ \A i \in DOMAIN moves : moves[i].month <= month
    /\ alerts \in [FraudAlerts -> [created : 0 .. MaxMonths, confirmed : BOOLEAN] \cup {None}]
    /\ \A x \in FraudAlerts : alerts[x] # None => alerts[x].created <= month

CreditInit ==
    /\ month = 0 /\ moves = <<>>
    /\ alerts = [x \in FraudAlerts |-> None]

-----------------------------------------------------------------------------
(* Features                                                                  *)

Least(x, y) == IF x <= y THEN x ELSE y
Positive(x) == IF x < 0 THEN 0 ELSE x

\* get_client_transactions: the last 180 days.
Recent == {i \in DOMAIN moves : moves[i].month >= month - 6}
Amounts == [i \in DOMAIN moves |-> moves[i].amount]
Total(kind, S) == SumFunctionOnSet(Amounts, {i \in S : moves[i].kind = kind})

\* _monthly_totals: the months with a movement of the kind, not those without.
MonthlyTotals(kind) ==
    [m \in {moves[i].month : i \in {j \in Recent : moves[j].kind = kind}} |->
        Total(kind, {i \in Recent : moves[i].month = m})]

\* The mean over the active months.
Monthly(kind) ==
    LET totals == MonthlyTotals(kind)
    IN  IF DOMAIN totals = {} THEN 0
        ELSE SumFunction(totals) \div Cardinality(DOMAIN totals)

\* The integer square root: the numbers whose square is no more.
Root(x) == Cardinality({r \in 1 .. x : r * r <= x})

\* One less the deviation of the active months over their mean; 0.5 of one month.
DepositConsistency ==
    LET totals == MonthlyTotals("deposit")
        n == Cardinality(DOMAIN totals)
        sum == SumFunction(totals)
        squares == SumFunction([m \in DOMAIN totals |-> totals[m] * totals[m]])
    IN  IF n <= 1 THEN 50 ELSE Positive(100 - (100 * Root(n * squares - sum * sum)) \div sum)

NetFlow == Monthly("deposit") - Monthly("withdrawal")

\* 1 / (1 + exp(-x)) in hundredths.
Sigmoid(x) ==
    LET upper == <<73, 88, 95, 98>>
        half(y) == IF y > 4 THEN 99 ELSE IF y = 0 THEN 50 ELSE upper[y]
    IN  IF x >= 0 THEN half(x) ELSE 100 - half(-x)

SavingsRate ==
    IF Monthly("deposit") = 0 THEN 0
    ELSE Least(100, Positive((100 * NetFlow) \div Monthly("deposit")))

\* Since the client's first transaction, in the window or not.
AccountAge ==
    IF moves = <<>> THEN 0 ELSE month - Min({moves[i].month : i \in DOMAIN moves})

\* Transactions per active month, 30 of them are the full mark.
Frequency ==
    LET active == IF AccountAge > 1 THEN AccountAge ELSE 1
    IN  Least(100, (100 * Cardinality(Recent)) \div (30 * active))

\* Unknown of a client that has no loan in the window.
RepaymentRate ==
    IF Total("loan_disbursement", Recent) = 0 THEN 50
    ELSE Least(100, (100 * Total("loan_repayment", Recent))
                        \div Total("loan_disbursement", Recent))

Confirmed == {x \in FraudAlerts : alerts[x] # None /\ alerts[x].confirmed}

\* Mutant: the oldest confirmed alert says how long the client has been clean.
DaysSinceFraudOldest ==
    IF Confirmed = {} THEN 365 ELSE 30 * (month - Min({alerts[x].created : x \in Confirmed}))

\* get_fraud_alert_info: since the latest confirmed alert was created.
DaysSinceFraud ==
    IF Confirmed = {} THEN 365 ELSE 30 * (month - Max({alerts[x].created : x \in Confirmed}))

FraudHistory ==
    (Positive(100 - 20 * Cardinality(Confirmed)) * Least(100, (100 * DaysSinceFraud) \div 365))
        \div 100

\* CreditScorer.score, in ten-thousandths; a client with too few transactions in the
\* window has no score.
CreditScore ==
    IF Cardinality(Recent) < MinTransactions THEN 0
    ELSE 20 * DepositConsistency + 20 * Sigmoid(NetFlow) + 15 * SavingsRate + 10 * Frequency
         + 10 * Least(100, (100 * 30 * AccountAge) \div 365) + 15 * RepaymentRate
         + 10 * FraudHistory

-----------------------------------------------------------------------------

Transact(kind, amount) ==
    /\ Len(moves) < MaxMoves
    /\ moves' = Append(moves, [kind |-> kind, amount |-> amount, month |-> month])
    /\ UNCHANGED <<month, alerts>>

RaiseFraudAlert(x) ==
    /\ alerts[x] = None
    /\ alerts' = [alerts EXCEPT ![x] = [created |-> month, confirmed |-> FALSE]]
    /\ UNCHANGED <<month, moves>>

\* The status may be set to confirmed_fraud long after the alert was created.
ConfirmFraud(x) ==
    /\ alerts[x] # None /\ ~alerts[x].confirmed
    /\ alerts' = [alerts EXCEPT ![x].confirmed = TRUE]
    /\ UNCHANGED <<month, moves>>

TimePasses ==
    /\ month + Pause <= MaxMonths /\ month' = month + Pause
    /\ UNCHANGED <<moves, alerts>>

CreditNext ==
    \/ \E m \in Moves : Transact(m[1], m[2])
    \/ \E x \in FraudAlerts : RaiseFraudAlert(x)
    \/ \E x \in FraudAlerts : ConfirmFraud(x)
    \/ TimePasses

HistorySpec == CreditInit /\ [][CreditNext]_creditVars

-----------------------------------------------------------------------------
(* Properties                                                                *)

\* The score answers to conduct: confirming a fraud alert never raises it, in whatever
\* order alerts of different age are confirmed, and a loan repayment never lowers it
\* (credit_service.py:63-95, credit_scorer.py:109-118, credit_extractor.py:193-198).
ScoreAnswersToConduct ==
    [][/\ (\E x \in FraudAlerts : ConfirmFraud(x)) => CreditScore' <= CreditScore
       /\ (\E m \in Moves : m[1] = "loan_repayment" /\ Transact(m[1], m[2]))
              => CreditScore' >= CreditScore]_creditVars

================================================================================
