---------------------------- MODULE TransactionBook ----------------------------
(***************************************************************************)
(* What transaction monitoring promises, with no queue, session, worker or  *)
(* crash in sight: a Fineract transaction is entered in the book at most    *)
(* once, and an assessment appears in one piece -- the risk level, the       *)
(* alert that goes with the computed score and the currency transaction      *)
(* report of a large amount become visible together, and only for a         *)
(* transaction that is in the book.                                          *)
(*                                                                         *)
(* A stored transaction may be assessed again (a task may be delivered more  *)
(* than once); the book then shows the last level, and one more alert or     *)
(* report.                                                                   *)
(***************************************************************************)
EXTENDS Naturals

CONSTANTS
    Tx,         \* the Fineract transaction ids
    Large,      \* those whose amount reaches settings.ctr_threshold
    NoLevel     \* risk_level is NULL

VARIABLES
    stored,     \* the ids that have a row in the transactions table
    risk,       \* transactions.risk_level
    alerts,     \* number of alerts rows of each transaction
    ctrs        \* number of currency_transaction_reports rows of each

bookVars == <<stored, risk, alerts, ctrs>>

\* Medium and high are one level here: nothing that follows tells them apart.
RiskLevel == {"low", "raised", "critical"}

\* An alert is raised when the score reaches settings.risk_score_medium, the
\* lower bound of the medium level.
AlertLevel == RiskLevel \ {"low"}

Init ==
    /\ stored = {}
    /\ risk = [t \in Tx |-> NoLevel]
    /\ alerts = [t \in Tx |-> 0]
    /\ ctrs = [t \in Tx |-> 0]

Register(t) ==
    /\ t \notin stored
    /\ stored' = stored \cup {t}
    /\ UNCHANGED <<risk, alerts, ctrs>>

\* The level that is stored is the computed one or, on a watchlist match,
\* critical; the alert follows the computed one.
Assess(t) ==
    /\ t \in stored
    /\ \E computed \in RiskLevel :
          /\ \E level \in {computed, "critical"} : risk' = [risk EXCEPT ![t] = level]
          /\ alerts' = [alerts EXCEPT ![t] = @ + (IF computed \in AlertLevel THEN 1 ELSE 0)]
    /\ ctrs' = [ctrs EXCEPT ![t] = @ + (IF t \in Large THEN 1 ELSE 0)]
    /\ UNCHANGED stored

Next == \E t \in Tx : Register(t) \/ Assess(t)

Spec == Init /\ [][Next]_bookVars

================================================================================
