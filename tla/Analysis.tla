-------------------------------- MODULE Analysis --------------------------------
(***************************************************************************)
(* The Celery workers that run analyze_transaction.  A run reads the row,    *)
(* computes a score, writes everything in one database transaction, disposes  *)
(* of its engine and acknowledges the message (task_acks_late).  An exception *)
(* anywhere before the acknowledgement goes to self.retry().                  *)
(*                                                                         *)
(* What the rules, the models and the graph make of the history is data here: *)
(* the level of the computed score is any level, a new one at each run.  The   *)
(* watchlist is fixed.  Broker and worker-process failures follow Celery's     *)
(* documented behaviour for the settings of celery_app.py.                     *)
(***************************************************************************)
EXTENDS PipelineStore

CONSTANTS
    Workers,      \* worker processes (prefetch 1: one message each)
    MaxReplays,   \* bound: runs of a task that has already run to its end
    Large,        \* ids whose amount reaches ctr_threshold
    Listed,       \* ids whose counterparty name is on the watchlist
    None

VARIABLES
    work,         \* where each worker stands
    held,         \* the message it runs
    level,        \* the risk level its session has set
    alerting,     \* its session has added an alert
    risk,         \* committed risk_level of each transaction
    alerts,       \* committed alerts of each transaction
    ctrs,         \* committed reports of each transaction
    replays       \* runs repeated after their end (bounds the behaviours)

workVars == <<work, held, level, alerting>>
outputVars == <<risk, alerts, ctrs>>
analysisVars == <<workVars, outputVars, replays>>

\* Medium and high are one level here: nothing that follows tells them apart.
RiskLevel == {"low", "raised", "critical"}

\* create_alert_if_needed: a score of at least risk_score_medium, the bound
\* between low and medium in update_risk_score.
AlertLevel == RiskLevel \ {"low"}

ASSUME AnalysisAssumption ==
    /\ MaxReplays \in Nat
    /\ Large \subseteq Tx
    /\ Listed \subseteq Tx
    /\ None \notin RiskLevel

WorkStep == {"idle", "load", "commit", "dispose", "ack"}

AnalysisTypeOK ==
    /\ work \in [Workers -> WorkStep]
    /\ held \in [Workers -> Msg \cup {None}]
    /\ \A w \in Workers : work[w] # "idle" => held[w] \in Msg
    /\ level \in [Workers -> RiskLevel \cup {None}]
    /\ \A w \in Workers : work[w] = "commit" => level[w] \in RiskLevel
    /\ alerting \in [Workers -> BOOLEAN]
    /\ risk \in [Tx -> RiskLevel \cup {None}]
    /\ alerts \in [Tx -> Nat]
    /\ ctrs \in [Tx -> Nat]
    /\ replays \in Nat

AnalysisInit ==
    /\ work = [w \in Workers |-> "idle"]
    /\ held = [w \in Workers |-> None]
    /\ level = [w \in Workers |-> None]
    /\ alerting = [w \in Workers |-> FALSE]
    /\ risk = [t \in Tx |-> None]
    /\ alerts = [t \in Tx |-> 0]
    /\ ctrs = [t \in Tx |-> 0]
    /\ replays = 0

Replay == replays < MaxReplays /\ replays' = replays + 1

\* The worker is free again, whatever it held.
Free(w) ==
    /\ work' = [work EXCEPT ![w] = "idle"]
    /\ held' = [held EXCEPT ![w] = None]
    /\ level' = [level EXCEPT ![w] = None]
    /\ alerting' = [alerting EXCEPT ![w] = FALSE]

Busy(m) == \E w \in Workers : held[w] = m

Begin(w, m) ==
    /\ work[w] = "idle"
    /\ work' = [work EXCEPT ![w] = "load"]
    /\ held' = [held EXCEPT ![w] = m]
    /\ UNCHANGED <<level, alerting, outputVars, storeVars>>

Take(w) ==
    \E m \in queue : ~Busy(m) /\ Begin(w, m) /\ UNCHANGED replays

\* Redis hands an unacknowledged message out again after its visibility timeout.
TimeoutDelivery(w) ==
    \E m \in queue : Busy(m) /\ Begin(w, m) /\ Replay

\* "Transaction %s not found": the task returns, and is acknowledged.
NotFound(w) ==
    /\ work[w] = "load"
    /\ held[w].row \notin rows
    /\ work' = [work EXCEPT ![w] = "ack"]
    /\ UNCHANGED <<held, level, alerting, outputVars, replays, storeVars>>

\* update_risk_score flushes an UPDATE, which waits for the row lock.
RowFree(row) == \A w \in Workers : work[w] = "commit" => held[w].row # row

\* The poll stores no counterparty name, so only a row of the webhook can match.
Hit(row) == row.tx \in Listed /\ row.by \in Requests

\* Mutant: the alert threshold is that of the critical level.
AssessAlertsLate(w) ==
    /\ work[w] = "load"
    /\ held[w].row \in rows
    /\ RowFree(held[w].row)
    /\ \E computed \in RiskLevel :
          /\ alerting' = [alerting EXCEPT ![w] = computed = "critical"]
          /\ level' = [level EXCEPT ![w] =
                          IF Hit(held[w].row) THEN "critical" ELSE computed]
    /\ work' = [work EXCEPT ![w] = "commit"]
    /\ UNCHANGED <<held, outputVars, replays, storeVars>>

\* Mutant: update_risk_score is called only after a watchlist match.
AssessSetsNoLevel(w) ==
    /\ work[w] = "load"
    /\ held[w].row \in rows
    /\ RowFree(held[w].row)
    /\ \E computed \in RiskLevel :
          alerting' = [alerting EXCEPT ![w] = computed \in AlertLevel]
    /\ level' = [level EXCEPT ![w] = IF Hit(held[w].row) THEN "critical" ELSE None]
    /\ work' = [work EXCEPT ![w] = "commit"]
    /\ UNCHANGED <<held, outputVars, replays, storeVars>>

\* Mutant: update_risk_score commits, ahead of the alert and the report.
AssessCommitsLevel(w) ==
    /\ work[w] = "load"
    /\ held[w].row \in rows
    /\ RowFree(held[w].row)
    /\ \E computed \in RiskLevel :
          /\ alerting' = [alerting EXCEPT ![w] = computed \in AlertLevel]
          /\ level' = [level EXCEPT ![w] =
                          IF Hit(held[w].row) THEN "critical" ELSE computed]
    /\ risk' = [risk EXCEPT ![held[w].row.tx] = level'[w]]
    /\ work' = [work EXCEPT ![w] = "commit"]
    /\ UNCHANGED <<held, alerts, ctrs, replays, storeVars>>

\* Steps 2 to 12 of _analyze up to the commit: score, risk level, alert, and
\* then the screening, which raises the level but adds no alert.
Assess(w) ==
    /\ work[w] = "load"
    /\ held[w].row \in rows
    /\ RowFree(held[w].row)
    /\ \E computed \in RiskLevel :
          /\ alerting' = [alerting EXCEPT ![w] = computed \in AlertLevel]
          /\ level' = [level EXCEPT ![w] =
                          IF Hit(held[w].row) THEN "critical" ELSE computed]
    /\ work' = [work EXCEPT ![w] = "commit"]
    /\ UNCHANGED <<held, outputVars, replays, storeVars>>

\* Mutant: the report is generated with the alert.
FinishReportsAlerts(w) ==
    LET t == held[w].row.tx IN
    /\ work[w] = "commit"
    /\ risk' = [risk EXCEPT ![t] = level[w]]
    /\ alerts' = [alerts EXCEPT ![t] = @ + (IF alerting[w] THEN 1 ELSE 0)]
    /\ ctrs' = [ctrs EXCEPT ![t] = @ + (IF alerting[w] /\ t \in Large THEN 1 ELSE 0)]
    /\ work' = [work EXCEPT ![w] = "dispose"]
    /\ UNCHANGED <<held, level, alerting, replays, storeVars>>

\* The one commit of a run.
Finish(w) ==
    LET t == held[w].row.tx IN
    /\ work[w] = "commit"
    /\ risk' = [risk EXCEPT ![t] = level[w]]
    /\ alerts' = [alerts EXCEPT ![t] = @ + (IF alerting[w] THEN 1 ELSE 0)]
    /\ ctrs' = [ctrs EXCEPT ![t] = @ + (IF t \in Large THEN 1 ELSE 0)]
    /\ work' = [work EXCEPT ![w] = "dispose"]
    /\ UNCHANGED <<held, level, alerting, replays, storeVars>>

Dispose(w) ==
    /\ work[w] = "dispose"
    /\ work' = [work EXCEPT ![w] = "ack"]
    /\ UNCHANGED <<held, level, alerting, outputVars, replays, storeVars>>

Ack(w) ==
    /\ work[w] = "ack"
    /\ queue' = queue \ {held[w]}
    /\ Free(w)
    /\ UNCHANGED <<outputVars, replays, rows, open, dropped, faults>>

\* Mutant: the exception is logged and not handed to self.retry().
RaiseSwallowed(w) ==
    /\ work[w] \in {"load", "commit", "dispose"}
    /\ Fault
    /\ work' = [work EXCEPT ![w] = "ack"]
    /\ UNCHANGED <<held, level, alerting, outputVars, replays, rows, open, queue, dropped>>

Again(m) == [row |-> m.row, try |-> m.try + 1]

\* self.retry() publishes the task again with its count raised, or gives it up
\* after the last try; either way this message is then acknowledged.  Raised
\* after the commit (by the engine's disposal), the retry repeats the run.
Raise(w) ==
    /\ work[w] \in {"load", "commit", "dispose"}
    /\ Fault
    /\ IF held[w].try < MaxRetries
          THEN /\ queue' = queue \cup {Again(held[w])}
               /\ UNCHANGED dropped
          ELSE /\ dropped' = dropped \cup {held[w].row}
               /\ UNCHANGED queue
    /\ IF work[w] = "dispose" THEN Replay ELSE UNCHANGED replays
    /\ work' = [work EXCEPT ![w] = "ack"]
    /\ UNCHANGED <<held, level, alerting, outputVars, rows, open>>

\* The worker dies.  Its whole node: the message is delivered again.
NodeLost(w) ==
    /\ work[w] # "idle"
    /\ Fault
    /\ IF work[w] \in {"dispose", "ack"} THEN Replay ELSE UNCHANGED replays
    /\ Free(w)
    /\ UNCHANGED <<outputVars, rows, open, queue, dropped>>

\* Only its child process: task_reject_on_worker_lost is off, so the message is
\* acknowledged and the task is not run again.
ChildLost(w) ==
    /\ work[w] # "idle"
    /\ Fault
    /\ queue' = queue \ {held[w]}
    /\ dropped' = dropped \cup {held[w].row}
    /\ Free(w)
    /\ UNCHANGED <<outputVars, replays, rows, open>>

WorkerStep(w) ==
    Take(w) \/ NotFound(w) \/ Assess(w) \/ Finish(w) \/ Dispose(w) \/ Ack(w)

AnalysisNext ==
    \E w \in Workers :
        WorkerStep(w) \/ TimeoutDelivery(w) \/ Raise(w) \/ NodeLost(w) \/ ChildLost(w)

================================================================================
