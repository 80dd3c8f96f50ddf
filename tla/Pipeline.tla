-------------------------------- MODULE Pipeline --------------------------------
(***************************************************************************)
(* Ingestion and analysis together: webhook deliveries, poll runs and        *)
(* workers interleave over one database and one task queue.                  *)
(***************************************************************************)
EXTENDS Ingestion, Analysis

vars == <<storeVars, ingestVars, analysisVars>>

TypeOK == StoreTypeOK /\ IngestTypeOK /\ AnalysisTypeOK

Init == StoreInit /\ IngestInit /\ AnalysisInit

Next ==
    \/ IngestNext /\ UNCHANGED analysisVars
    \/ AnalysisNext /\ UNCHANGED ingestVars

Spec == Init /\ [][Next]_vars

\* A started handler, the beat's next poll run and a worker with a message go
\* on; nothing is assumed of what Fineract posts or delivers, nor of faults.
Fairness ==
    /\ \A r \in Requests : WF_vars(RequestStep(r) /\ UNCHANGED analysisVars)
    /\ \A p \in Pollers : WF_vars(PollerStep(p) /\ UNCHANGED analysisVars)
    /\ \A w \in Workers : WF_vars(WorkerStep(w) /\ UNCHANGED ingestVars)

FairSpec == Spec /\ Fairness

-----------------------------------------------------------------------------
(* Safety                                                                    *)

\* However deliveries and polls overlap, a Fineract transaction has one row
\* (overview.md: "duplicate webhooks are detected and skipped").
UniqueRow == \A a, b \in rows : a.tx = b.tx => a = b

\* The poll's order -- commit, then .delay() -- keeps its promise: no task of
\* a polled row is ever in the queue before the row is visible to a worker.
PolledTaskFindsRow ==
    \A m \in queue : m.row.by \in Pollers => m.row \in rows

\* What became of a stored row: it is assessed, a task for it is queued, the
\* session that stored it has yet to dispatch, or its task was given up.
Tracked(row) ==
    \/ risk[row.tx] # None
    \/ \E m \in queue : m.row = row
    \/ row.by \in Pollers /\ poll[row.by] = "dispatch" /\ PollRow(row.by) = row
    \/ row \in dropped

\* A row stored by the poll is never forgotten without a fault that says so.
PolledIsTracked == \A row \in rows : row.by \in Pollers => Tracked(row)

\* One dispatch, one assessment: unless a finished run is repeated, no
\* interleaving of deliveries, polls, retries and lost workers leaves two
\* alerts or two reports of one transaction.
OnceUnlessReplayed ==
    replays = 0 => \A t \in Tx : alerts[t] <= 1 /\ ctrs[t] <= 1

\* A transaction whose level is above low has an alert, or was raised to
\* critical by the screening.
RiskyHasAlert ==
    \A row \in rows : risk[row.tx] \in AlertLevel => alerts[row.tx] >= 1 \/ Hit(row)

\* Whatever fails and is retried, an assessed transaction of a reportable
\* amount has its report.
LargeHasReport ==
    \A t \in Tx : t \in Large /\ risk[t] # None => ctrs[t] >= 1

\* A delivery answered "already processed" is right: the transaction is stored.
DuplicateIsStored ==
    \A r \in Requests : req[r] = "duplicate" => Stored(reqTx[r])

-----------------------------------------------------------------------------
(* Inductive strengthenings, for the proofs                                  *)

\* One row per key, counting the uncommitted ones; a session that has inserted
\* still holds its row, and a poll run about to dispatch has committed it.
KeyInv ==
    /\ \A a, b \in rows \cup open : a.tx = b.tx => a = b
    /\ \A r \in Requests : req[r] \in {"dispatch", "commit"} => RequestRow(r) \in open
    /\ \A p \in Pollers : poll[p] = "commit" => PollRow(p) \in open
    /\ \A p \in Pollers : poll[p] = "dispatch" => PollRow(p) \in rows

\* Every task of a polled row, queued or held by a worker, is of a stored row.
TaskInv ==
    /\ PolledTaskFindsRow
    /\ \A w \in Workers :
          work[w] # "idle" /\ held[w].row.by \in Pollers => held[w].row \in rows

\* What a run that has assessed its row knows of it.
RunInv ==
    /\ \A w \in Workers : work[w] \in {"commit", "dispose"} => held[w].row \in rows
    /\ \A w \in Workers : work[w] = "dispose" => risk[held[w].row.tx] # None
    /\ \A w \in Workers : work[w] = "commit" =>
          IF alerting[w] THEN level[w] \in AlertLevel
                         ELSE level[w] = "low" \/ (level[w] = "critical" /\ Hit(held[w].row))

\* Only a stored transaction has a level.
LevelInv == \A t \in Tx : risk[t] # None => Stored(t)

\* A message that no run is about to acknowledge: whatever becomes of the runs
\* that hold it, the task goes on.
Pending(m) == m \in queue /\ \A w \in Workers : work[w] = "ack" => held[w] # m

\* As Tracked, by a task that goes on.
Safe(row) ==
    \/ risk[row.tx] # None
    \/ \E m \in queue : Pending(m) /\ m.row = row
    \/ row.by \in Pollers /\ poll[row.by] = "dispatch" /\ PollRow(row.by) = row
    \/ row \in dropped

\* What a run leaves behind when it is about to acknowledge: a later try of its
\* task that goes on, a level, or a task given up.
Settled(w) ==
    \/ risk[held[w].row.tx] # None
    \/ \E m \in queue : Pending(m) /\ m.row = held[w].row /\ m.try > held[w].try
    \/ held[w].row \in dropped

TrackInv ==
    /\ \A row \in rows : row.by \in Pollers => Safe(row)
    /\ \A w \in Workers :
          work[w] = "ack" /\ held[w].row.by \in Pollers => Settled(w)

\* A message that can still be run to its end: no run of it is past its commit, and none
\* is about to acknowledge it.
Live(m) == m \in queue /\ \A w \in Workers : work[w] \in {"dispose", "ack"} => held[w] # m

\* What each worker holds, before any run is repeated: a message of its own.
HeldInv ==
    /\ \A w \in Workers : work[w] # "idle" => held[w] \in queue
    /\ \A v, w \in Workers :
          work[v] # "idle" /\ work[w] # "idle" /\ held[v] = held[w] => v = w

\* A row has one task that can still assess it, the latest of its tries, and none once it
\* is assessed.
OneTaskInv ==
    /\ \A m, n \in queue : Live(m) /\ m.row = n.row /\ m # n => n.try < m.try
    /\ \A m \in queue : Live(m) /\ m.row \in rows => risk[m.row.tx] = None

\* A session publishes its row's task once.
DispatchInv ==
    /\ \A m \in queue : m.row.by \in Requests =>
          req[m.row.by] \notin {"idle", "lookup", "flush", "dispatch"}
    /\ \A row \in rows : row.by \in Requests => req[row.by] = "accepted"
    /\ \A p \in Pollers : poll[p] \in {"commit", "dispatch"} =>
          risk[item[p]] = None /\ \A m \in queue : m.row # PollRow(p)

\* What an assessment has written, it has written once.
CountInv ==
    \A t \in Tx : /\ alerts[t] <= 1 /\ ctrs[t] <= 1
                  /\ risk[t] = None => alerts[t] = 0 /\ ctrs[t] = 0

OnceInv == replays = 0 => HeldInv /\ OneTaskInv /\ DispatchInv /\ CountInv

-----------------------------------------------------------------------------
(* The book of transactions that this implements                              *)

Book == INSTANCE TransactionBook WITH
            stored <- {row.tx : row \in rows}, NoLevel <- None

\* Every step is a step of the abstract book or invisible to it.
BookSpec == Book!Spec

-----------------------------------------------------------------------------
(* Liveness                                                                   *)

\* The safety net: with the poll running, every valid transaction is stored,
\* whether or not a webhook for it arrives, as long as the page is long enough.
PostedIsStored ==
    \A t \in Tx \ Invalid : (posted >= t) ~> Stored(t)

\* A polled row is assessed in the end, or its task was given up by a fault.
PolledIsAssessed ==
    \A t \in Tx, p \in Pollers :
        ([tx |-> t, by |-> p] \in rows) ~>
            (risk[t] # None \/ [tx |-> t, by |-> p] \in dropped)

-----------------------------------------------------------------------------
(* What the documents say and the code does not keep                          *)

\* "Transaction analysis tasks -- triggered for every incoming transaction."
EveryRowTracked == \A row \in rows : Tracked(row)

================================================================================
