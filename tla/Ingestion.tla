------------------------------- MODULE Ingestion -------------------------------
(***************************************************************************)
(* How transactions enter the AML database: the webhook handler (one run per *)
(* delivery) and the poll that every 60 seconds fetches the latest page of   *)
(* transactions from Fineract.  Every await of the two is a step of its own. *)
(*                                                                         *)
(* The two differ in one order.  The webhook handler calls .delay() and the   *)
(* session dependency commits after the handler has returned; the poll        *)
(* commits first and calls .delay() afterwards.                               *)
(***************************************************************************)
EXTENDS PipelineStore

CONSTANT PageSize   \* the "limit" of the poll's query (100 in the code)

VARIABLES
    posted,     \* Fineract has posted the transactions 1..posted
    req,        \* where each webhook delivery stands, or its answer
    reqTx,      \* the transaction it carries (0 before it arrives)
    poll,       \* where each poll run stands
    todo,       \* the ids of the fetched page that it has not come to yet
    item        \* the id it is at

pollVars == <<poll, todo, item>>
ingestVars == <<posted, req, reqTx, pollVars>>

ASSUME IngestionAssumption == PageSize \in Nat \ {0}

ReqStep == {"idle", "lookup", "flush", "dispatch", "commit"}
Answer == {"accepted", "duplicate", "invalid", "error"}
PollStep == {"idle", "lookup", "flush", "commit", "dispatch"}

IngestTypeOK ==
    /\ posted \in 0..NumTx
    /\ req \in [Requests -> ReqStep \cup Answer]
    /\ reqTx \in [Requests -> 0..NumTx]
    /\ \A r \in Requests : req[r] # "idle" => reqTx[r] \in Tx
    /\ poll \in [Pollers -> PollStep]
    /\ todo \in [Pollers -> SUBSET Tx]
    /\ item \in [Pollers -> 0..NumTx]
    /\ \A p \in Pollers : poll[p] \notin {"idle", "lookup"} => item[p] \in Tx

IngestInit ==
    /\ posted = 0
    /\ req = [r \in Requests |-> "idle"]
    /\ reqTx = [r \in Requests |-> 0]
    /\ poll = [p \in Pollers |-> "idle"]
    /\ todo = [p \in Pollers |-> {}]
    /\ item = [p \in Pollers |-> 0]

RequestRow(r) == [tx |-> reqTx[r], by |-> r]

Goto(r, step) == req' = [req EXCEPT ![r] = step]

-----------------------------------------------------------------------------
(* The webhook handler                                                       *)

\* Fineract posts a transaction; the webhook for it may be lost.
Post ==
    /\ posted < NumTx
    /\ posted' = posted + 1
    /\ UNCHANGED <<req, reqTx, pollVars, storeVars>>

\* A delivery arrives, possibly for a transaction that was delivered before.
\* A payload that fails the schema or the data quality check is answered 422.
Receive(r) ==
    /\ req[r] = "idle"
    /\ \E t \in 1..posted :
          /\ reqTx' = [reqTx EXCEPT ![r] = t]
          /\ Goto(r, IF t \in Invalid THEN "invalid" ELSE "lookup")
    /\ UNCHANGED <<posted, pollVars, storeVars>>

\* Mutant: a lookup that also finds rows not committed yet.
LookupDirty(r) ==
    /\ req[r] = "lookup"
    /\ Goto(r, IF Stored(reqTx[r]) \/ ~KeyFree(reqTx[r]) THEN "duplicate" ELSE "flush")
    /\ UNCHANGED <<posted, reqTx, pollVars, storeVars>>

\* The idempotency check of ingest_transaction: is_new is FALSE for a row that
\* is found, and the delivery is answered "already processed".
Lookup(r) ==
    /\ req[r] = "lookup"
    /\ Goto(r, IF Stored(reqTx[r]) THEN "duplicate" ELSE "flush")
    /\ UNCHANGED <<posted, reqTx, pollVars, storeVars>>

\* The INSERT.  A row committed since the lookup violates the unique key; the
\* exception rolls the session back and the delivery is answered 500.
Flush(r) ==
    /\ req[r] = "flush"
    /\ KeyFree(reqTx[r])
    /\ IF Stored(reqTx[r])
          THEN Goto(r, "error") /\ UNCHANGED open
          ELSE Goto(r, "dispatch") /\ open' = open \cup {RequestRow(r)}
    /\ UNCHANGED <<posted, reqTx, pollVars, rows, queue, dropped, faults>>

\* analyze_transaction.delay(), inside the handler.
Dispatch(r) ==
    /\ req[r] = "dispatch"
    /\ queue' = queue \cup {FirstTask(RequestRow(r))}
    /\ Goto(r, "commit")
    /\ UNCHANGED <<posted, reqTx, pollVars, rows, open, dropped, faults>>

\* get_db commits once the handler has returned.
Commit(r) ==
    /\ req[r] = "commit"
    /\ rows' = rows \cup {RequestRow(r)}
    /\ open' = open \ {RequestRow(r)}
    /\ Goto(r, "accepted")
    /\ UNCHANGED <<posted, reqTx, pollVars, queue, dropped, faults>>

\* The handler's process dies, or the database or the broker refuses: the
\* session is rolled back.  Whether the 202 of a failed commit has already been
\* sent depends on the FastAPI version, which requirements.txt leaves open.
RequestFails(r) ==
    /\ req[r] \in ReqStep \ {"idle"}
    /\ Fault
    /\ open' = open \ {RequestRow(r)}
    /\ \/ Goto(r, "error")
       \/ req[r] = "commit" /\ Goto(r, "accepted")
    /\ UNCHANGED <<posted, reqTx, pollVars, rows, queue, dropped>>

-----------------------------------------------------------------------------
(* The poll                                                                  *)

PollRow(p) == [tx |-> item[p], by |-> p]

PollGoto(p, step) == poll' = [poll EXCEPT ![p] = step]

\* GET .../transactions?limit=PageSize&orderBy=id&sortOrder=DESC
PollFetch(p) ==
    /\ poll[p] = "idle"
    /\ todo' = [todo EXCEPT ![p] = {t \in 1..posted : t + PageSize > posted}]
    /\ PollGoto(p, "lookup")
    /\ UNCHANGED <<posted, req, reqTx, item, storeVars>>

\* Mutant: is_new is ignored, an id that is stored is dispatched again.
PollLookupRedispatches(p) ==
    /\ poll[p] = "lookup"
    /\ \E t \in todo[p] :
          /\ \A u \in todo[p] : u <= t
          /\ todo' = [todo EXCEPT ![p] = @ \ {t}]
          /\ IF Stored(t) \/ t \in Invalid
                THEN UNCHANGED <<poll, item>>
                ELSE PollGoto(p, "flush") /\ item' = [item EXCEPT ![p] = t]
          /\ queue' = queue \cup {FirstTask(row) : row \in {s \in rows : s.tx = t}}
    /\ UNCHANGED <<posted, req, reqTx, rows, open, dropped, faults>>

\* Mutant: a refused item ends the run instead of being skipped.
PollLookupStops(p) ==
    /\ poll[p] = "lookup"
    /\ \E t \in todo[p] :
          /\ \A u \in todo[p] : u <= t
          /\ todo' = [todo EXCEPT ![p] = IF t \in Invalid THEN {} ELSE @ \ {t}]
          /\ IF Stored(t) \/ t \in Invalid
                THEN UNCHANGED <<poll, item>>
                ELSE PollGoto(p, "flush") /\ item' = [item EXCEPT ![p] = t]
    /\ UNCHANGED <<posted, req, reqTx, storeVars>>

\* The next item of the page, which is in descending id order.  It is skipped
\* if it is stored or refused.  The code looks the id up twice, in the poll and
\* in ingest_transaction, and does the same whichever of the two finds a row.
PollLookup(p) ==
    /\ poll[p] = "lookup"
    /\ \E t \in todo[p] :
          /\ \A u \in todo[p] : u <= t
          /\ todo' = [todo EXCEPT ![p] = @ \ {t}]
          /\ IF Stored(t) \/ t \in Invalid
                THEN UNCHANGED <<poll, item>>
                ELSE PollGoto(p, "flush") /\ item' = [item EXCEPT ![p] = t]
    /\ UNCHANGED <<posted, req, reqTx, storeVars>>

PollDone(p) ==
    /\ poll[p] = "lookup"
    /\ todo[p] = {}
    /\ PollGoto(p, "idle")
    /\ UNCHANGED <<posted, req, reqTx, todo, item, storeVars>>

PollEnds(p) ==
    /\ PollGoto(p, "idle")
    /\ todo' = [todo EXCEPT ![p] = {}]
    /\ UNCHANGED item

\* Mutant: fineract_transaction_id has no unique key.
PollFlushNoKey(p) ==
    /\ poll[p] = "flush"
    /\ open' = open \cup {PollRow(p)}
    /\ PollGoto(p, "commit")
    /\ UNCHANGED <<posted, req, reqTx, todo, item, rows, queue, dropped, faults>>

\* Mutant: the poll calls .delay() before its commit, as the webhook does.
PollFlushDispatches(p) ==
    /\ poll[p] = "flush"
    /\ KeyFree(item[p])
    /\ IF Stored(item[p])
          THEN PollEnds(p) /\ UNCHANGED <<open, queue>>
          ELSE /\ open' = open \cup {PollRow(p)}
               /\ queue' = queue \cup {FirstTask(PollRow(p))}
               /\ PollGoto(p, "commit")
               /\ UNCHANGED <<todo, item>>
    /\ UNCHANGED <<posted, req, reqTx, rows, dropped, faults>>

\* The unique key violation is not caught: it ends the run, and the items that
\* are left wait for a later one.
PollFlush(p) ==
    /\ poll[p] = "flush"
    /\ KeyFree(item[p])
    /\ IF Stored(item[p])
          THEN PollEnds(p) /\ UNCHANGED open
          ELSE /\ open' = open \cup {PollRow(p)}
               /\ PollGoto(p, "commit")
               /\ UNCHANGED <<todo, item>>
    /\ UNCHANGED <<posted, req, reqTx, rows, queue, dropped, faults>>

\* "commit before dispatch so the Celery worker finds the row"
PollCommit(p) ==
    /\ poll[p] = "commit"
    /\ rows' = rows \cup {PollRow(p)}
    /\ open' = open \ {PollRow(p)}
    /\ PollGoto(p, "dispatch")
    /\ UNCHANGED <<posted, req, reqTx, todo, item, queue, dropped, faults>>

PollDispatch(p) ==
    /\ poll[p] = "dispatch"
    /\ queue' = queue \cup {FirstTask(PollRow(p))}
    /\ PollGoto(p, "lookup")
    /\ UNCHANGED <<posted, req, reqTx, todo, item, rows, open, dropped, faults>>

\* The run ends in the middle: its process dies, or Postgres or Redis refuses.
\* A row committed but not dispatched is found stored by every later run.
PollFails(p) ==
    /\ poll[p] # "idle"
    /\ Fault
    /\ PollEnds(p)
    /\ open' = {row \in open : row.by # p}
    /\ dropped' = IF poll[p] = "dispatch" THEN dropped \cup {PollRow(p)} ELSE dropped
    /\ UNCHANGED <<posted, req, reqTx, rows, queue>>

-----------------------------------------------------------------------------

RequestStep(r) == Lookup(r) \/ Flush(r) \/ Dispatch(r) \/ Commit(r)

PollerStep(p) ==
    \/ PollFetch(p) \/ PollLookup(p) \/ PollDone(p)
    \/ PollFlush(p) \/ PollCommit(p) \/ PollDispatch(p)

IngestNext ==
    \/ Post
    \/ \E r \in Requests : Receive(r) \/ RequestStep(r) \/ RequestFails(r)
    \/ \E p \in Pollers : PollerStep(p) \/ PollFails(p)

================================================================================
