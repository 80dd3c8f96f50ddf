----------------------------- MODULE PipelineStore -----------------------------
(***************************************************************************)
(* The state that ingestion and analysis share: the transactions table of   *)
(* the AML database as its sessions see it (Postgres, READ COMMITTED), and  *)
(* the Celery task queue.                                                    *)
(*                                                                         *)
(* A row is named by the Fineract id it stores and the session that          *)
(* inserted it; the pair stands for the row's own UUID, which is what a      *)
(* task carries.  A request inserts at most one row, and a poll run inserts  *)
(* an id again only when its previous row was rolled back before a task      *)
(* existed for it, so the pair names one UUID.                               *)
(***************************************************************************)
EXTENDS Naturals, FiniteSets

CONSTANTS
    NumTx,        \* Fineract posts the transactions 1, 2, ... NumTx
    Requests,     \* webhook deliveries (one handler run each)
    Pollers,      \* concurrent poll runs
    MaxRetries,   \* max_retries of analyze_transaction (3 in the code)
    MaxFaults,    \* bound: crashes, outages and raised exceptions of a behaviour
    Invalid       \* ids whose payload is refused: zero amount, data quality errors

VARIABLES
    rows,         \* committed rows of the transactions table
    open,         \* rows flushed by a session that has not committed yet
    queue,        \* task messages that have not been acknowledged
    dropped,      \* rows whose task was given up (history)
    faults        \* number of faults so far (bounds the behaviours)

storeVars == <<rows, open, queue, dropped, faults>>

Tx == 1..NumTx

Session == Requests \cup Pollers

Row == [tx : Tx, by : Session]

\* A task carries the row's UUID and its retry count.
Msg == [row : Row, try : 0..MaxRetries]

ASSUME StoreAssumption ==
    /\ NumTx \in Nat \ {0}
    /\ MaxRetries \in Nat
    /\ MaxFaults \in Nat
    /\ Invalid \subseteq Tx
    /\ Requests \cap Pollers = {}

StoreTypeOK ==
    /\ rows \subseteq Row
    /\ open \subseteq Row
    /\ queue \subseteq Msg
    /\ dropped \subseteq Row
    /\ faults \in Nat

StoreInit ==
    /\ rows = {}
    /\ open = {}
    /\ queue = {}
    /\ dropped = {}
    /\ faults = 0

\* A SELECT sees the committed rows of every session.
Stored(t) == \E row \in rows : row.tx = t

\* An INSERT of a unique key waits for the sessions that hold the same key
\* uncommitted.
KeyFree(t) == \A row \in open : row.tx # t

FirstTask(row) == [row |-> row, try |-> 0]

\* Something failed: a process died, a server refused, an exception was raised.
Fault == faults < MaxFaults /\ faults' = faults + 1

================================================================================
