----------------------------- MODULE PipelineProofs -----------------------------
(***************************************************************************)
(* Theorems about Pipeline, for every number of transactions, deliveries,    *)
(* polls, workers, retries and faults.                                       *)
(***************************************************************************)
EXTENDS Pipeline, TLAPS

-----------------------------------------------------------------------------
(* Types                                                                      *)

\* The initial state is well typed.
LEMMA TypeInit == Init => TypeOK
<1> SUFFICES ASSUME Init PROVE TypeOK
    OBVIOUS
<1>1. StoreTypeOK
    BY DEF Init, StoreInit, StoreTypeOK
<1>2. IngestTypeOK
    BY StoreAssumption DEF Init, IngestInit, IngestTypeOK, ReqStep, PollStep, Tx
<1>3. AnalysisTypeOK
    BY DEF Init, AnalysisInit, AnalysisTypeOK, WorkStep
<1> QED
    BY <1>1, <1>2, <1>3 DEF TypeOK

\* The row of a delivery that has arrived is a row.
LEMMA RequestRowType ==
    ASSUME TypeOK, NEW r \in Requests, req[r] # "idle"
    PROVE  RequestRow(r) \in Row
BY DEF TypeOK, IngestTypeOK, RequestRow, Row, Session

\* The row of the item that a poll run is at is a row.
LEMMA PollRowType ==
    ASSUME TypeOK, NEW p \in Pollers, poll[p] \notin {"idle", "lookup"}
    PROVE  PollRow(p) \in Row
BY DEF TypeOK, IngestTypeOK, PollRow, Row, Session

\* .delay() publishes a message.
LEMMA FirstTaskType ==
    ASSUME NEW row \in Row
    PROVE  FirstTask(row) \in Msg
BY StoreAssumption DEF FirstTask, Msg

\* A step of the ingestion half preserves the types.
LEMMA IngestTypeStep ==
    ASSUME TypeOK, IngestNext, UNCHANGED analysisVars
    PROVE  TypeOK'
<1> USE DEF storeVars, pollVars, StoreTypeOK
<1>1. AnalysisTypeOK'
    BY DEF TypeOK, AnalysisTypeOK, analysisVars, workVars, outputVars
<1>2. StoreTypeOK' /\ IngestTypeOK'
    <2> USE DEF TypeOK, IngestTypeOK
    <2>1. CASE Post
        BY <2>1, StoreAssumption DEF Post, Tx
    <2>2. ASSUME NEW r \in Requests, Receive(r) PROVE StoreTypeOK' /\ IngestTypeOK'
        <3> PICK t \in 1..posted : reqTx' = [reqTx EXCEPT ![r] = t] /\ Goto(r, IF t \in Invalid THEN "invalid" ELSE "lookup")
            BY <2>2 DEF Receive
        <3>1. t \in Tx
            BY StoreAssumption DEF Tx
        <3> QED
            BY <2>2, <3>1, StoreAssumption DEF Receive, Goto, ReqStep, Answer, Tx
    <2>3. ASSUME NEW r \in Requests, Lookup(r) PROVE StoreTypeOK' /\ IngestTypeOK'
        BY <2>3 DEF Lookup, Goto, ReqStep, Answer
    <2>4. ASSUME NEW r \in Requests, Flush(r) PROVE StoreTypeOK' /\ IngestTypeOK'
        <3>1. RequestRow(r) \in Row
            BY <2>4, RequestRowType DEF Flush
        <3> QED
            BY <2>4, <3>1 DEF Flush, Goto, ReqStep, Answer
    <2>5. ASSUME NEW r \in Requests, Dispatch(r) PROVE StoreTypeOK' /\ IngestTypeOK'
        <3>1. FirstTask(RequestRow(r)) \in Msg
            BY <2>5, RequestRowType, FirstTaskType DEF Dispatch
        <3> QED
            BY <2>5, <3>1 DEF Dispatch, Goto, ReqStep
    <2>6. ASSUME NEW r \in Requests, Commit(r) PROVE StoreTypeOK' /\ IngestTypeOK'
        <3>1. RequestRow(r) \in Row
            BY <2>6, RequestRowType DEF Commit
        <3> QED
            BY <2>6, <3>1 DEF Commit, Goto, Answer
    <2>7. ASSUME NEW r \in Requests, RequestFails(r) PROVE StoreTypeOK' /\ IngestTypeOK'
        BY <2>7 DEF RequestFails, Fault, Goto, Answer, ReqStep
    <2>8. ASSUME NEW p \in Pollers, PollFetch(p) PROVE StoreTypeOK' /\ IngestTypeOK'
        <3>1. {t \in 1..posted : t + PageSize > posted} \in SUBSET Tx
            BY StoreAssumption DEF Tx
        <3> QED
            BY <2>8, <3>1 DEF PollFetch, PollGoto, PollStep
    <2>9. ASSUME NEW p \in Pollers, PollLookup(p) PROVE StoreTypeOK' /\ IngestTypeOK'
        BY <2>9 DEF PollLookup, PollGoto, PollStep, Tx
    <2>10. ASSUME NEW p \in Pollers, PollDone(p) PROVE StoreTypeOK' /\ IngestTypeOK'
        BY <2>10 DEF PollDone, PollGoto, PollStep
    <2>11. ASSUME NEW p \in Pollers, PollFlush(p) PROVE StoreTypeOK' /\ IngestTypeOK'
        <3>1. PollRow(p) \in Row
            BY <2>11, PollRowType DEF PollFlush
        <3> QED
            BY <2>11, <3>1 DEF PollFlush, PollEnds, PollGoto, PollStep
    <2>12. ASSUME NEW p \in Pollers, PollCommit(p) PROVE StoreTypeOK' /\ IngestTypeOK'
        <3>1. PollRow(p) \in Row
            BY <2>12, PollRowType DEF PollCommit
        <3> QED
            BY <2>12, <3>1 DEF PollCommit, PollGoto, PollStep
    <2>13. ASSUME NEW p \in Pollers, PollDispatch(p) PROVE StoreTypeOK' /\ IngestTypeOK'
        <3>1. FirstTask(PollRow(p)) \in Msg
            BY <2>13, PollRowType, FirstTaskType DEF PollDispatch
        <3> QED
            BY <2>13, <3>1 DEF PollDispatch, PollGoto, PollStep
    <2>14. ASSUME NEW p \in Pollers, PollFails(p) PROVE StoreTypeOK' /\ IngestTypeOK'
        <3>1. dropped' \subseteq Row
            BY <2>14, PollRowType DEF PollFails
        <3> QED
            BY <2>14, <3>1 DEF PollFails, Fault, PollEnds, PollGoto, PollStep
    <2> QED
        BY <2>1, <2>2, <2>3, <2>4, <2>5, <2>6, <2>7, <2>8, <2>9, <2>10, <2>11, <2>12,
           <2>13, <2>14 DEF IngestNext, RequestStep, PollerStep
<1> QED
    BY <1>1, <1>2 DEF TypeOK

\* A step of the analysis half preserves the types.
LEMMA AnalysisTypeStep ==
    ASSUME TypeOK, AnalysisNext, UNCHANGED ingestVars
    PROVE  TypeOK'
<1> USE DEF storeVars, outputVars, workVars, StoreTypeOK
<1>1. IngestTypeOK'
    BY DEF TypeOK, IngestTypeOK, ingestVars, pollVars
<1>2. StoreTypeOK' /\ AnalysisTypeOK'
    <2> PICK w \in Workers :
            \/ WorkerStep(w) \/ TimeoutDelivery(w) \/ Raise(w) \/ NodeLost(w) \/ ChildLost(w)
        BY DEF AnalysisNext
    <2> USE DEF TypeOK, AnalysisTypeOK
    <2>1. CASE Take(w)
        BY <2>1 DEF Take, Begin, WorkStep
    <2>2. CASE TimeoutDelivery(w)
        BY <2>2 DEF TimeoutDelivery, Begin, WorkStep, Replay
    <2>3. CASE NotFound(w)
        BY <2>3 DEF NotFound, WorkStep
    <2>4. CASE Assess(w)
        BY <2>4 DEF Assess, WorkStep, RiskLevel
    <2>5. CASE Finish(w)
        <3>1. held[w].row.tx \in Tx /\ level[w] \in RiskLevel
            BY <2>5 DEF Finish, Msg, Row
        <3>2. alerts' \in [Tx -> Nat] /\ ctrs' \in [Tx -> Nat]
            BY <2>5, <3>1 DEF Finish
        <3> QED
            BY <2>5, <3>1, <3>2 DEF Finish, WorkStep
    <2>6. CASE Dispose(w)
        BY <2>6 DEF Dispose, WorkStep
    <2>7. CASE Ack(w)
        BY <2>7 DEF Ack, Free, WorkStep
    <2>8. CASE Raise(w)
        <3>1. held[w] \in Msg /\ held[w].row \in Row
            BY <2>8 DEF Raise, Msg
        <3>2. held[w].try < MaxRetries => Again(held[w]) \in Msg
            BY <3>1, StoreAssumption DEF Msg, Again
        <3>3. queue' \subseteq Msg /\ dropped' \subseteq Row
            BY <2>8, <3>1, <3>2 DEF Raise
        <3> QED
            BY <2>8, <3>3 DEF Raise, Fault, Replay, WorkStep
    <2>9. CASE NodeLost(w)
        BY <2>9 DEF NodeLost, Fault, Replay, Free, WorkStep
    <2>10. CASE ChildLost(w)
        <3>1. held[w].row \in Row
            BY <2>10 DEF ChildLost, Msg
        <3> QED
            BY <2>10, <3>1 DEF ChildLost, Fault, Free, WorkStep
    <2> QED
        BY <2>1, <2>2, <2>3, <2>4, <2>5, <2>6, <2>7, <2>8, <2>9, <2>10 DEF WorkerStep
<1> QED
    BY <1>1, <1>2 DEF TypeOK

\* The types of Pipeline are invariant.
THEOREM TypeCorrect == Spec => []TypeOK
<1>1. TypeOK /\ [Next]_vars => TypeOK'
    <2> SUFFICES ASSUME TypeOK, [Next]_vars PROVE TypeOK'
        OBVIOUS
    <2>1. CASE UNCHANGED vars
        BY <2>1 DEF TypeOK, StoreTypeOK, IngestTypeOK, AnalysisTypeOK, vars, storeVars,
                    ingestVars, pollVars, analysisVars, workVars, outputVars
    <2> QED
        BY <2>1, IngestTypeStep, AnalysisTypeStep DEF Next
<1> QED
    BY <1>1, TypeInit, PTL DEF Spec

-----------------------------------------------------------------------------
(* One row per key                                                            *)

\* No step of a worker touches the transactions table.
LEMMA AnalysisKeepsRows ==
    ASSUME AnalysisNext
    PROVE  UNCHANGED <<rows, open>>
BY DEF AnalysisNext, WorkerStep, Take, TimeoutDelivery, Begin, NotFound, Assess, Finish,
       Dispose, Ack, Raise, NodeLost, ChildLost, storeVars

\* Ingestion only adds rows.
LEMMA IngestKeepsRows ==
    ASSUME IngestNext
    PROVE  rows \subseteq rows'
BY DEF IngestNext, RequestStep, PollerStep, Post, Receive, Lookup, Flush, Dispatch, Commit,
       RequestFails, PollFetch, PollLookup, PollDone, PollFlush, PollCommit, PollDispatch,
       PollFails, storeVars

\* A session inserts only a key that no row, committed or not, has.
LEMMA KeyStep ==
    ASSUME TypeOK, KeyInv, IngestNext
    PROVE  KeyInv'
<1> USE DEF KeyInv, TypeOK, IngestTypeOK, storeVars, pollVars, RequestRow, PollRow
<1>1. CASE Post
    BY <1>1 DEF Post
<1>2. ASSUME NEW r \in Requests, Receive(r) PROVE KeyInv'
    BY <1>2 DEF Receive, Goto
<1>3. ASSUME NEW r \in Requests, Lookup(r) PROVE KeyInv'
    BY <1>3 DEF Lookup, Goto
<1>4. ASSUME NEW r \in Requests, Flush(r) PROVE KeyInv'
    BY <1>4 DEF Flush, Goto, KeyFree, Stored
<1>5. ASSUME NEW r \in Requests, Dispatch(r) PROVE KeyInv'
    BY <1>5 DEF Dispatch, Goto
<1>6. ASSUME NEW r \in Requests, Commit(r) PROVE KeyInv'
    <2>1. \A a, b \in (rows \cup open)' : a.tx = b.tx => a = b
        BY <1>6 DEF Commit
    <2> QED
        BY <1>6, <2>1, StoreAssumption DEF Commit, Goto
<1>7. ASSUME NEW r \in Requests, RequestFails(r) PROVE KeyInv'
    BY <1>7, StoreAssumption DEF RequestFails, Goto
<1>8. ASSUME NEW p \in Pollers, PollFetch(p) PROVE KeyInv'
    BY <1>8 DEF PollFetch, PollGoto
<1>9. ASSUME NEW p \in Pollers, PollLookup(p) PROVE KeyInv'
    BY <1>9 DEF PollLookup, PollGoto
<1>10. ASSUME NEW p \in Pollers, PollDone(p) PROVE KeyInv'
    BY <1>10 DEF PollDone, PollGoto
<1>11. ASSUME NEW p \in Pollers, PollFlush(p) PROVE KeyInv'
    BY <1>11 DEF PollFlush, PollEnds, PollGoto, KeyFree, Stored
<1>12. ASSUME NEW p \in Pollers, PollCommit(p) PROVE KeyInv'
    BY <1>12, StoreAssumption DEF PollCommit, PollGoto
<1>13. ASSUME NEW p \in Pollers, PollDispatch(p) PROVE KeyInv'
    BY <1>13 DEF PollDispatch, PollGoto
<1>14. ASSUME NEW p \in Pollers, PollFails(p) PROVE KeyInv'
    BY <1>14, StoreAssumption DEF PollFails, PollEnds, PollGoto
<1> QED
    BY <1>1, <1>2, <1>3, <1>4, <1>5, <1>6, <1>7, <1>8, <1>9, <1>10, <1>11, <1>12,
       <1>13, <1>14 DEF IngestNext, RequestStep, PollerStep

\* KeyInv is invariant: one row per key, counting the uncommitted ones.
LEMMA KeyInvariant == Spec => []KeyInv
<1>1. Init => KeyInv
    BY DEF Init, StoreInit, IngestInit, KeyInv
<1>2. TypeOK /\ KeyInv /\ [Next]_vars => KeyInv'
    <2> SUFFICES ASSUME TypeOK, KeyInv, [Next]_vars PROVE KeyInv'
        OBVIOUS
    <2>1. CASE UNCHANGED <<rows, open>> /\ UNCHANGED ingestVars
        BY <2>1 DEF KeyInv, ingestVars, pollVars, RequestRow, PollRow
    <2> QED
        BY <2>1, KeyStep, AnalysisKeepsRows DEF Next, vars, storeVars
<1> QED
    BY <1>1, <1>2, TypeCorrect, PTL DEF Spec

\* A Fineract transaction has at most one row, however deliveries and polls race.
THEOREM UniqueRowHolds == Spec => []UniqueRow
<1>1. KeyInv => UniqueRow
    BY DEF KeyInv, UniqueRow
<1> QED
    BY <1>1, KeyInvariant, PTL

-----------------------------------------------------------------------------
(* Tasks of polled rows                                                       *)

\* A step keeps every task of a polled row on a committed row.
LEMMA TaskStep ==
    ASSUME TypeOK, KeyInv, TaskInv, [Next]_vars
    PROVE  TaskInv'
<1> USE DEF TaskInv, PolledTaskFindsRow
<1>1. CASE UNCHANGED vars
    BY <1>1 DEF vars, storeVars, analysisVars, workVars
<1>2. CASE IngestNext /\ UNCHANGED analysisVars
    <2>1. \A m \in queue' \ queue : m.row.by \in Pollers => m.row \in rows
        <3>1. ASSUME NEW r \in Requests, Dispatch(r), NEW m \in queue' \ queue
              PROVE  m.row.by \notin Pollers
            BY <3>1, StoreAssumption DEF Dispatch, FirstTask, RequestRow
        <3>2. ASSUME NEW p \in Pollers, PollDispatch(p), NEW m \in queue' \ queue
              PROVE  m.row \in rows
            BY <3>2 DEF PollDispatch, FirstTask, KeyInv
        <3> QED
            BY <1>2, <3>1, <3>2
            DEF IngestNext, RequestStep, PollerStep, Post, Receive, Lookup, Flush, Commit,
                RequestFails, PollFetch, PollLookup, PollDone, PollFlush, PollCommit,
                PollFails, storeVars
    <2> QED
        BY <1>2, <2>1, IngestKeepsRows DEF analysisVars, workVars
<1>3. CASE AnalysisNext /\ UNCHANGED ingestVars
    <2> PICK w \in Workers :
            \/ WorkerStep(w) \/ TimeoutDelivery(w) \/ Raise(w) \/ NodeLost(w) \/ ChildLost(w)
        BY <1>3 DEF AnalysisNext
    <2> USE AnalysisKeepsRows DEF TypeOK, AnalysisTypeOK, storeVars
    <2>1. CASE Take(w) \/ TimeoutDelivery(w)
        BY <1>3, <2>1 DEF Take, TimeoutDelivery, Begin
    <2>2. CASE NotFound(w) \/ Assess(w) \/ Finish(w) \/ Dispose(w)
        BY <1>3, <2>2 DEF NotFound, Assess, Finish, Dispose
    <2>3. CASE Ack(w) \/ NodeLost(w) \/ ChildLost(w)
        BY <1>3, <2>3 DEF Ack, NodeLost, ChildLost, Free
    <2>4. CASE Raise(w)
        BY <1>3, <2>4 DEF Raise, Again
    <2> QED
        BY <2>1, <2>2, <2>3, <2>4 DEF WorkerStep
<1> QED
    BY <1>1, <1>2, <1>3 DEF Next

\* TaskInv is invariant.
LEMMA TaskInvariant == Spec => []TaskInv
<1>1. Init => TaskInv
    BY DEF Init, StoreInit, AnalysisInit, TaskInv, PolledTaskFindsRow
<1> QED
    BY <1>1, TaskStep, TypeCorrect, KeyInvariant, PTL DEF Spec

\* A task of a polled row is never in the queue before the row is committed.
THEOREM PolledTaskFindsRowHolds == Spec => []PolledTaskFindsRow
<1>1. TaskInv => PolledTaskFindsRow
    BY DEF TaskInv
<1> QED
    BY <1>1, TaskInvariant, PTL

-----------------------------------------------------------------------------
(* Runs, and the book they write                                              *)

\* Ingestion leaves every level alone and loses no row.
LEMMA RunStep ==
    ASSUME TypeOK, RunInv, LevelInv, [Next]_vars
    PROVE  RunInv' /\ LevelInv'
<1> USE DEF RunInv, LevelInv
<1>1. CASE UNCHANGED vars
    BY <1>1 DEF vars, storeVars, analysisVars, workVars, outputVars, Hit, Stored
<1>2. CASE IngestNext /\ UNCHANGED analysisVars
    BY <1>2, IngestKeepsRows DEF analysisVars, workVars, outputVars, Hit, Stored
<1>3. CASE AnalysisNext /\ UNCHANGED ingestVars
    <2> PICK w \in Workers :
            \/ WorkerStep(w) \/ TimeoutDelivery(w) \/ Raise(w) \/ NodeLost(w) \/ ChildLost(w)
        BY <1>3 DEF AnalysisNext
    <2>a. UNCHANGED rows
        BY <1>3, AnalysisKeepsRows
    <2> USE <2>a DEF TypeOK, AnalysisTypeOK, outputVars, Stored
    <2>1. CASE Take(w) \/ TimeoutDelivery(w)
        BY <2>1 DEF Take, TimeoutDelivery, Begin
    <2>2. CASE NotFound(w) \/ Dispose(w)
        BY <2>2 DEF NotFound, Dispose
    <2>3. CASE Assess(w)
        <3>1. IF alerting'[w] THEN level'[w] \in AlertLevel
                              ELSE level'[w] = "low" \/ (level'[w] = "critical" /\ Hit(held[w].row))
            <4> PICK computed \in RiskLevel :
                    /\ alerting' = [alerting EXCEPT ![w] = computed \in AlertLevel]
                    /\ level' = [level EXCEPT ![w] =
                                    IF Hit(held[w].row) THEN "critical" ELSE computed]
                BY <2>3 DEF Assess
            <4>1. alerting'[w] = (computed \in AlertLevel)
                OBVIOUS
            <4>2. level'[w] = IF Hit(held[w].row) THEN "critical" ELSE computed
                OBVIOUS
            <4> QED
                BY <4>1, <4>2, Zenon DEF AlertLevel, RiskLevel
        <3>2. \A v \in Workers \ {w} : alerting'[v] = alerting[v] /\ level'[v] = level[v]
            BY <2>3 DEF Assess
        <3> QED
            BY <2>3, <3>1, <3>2 DEF Assess, Hit
    <2>4. CASE Finish(w)
        <3>1. held[w].row.tx \in Tx /\ level[w] # None
            BY <2>4, AnalysisAssumption DEF Finish, Msg, Row
        <3>2. risk'[held[w].row.tx] # None
            BY <2>4, <3>1 DEF Finish
        <3>3. \A t \in Tx \ {held[w].row.tx} : risk'[t] = risk[t]
            BY <2>4, <3>1 DEF Finish
        <3>4. \A v \in Workers : work'[v] = "dispose" => risk'[held[v].row.tx] # None
            <4> SUFFICES ASSUME NEW v \in Workers, work'[v] = "dispose"
                         PROVE  risk'[held[v].row.tx] # None
                OBVIOUS
            <4>1. CASE v = w
                BY <3>2, <4>1
            <4>2. CASE v # w
                <5>1. work[v] = "dispose" /\ held[v].row.tx \in Tx
                    BY <2>4, <4>2 DEF Finish, Msg, Row
                <5> QED
                    BY <5>1, <3>2, <3>3
            <4> QED
                BY <4>1, <4>2
        <3>5. \A v \in Workers : work'[v] \in {"commit", "dispose"} => held'[v].row \in rows'
            BY <2>4 DEF Finish
        <3>6. LevelInv'
            <4>1. \E row \in rows : row.tx = held[w].row.tx
                BY <2>4 DEF Finish
            <4> QED
                BY <4>1, <3>1, <3>3 DEF Stored
        <3>7. \A v \in Workers : work'[v] = "commit" =>
                  IF alerting'[v] THEN level'[v] \in AlertLevel
                                  ELSE level'[v] = "low" \/ (level'[v] = "critical" /\ Hit(held'[v].row))
            BY <2>4 DEF Finish
        <3> QED
            BY <2>4, <3>4, <3>5, <3>6, <3>7 DEF Finish
    <2>5. CASE Ack(w) \/ NodeLost(w) \/ ChildLost(w)
        BY <2>5 DEF Ack, NodeLost, ChildLost, Free
    <2>6. CASE Raise(w)
        BY <2>6 DEF Raise
    <2> QED
        BY <2>1, <2>2, <2>3, <2>4, <2>5, <2>6 DEF WorkerStep
<1> QED
    BY <1>1, <1>2, <1>3 DEF Next

\* What a run knows of its row holds throughout.
LEMMA RunInvariant == Spec => [](RunInv /\ LevelInv)
<1>1. Init => RunInv /\ LevelInv
    BY DEF Init, AnalysisInit, RunInv, LevelInv
<1>2. TypeOK /\ (RunInv /\ LevelInv) /\ [Next]_vars => (RunInv /\ LevelInv)'
    BY RunStep
<1> QED
    BY <1>1, <1>2, TypeCorrect, PTL DEF Spec

\* Only the commit of a run changes what the book shows of an assessment.
LEMMA OnlyFinishWrites ==
    ASSUME AnalysisNext, ~UNCHANGED outputVars
    PROVE  \E w \in Workers : Finish(w)
BY DEF AnalysisNext, WorkerStep, Take, TimeoutDelivery, Begin, NotFound, Assess, Dispose,
       Ack, Raise, NodeLost, ChildLost

\* Ingestion adds one row at a time, one that its session had inserted.
LEMMA RowStep ==
    ASSUME KeyInv, IngestNext
    PROVE  UNCHANGED rows \/ \E row \in open : rows' = rows \cup {row}
<1>1. ASSUME NEW r \in Requests, Commit(r) PROVE \E row \in open : rows' = rows \cup {row}
    BY <1>1 DEF Commit, KeyInv
<1>2. ASSUME NEW p \in Pollers, PollCommit(p) PROVE \E row \in open : rows' = rows \cup {row}
    BY <1>2 DEF PollCommit, KeyInv
<1> QED
    BY <1>1, <1>2
    DEF IngestNext, RequestStep, PollerStep, Post, Receive, Lookup, Flush, Dispatch,
        RequestFails, PollFetch, PollLookup, PollDone, PollFlush, PollDispatch,
        PollFails, storeVars


\* What a commit of a run does to the book: an assessment of a stored
\* transaction whose alert follows a computed level.
LEMMA FinishAssesses ==
    ASSUME TypeOK, RunInv, NEW w \in Workers, Finish(w)
    PROVE  Book!Assess(held[w].row.tx)
<1> DEFINE t == held[w].row.tx
<1>1. held[w].row \in rows /\ t \in {row.tx : row \in rows} /\ level[w] \in RiskLevel
    BY DEF Finish, RunInv, TypeOK, AnalysisTypeOK
<1> DEFINE computed == IF alerting[w] THEN level[w] ELSE "low"
<1>2. /\ computed \in RiskLevel
      /\ alerting[w] <=> computed \in AlertLevel
      /\ level[w] \in {computed, "critical"}
    <2>1. CASE alerting[w]
        <3>1. level[w] \in AlertLevel /\ alerting[w] = TRUE /\ computed = level[w]
            BY <2>1 DEF Finish, RunInv, TypeOK, AnalysisTypeOK
        <3> QED
            BY <1>1, <3>1
    <2>2. CASE ~alerting[w]
        <3>1. alerting[w] = FALSE /\ computed = "low" /\ level[w] \in {"low", "critical"}
            BY <2>2 DEF Finish, RunInv, TypeOK, AnalysisTypeOK
        <3>2. "low" \in RiskLevel /\ "low" \notin AlertLevel
            BY DEF RiskLevel, AlertLevel
        <3> HIDE DEF computed
        <3>3. computed \in RiskLevel
            BY <3>1, <3>2
        <3>4. alerting[w] <=> computed \in AlertLevel
            BY <3>1, <3>2
        <3>5. level[w] \in {computed, "critical"}
            BY <3>1
        <3> QED
            BY <3>3, <3>4, <3>5, Zenon
    <2> QED
        BY <2>1, <2>2
<1> HIDE DEF computed
<1>3. alerts' = [alerts EXCEPT ![t] = @ + (IF computed \in AlertLevel THEN 1 ELSE 0)]
    BY <1>2 DEF Finish
<1>4. risk' = [risk EXCEPT ![t] = level[w]]
    BY DEF Finish
<1>5. ctrs' = [ctrs EXCEPT ![t] = @ + (IF t \in Large THEN 1 ELSE 0)]
    BY DEF Finish
<1>6. UNCHANGED rows
    BY DEF Finish, storeVars
<1> QED
    BY <1>1, <1>2, <1>3, <1>4, <1>5, <1>6
    DEF Book!Assess, Book!RiskLevel, Book!AlertLevel, RiskLevel, AlertLevel

\* Every step of the pipeline is a step of the book, or invisible to it.
LEMMA BookStep ==
    ASSUME TypeOK, KeyInv, RunInv, [Next]_vars
    PROVE  [Book!Next]_Book!bookVars
<1> USE DEF Book!bookVars
<1>1. CASE UNCHANGED vars
    BY <1>1 DEF vars, storeVars, analysisVars, outputVars
<1>2. CASE IngestNext /\ UNCHANGED analysisVars
    <2>1. UNCHANGED outputVars
        BY <1>2 DEF analysisVars
    <2>2. CASE UNCHANGED rows
        BY <2>1, <2>2 DEF outputVars
    <2>3. ASSUME NEW row \in open, rows' = rows \cup {row}
          PROVE  [Book!Next]_Book!bookVars
        <3>1. row.tx \in Tx
            BY DEF TypeOK, StoreTypeOK, Row
        <3>2. {r.tx : r \in rows'} = {r.tx : r \in rows} \cup {row.tx}
            BY <2>3
        <3>3. CASE row.tx \in {r.tx : r \in rows}
            BY <2>1, <3>2, <3>3 DEF outputVars
        <3>4. CASE row.tx \notin {r.tx : r \in rows}
            <4>1. Book!Register(row.tx)
                BY <2>1, <3>2, <3>4 DEF Book!Register, outputVars
            <4> QED
                BY <3>1, <4>1 DEF Book!Next
        <3> QED
            BY <3>3, <3>4
    <2> QED
        BY <1>2, <2>2, <2>3, RowStep
<1>3. CASE AnalysisNext /\ UNCHANGED ingestVars
    <2>1. CASE UNCHANGED outputVars
        BY <1>3, <2>1, AnalysisKeepsRows DEF outputVars
    <2>2. ASSUME NEW w \in Workers, Finish(w) PROVE Book!Next
        <3>1. held[w].row.tx \in Tx
            BY <2>2 DEF Finish, TypeOK, AnalysisTypeOK, Msg, Row
        <3> QED
            BY <2>2, <3>1, FinishAssesses DEF Book!Next
    <2> QED
        BY <1>3, <2>1, <2>2, OnlyFinishWrites
<1> QED
    BY <1>1, <1>2, <1>3 DEF Next

\* Sessions, queue, retries and crashes are invisible in the book: every step of
\* the pipeline enters a transaction, assesses one in one piece, or changes
\* nothing that the book shows.
THEOREM PipelineImplementsBook == Spec => BookSpec
<1>1. Init => Book!Init
    BY DEF Init, StoreInit, AnalysisInit, Book!Init
<1>2. TypeOK /\ KeyInv /\ (RunInv /\ LevelInv) /\ [Next]_vars => [Book!Next]_Book!bookVars
    BY BookStep
<1> QED
    BY <1>1, <1>2, TypeCorrect, KeyInvariant, RunInvariant, PTL DEF Spec, BookSpec, Book!Spec

-----------------------------------------------------------------------------
(* What the book shows of a stored transaction                                *)

\* RiskyHasAlert, with what a run that is about to commit will keep of it.
LEMMA RiskyStep ==
    ASSUME TypeOK, KeyInv, RunInv, LevelInv, RiskyHasAlert, [Next]_vars
    PROVE  RiskyHasAlert'
<1> USE DEF RiskyHasAlert, Hit
<1>1. CASE UNCHANGED vars
    BY <1>1 DEF vars, storeVars, analysisVars, outputVars
<1>2. CASE IngestNext /\ UNCHANGED analysisVars
    <2>1. UNCHANGED <<risk, alerts>>
        BY <1>2 DEF analysisVars, outputVars
    <2>2. ASSUME NEW row \in rows', risk[row.tx] \in AlertLevel PROVE row \in rows
        <3>1. CASE row \notin rows
            <4>1. row \in open /\ row.tx \in Tx
                BY <1>2, <2>2, <3>1, RowStep DEF TypeOK, StoreTypeOK, Row
            <4>2. PICK other \in rows : other.tx = row.tx
                BY <2>2, <4>1, AnalysisAssumption DEF LevelInv, Stored, AlertLevel
            <4>3. other = row
                BY <4>1, <4>2 DEF KeyInv
            <4> QED
                BY <4>2, <4>3
        <3> QED
            BY <3>1
    <2> QED
        BY <2>1, <2>2
<1>3. CASE AnalysisNext /\ UNCHANGED ingestVars
    <2>1. UNCHANGED rows
        BY <1>3, AnalysisKeepsRows
    <2>2. CASE UNCHANGED outputVars
        BY <2>1, <2>2 DEF outputVars
    <2>3. ASSUME NEW w \in Workers, Finish(w) PROVE RiskyHasAlert'
        <3> SUFFICES ASSUME NEW row \in rows, risk'[row.tx] \in AlertLevel
                     PROVE  alerts'[row.tx] >= 1 \/ Hit(row)
            BY <2>1
        <3> DEFINE own == held[w].row
        <3>0. row.tx \in Tx /\ own \in rows /\ own.tx \in Tx
            BY <2>3 DEF Finish, RunInv, TypeOK, StoreTypeOK, Row
        <3>1. CASE row.tx # own.tx
            <4>1. risk'[row.tx] = risk[row.tx] /\ alerts'[row.tx] = alerts[row.tx]
                BY <2>3, <3>0, <3>1 DEF Finish, TypeOK, AnalysisTypeOK
            <4> QED
                BY <4>1
        <3>2. CASE row.tx = own.tx
            <4>1. row = own
                BY <3>0, <3>2 DEF KeyInv
            <4>2. risk'[own.tx] = level[w]
                BY <2>3, <3>0 DEF Finish, TypeOK, AnalysisTypeOK
            <4>3. CASE alerting[w]
                <5>1. alerts'[own.tx] = alerts[own.tx] + 1 /\ alerts[own.tx] \in Nat
                    BY <2>3, <3>0, <4>3 DEF Finish, TypeOK, AnalysisTypeOK
                <5> QED
                    BY <4>1, <5>1
            <4>4. CASE ~alerting[w]
                <5>1. level[w] # "low"
                    BY <4>1, <4>2 DEF AlertLevel
                <5> QED
                    BY <2>3, <4>1, <4>4, <5>1 DEF Finish, RunInv
            <4> QED
                BY <4>3, <4>4
        <3> QED
            BY <3>1, <3>2
    <2> QED
        BY <1>3, <2>2, <2>3, OnlyFinishWrites
<1> QED
    BY <1>1, <1>2, <1>3 DEF Next

\* A level above low comes with an alert or from a watchlist match.
THEOREM RiskyHasAlertHolds == Spec => []RiskyHasAlert
<1>1. Init => RiskyHasAlert
    BY DEF Init, StoreInit, RiskyHasAlert
<1>2. TypeOK /\ KeyInv /\ (RunInv /\ LevelInv) /\ RiskyHasAlert /\ [Next]_vars => RiskyHasAlert'
    BY RiskyStep
<1> QED
    BY <1>1, <1>2, TypeCorrect, KeyInvariant, RunInvariant, PTL DEF Spec

\* A large transaction that is assessed has its report.
THEOREM LargeHasReportHolds == Spec => []LargeHasReport
<1>1. Init => LargeHasReport
    BY DEF Init, AnalysisInit, LargeHasReport
<1>2. TypeOK /\ LargeHasReport /\ [Next]_vars => LargeHasReport'
    <2> SUFFICES ASSUME TypeOK, LargeHasReport, [Next]_vars PROVE LargeHasReport'
        OBVIOUS
    <2>1. CASE UNCHANGED outputVars
        BY <2>1 DEF LargeHasReport, outputVars
    <2>2. ASSUME NEW w \in Workers, Finish(w) PROVE LargeHasReport'
        <3>1. held[w].row.tx \in Tx
            BY <2>2 DEF Finish, TypeOK, AnalysisTypeOK, Msg, Row
        <3> QED
            BY <2>2, <3>1 DEF Finish, LargeHasReport, TypeOK, AnalysisTypeOK
    <2> QED
        BY <2>1, <2>2, OnlyFinishWrites DEF Next, vars, analysisVars
<1> QED
    BY <1>1, <1>2, TypeCorrect, PTL DEF Spec

-----------------------------------------------------------------------------
(* Answers and stored rows                                                     *)

\* A delivery that is answered "already processed" found its transaction stored,
\* and rows are never removed.
THEOREM DuplicateIsStoredHolds == Spec => []DuplicateIsStored
<1>1. Init => DuplicateIsStored
    BY DEF Init, IngestInit, DuplicateIsStored
<1>2. TypeOK /\ DuplicateIsStored /\ [Next]_vars => DuplicateIsStored'
    <2> SUFFICES ASSUME TypeOK, DuplicateIsStored, [Next]_vars,
                        NEW q \in Requests, req'[q] = "duplicate"
                 PROVE  Stored(reqTx[q])' 
        BY DEF DuplicateIsStored
    <2>1. rows \subseteq rows'
        BY AnalysisKeepsRows, IngestKeepsRows DEF Next, vars, storeVars
    <2>2. CASE req[q] = "duplicate" /\ reqTx'[q] = reqTx[q]
        BY <2>1, <2>2 DEF DuplicateIsStored, Stored
    <2>3. CASE ~UNCHANGED req \/ ~UNCHANGED reqTx
        <3>1. PICK r \in Requests : Receive(r) \/ RequestStep(r) \/ RequestFails(r)
            BY <2>3 DEF Next, IngestNext, PollerStep, PollFetch, PollLookup, PollDone,
                PollFlush, PollCommit, PollDispatch, PollFails, Post, vars, ingestVars
        <3>2. CASE q # r
            <4>1. req'[q] = req[q] /\ reqTx'[q] = reqTx[q]
                BY <3>1, <3>2 DEF Receive, RequestStep, RequestFails, Lookup, Flush,
                    Dispatch, Commit, Goto, TypeOK, IngestTypeOK
            <4> QED
                BY <2>2, <4>1
        <3>3. CASE q = r
            <4>1. CASE Lookup(r)
                <5>1. Stored(reqTx[r]) /\ reqTx' = reqTx
                    BY <3>3, <4>1 DEF Lookup, Goto, TypeOK, IngestTypeOK
                <5> QED
                    BY <2>1, <3>3, <5>1 DEF Stored
            <4>2. CASE ~Lookup(r)
                BY <3>1, <3>3, <4>2 DEF Receive, RequestStep, RequestFails, Flush,
                    Dispatch, Commit, Goto, TypeOK, IngestTypeOK
            <4> QED
                BY <4>1, <4>2
        <3> QED
            BY <3>2, <3>3
    <2> QED
        BY <2>2, <2>3
<1> QED
    BY <1>1, <1>2, TypeCorrect, PTL DEF Spec

-----------------------------------------------------------------------------
(* No polled row is forgotten                                                  *)

\* What keeps TrackInv: levels and given-up rows stay, every task that goes on is
\* carried by it, by a later try of it, by a level or by a given-up row, and
\* whatever is new is accounted for.
LEMMA TrackCarried ==
    ASSUME TrackInv,
           \A t \in Tx : risk[t] # None => risk'[t] # None,
           rows' \subseteq Row, queue' \subseteq Msg,
           dropped \subseteq dropped',
           \A m \in queue : Pending(m) /\ m.row.by \in Pollers =>
               \/ risk'[m.row.tx] # None
               \/ m.row \in dropped'
               \/ \E n \in queue' : Pending(n)' /\ n.row = m.row /\ n.try >= m.try,
           queue \subseteq Msg, rows \subseteq Row,
           \A row \in rows' : row.by \in Pollers =>
               Safe(row)' \/ (row \in rows /\ (poll[row.by] = "dispatch" /\ PollRow(row.by) = row =>
                                                  (poll[row.by] = "dispatch" /\ PollRow(row.by) = row)')),
           \A w \in Workers : work'[w] = "ack" /\ held'[w].row.by \in Pollers =>
               Settled(w)' \/ (work[w] = "ack" /\ held'[w] = held[w] /\ held[w] \in Msg)
    PROVE  TrackInv'
<1>1. ASSUME NEW row \in rows', row.by \in Pollers PROVE Safe(row)'
    <2> SUFFICES ASSUME row \in rows, ~Safe(row)',
                        poll[row.by] = "dispatch" /\ PollRow(row.by) = row =>
                            (poll[row.by] = "dispatch" /\ PollRow(row.by) = row)'
                 PROVE  FALSE
        BY <1>1
    <2>1. Safe(row) /\ row.tx \in Tx
        BY <1>1 DEF TrackInv, Row
    <2>2. PICK m \in queue : Pending(m) /\ m.row = row
        BY <1>1, <2>1 DEF Safe
    <2> QED
        BY <1>1, <2>2 DEF Safe
<1>2. ASSUME NEW w \in Workers, work'[w] = "ack", held'[w].row.by \in Pollers PROVE Settled(w)'
    <2> SUFFICES ASSUME work[w] = "ack", held'[w] = held[w], held[w] \in Msg
                 PROVE  Settled(w)'
        BY <1>2
    <2>1. Settled(w) /\ held[w].row.tx \in Tx /\ held[w].try \in Nat
        BY <1>2, StoreAssumption DEF TrackInv, Msg, Row
    <2>2. CASE risk[held[w].row.tx] # None \/ held[w].row \in dropped
        BY <2>1, <2>2 DEF Settled
    <2>3. CASE \E m \in queue : Pending(m) /\ m.row = held[w].row /\ m.try > held[w].try
        <3>1. PICK m \in queue : Pending(m) /\ m.row = held[w].row /\ m.try > held[w].try
            BY <2>3
        <3>2. CASE risk'[m.row.tx] # None \/ m.row \in dropped'
            BY <3>1, <3>2 DEF Settled
        <3>3. ASSUME NEW n \in queue', Pending(n)', n.row = m.row, n.try >= m.try
              PROVE  Settled(w)'
            <4>1. n.try > held[w].try
                BY <2>1, <3>1, <3>3, StoreAssumption DEF Msg
            <4> QED
                BY <3>1, <3>3, <4>1 DEF Settled
        <3> QED
            BY <1>2, <3>1, <3>2, <3>3
    <2> QED
        BY <2>1, <2>2, <2>3 DEF Settled
<1> QED
    BY <1>1, <1>2 DEF TrackInv

\* An ingestion step adds a polled row only with its session about to dispatch,
\* and leaves "dispatch" with the task queued or the row given up.
LEMMA TrackIngest ==
    ASSUME TypeOK, TypeOK', KeyInv, TrackInv, IngestNext, UNCHANGED analysisVars
    PROVE  TrackInv'
<1>1. UNCHANGED <<work, held, risk>>
    BY DEF analysisVars, workVars, outputVars
<1>2. queue \subseteq queue' /\ dropped \subseteq dropped'
    BY DEF IngestNext, RequestStep, PollerStep, Post, Receive, Lookup, Flush, Dispatch, Commit,
        RequestFails, PollFetch, PollLookup, PollDone, PollFlush, PollCommit, PollDispatch,
        PollFails, storeVars
<1>3. \A m \in queue : Pending(m) => Pending(m)'
    BY <1>1, <1>2 DEF Pending
<1>4. ASSUME NEW row \in rows', row.by \in Pollers
      PROVE  Safe(row)' \/ (row \in rows /\ (poll[row.by] = "dispatch" /\ PollRow(row.by) = row =>
                                                (poll[row.by] = "dispatch" /\ PollRow(row.by) = row)'))
    <2>1. CASE UNCHANGED <<poll, item>>
        <3>1. ASSUME NEW r \in Requests, Commit(r) PROVE row \in rows
            BY <1>4, <3>1, StoreAssumption DEF Commit, RequestRow
        <3>2. ASSUME NEW p \in Pollers, PollCommit(p) PROVE FALSE
            BY <2>1, <3>2 DEF PollCommit, PollGoto, TypeOK, IngestTypeOK
        <3>3. row \in rows
            BY <1>4, <3>1, <3>2
            DEF IngestNext, RequestStep, PollerStep, Post, Receive, Lookup, Flush, Dispatch,
                RequestFails, PollFetch, PollLookup, PollDone, PollFlush, PollDispatch,
                PollFails, storeVars
        <3> QED
            BY <2>1, <3>3 DEF PollRow
    <2>2. ASSUME NEW p \in Pollers, PollerStep(p) \/ PollFails(p)
          PROVE  Safe(row)' \/ (row \in rows /\ (poll[row.by] = "dispatch" /\ PollRow(row.by) = row =>
                                                    (poll[row.by] = "dispatch" /\ PollRow(row.by) = row)'))
        <3>1. CASE row.by # p
            BY <1>4, <2>2, <3>1 DEF PollerStep, PollFetch, PollLookup, PollDone, PollFlush, PollCommit,
                PollDispatch, PollFails, PollEnds, PollGoto, PollRow, storeVars, TypeOK, IngestTypeOK
        <3>2. CASE row.by = p
            <4>1. CASE PollCommit(p)
                BY <1>4, <3>2, <4>1
                DEF PollCommit, PollGoto, PollRow, Safe, TypeOK, IngestTypeOK
            <4>2. CASE PollDispatch(p)
                <5>1. CASE row # PollRow(p)
                    BY <1>4, <3>2, <4>2, <5>1 DEF PollDispatch
                <5>2. CASE row = PollRow(p)
                    <6> DEFINE m == FirstTask(row)
                    <6>1. m \in queue' /\ m.row = row
                        BY <4>2, <5>2 DEF PollDispatch, FirstTask
                    <6>2. CASE \A w \in Workers : work[w] = "ack" => held[w] # m
                        BY <1>1, <6>1, <6>2 DEF Pending, Safe
                    <6>3. ASSUME NEW w \in Workers, work[w] = "ack", held[w] = m PROVE Safe(row)'
                        <7>1. Settled(w)
                            BY <1>4, <6>1, <6>3 DEF TrackInv
                        <7> QED
                            BY <1>1, <1>2, <1>3, <6>1, <6>3, <7>1 DEF Settled, Safe
                    <6> QED
                        BY <6>2, <6>3
                <5> QED
                    BY <5>1, <5>2
            <4>3. CASE PollFails(p)
                BY <1>4, <3>2, <4>3 DEF PollFails, Safe
            <4>4. CASE PollFetch(p) \/ PollLookup(p) \/ PollDone(p) \/ PollFlush(p)
                BY <1>4, <3>2, <4>4 DEF PollFetch, PollLookup, PollDone, PollFlush, storeVars
            <4> QED
                BY <2>2, <4>1, <4>2, <4>3, <4>4 DEF PollerStep
        <3> QED
            BY <3>1, <3>2
    <2> QED
        BY <2>1, <2>2 DEF IngestNext, RequestStep, Post, Receive, Lookup, Flush, Dispatch, Commit,
            RequestFails, pollVars
<1>5. \A w \in Workers : work[w] = "ack" => held[w] \in Msg
    BY DEF TypeOK, AnalysisTypeOK
<1>6. rows' \subseteq Row /\ queue' \subseteq Msg /\ rows \subseteq Row /\ queue \subseteq Msg
    BY DEF TypeOK, StoreTypeOK
<1>7. \A m \in queue : m.try \in Nat
    BY <1>6, StoreAssumption DEF Msg
<1>8. \A m \in queue : Pending(m) =>
          \E n \in queue' : Pending(n)' /\ n.row = m.row /\ n.try >= m.try
    BY <1>2, <1>3, <1>7
<1> QED
    BY <1>1, <1>2, <1>4, <1>5, <1>6, <1>8, TrackCarried

\* A worker acknowledges a polled row's task only after it has left a level, a
\* later try or a given-up row behind.
LEMMA TrackAnalysis ==
    ASSUME TypeOK, TypeOK', TaskInv, RunInv, TrackInv, AnalysisNext, UNCHANGED ingestVars
    PROVE  TrackInv'
<1> PICK w \in Workers :
        WorkerStep(w) \/ TimeoutDelivery(w) \/ Raise(w) \/ NodeLost(w) \/ ChildLost(w)
    BY DEF AnalysisNext
<1>1. /\ rows' \subseteq Row /\ queue' \subseteq Msg
      /\ rows \subseteq Row /\ queue \subseteq Msg
      /\ \A v \in Workers : work[v] = "ack" => held[v] \in Msg
      /\ \A m \in Msg : m.try \in Nat
    BY StoreAssumption DEF TypeOK, StoreTypeOK, AnalysisTypeOK, Msg
<1>2. UNCHANGED <<rows, poll, item>>
    BY AnalysisKeepsRows DEF ingestVars, pollVars
<1>3. dropped \subseteq dropped'
    BY DEF WorkerStep, Take, TimeoutDelivery, Begin, NotFound, Assess, Finish, Dispose, Ack,
        Raise, NodeLost, ChildLost, storeVars
<1>4. \A t \in Tx : risk[t] # None => risk'[t] # None
    <2>1. CASE Finish(w)
        BY <2>1, AnalysisAssumption DEF Finish, TypeOK, AnalysisTypeOK
    <2>2. CASE ~Finish(w)
        BY <2>2 DEF WorkerStep, Take, TimeoutDelivery, Begin, NotFound, Assess, Dispose, Ack,
            Raise, NodeLost, ChildLost, outputVars
    <2> QED
        BY <2>1, <2>2
<1>5. \A v \in Workers : v # w => work'[v] = work[v] /\ held'[v] = held[v]
    BY DEF WorkerStep, Take, TimeoutDelivery, Begin, NotFound, Assess, Finish, Dispose, Ack,
        Raise, NodeLost, ChildLost, Free, TypeOK, AnalysisTypeOK
<1> DEFINE Carried(m) == \/ risk'[m.row.tx] # None
                         \/ m.row \in dropped'
                         \/ \E n \in queue' : Pending(n)' /\ n.row = m.row /\ n.try >= m.try
<1>6. SUFFICES /\ \A m \in queue : Pending(m) /\ m.row.by \in Pollers => Carried(m)
               /\ work'[w] = "ack" /\ held'[w].row.by \in Pollers => Settled(w)'
    <2>1. \A row \in rows' :
              row \in rows /\ (poll[row.by] = "dispatch" /\ PollRow(row.by) = row =>
                                   (poll[row.by] = "dispatch" /\ PollRow(row.by) = row)')
        BY <1>2 DEF PollRow
    <2>2. \A v \in Workers : work'[v] = "ack" /\ held'[v].row.by \in Pollers =>
              Settled(v)' \/ (work[v] = "ack" /\ held'[v] = held[v] /\ held[v] \in Msg)
        BY <1>1, <1>5, <1>6
    <2> QED
        BY <1>1, <1>3, <1>4, <1>6, <2>1, <2>2, TrackCarried
<1> HIDE DEF Carried
<1>7. ASSUME NEW m \in queue, m \in queue', Pending(m), work'[w] = "ack" => held'[w] # m
      PROVE  Carried(m)
    BY <1>1, <1>5, <1>7 DEF Pending, Carried
<1>8. CASE Take(w) \/ TimeoutDelivery(w) \/ Assess(w) \/ Finish(w) \/ NodeLost(w)
    <2>1. queue' = queue /\ work'[w] # "ack"
        BY <1>8 DEF Take, TimeoutDelivery, Begin, Assess, Finish, NodeLost, Free, storeVars,
            TypeOK, AnalysisTypeOK
    <2> QED
        BY <1>7, <2>1
<1>9. CASE NotFound(w)
    <2>1. queue' = queue /\ held' = held /\ work[w] # "idle" /\ held[w].row \notin rows
        BY <1>9 DEF NotFound, storeVars
    <2>2. held[w].row.by \notin Pollers
        BY <2>1 DEF TaskInv
    <2> QED
        BY <1>7, <2>1, <2>2
<1>10. CASE Dispose(w)
    <2>1. queue' = queue /\ held' = held /\ risk'[held[w].row.tx] # None
        BY <1>10 DEF Dispose, RunInv, outputVars, storeVars
    <2> QED
        BY <1>7, <2>1 DEF Carried, Settled
<1>11. CASE Ack(w)
    <2>1. work[w] = "ack" /\ queue' = queue \ {held[w]} /\ work'[w] # "ack"
        BY <1>11 DEF Ack, Free, TypeOK, AnalysisTypeOK
    <2> QED
        BY <1>7, <2>1 DEF Pending
<1>12. CASE ChildLost(w)
    <2>1. queue' = queue \ {held[w]} /\ held[w].row \in dropped' /\ work'[w] # "ack"
        BY <1>12 DEF ChildLost, Free, TypeOK, AnalysisTypeOK
    <2> QED
        BY <1>7, <2>1 DEF Carried
<1>13. CASE Raise(w)
    <2>1. /\ held' = held /\ work'[w] = "ack" /\ risk' = risk /\ held[w] \in Msg
          /\ held[w].row.tx \in Tx
        BY <1>13 DEF Raise, outputVars, TypeOK, AnalysisTypeOK, Msg, Row
    <2>2. held[w].row.by \in Pollers => Settled(w)'
        <3>1. CASE held[w].try < MaxRetries
            <4> PICK n : n = Again(held[w])
                OBVIOUS
            <4>1. /\ queue' = queue \cup {n} /\ n \in queue' /\ n.row = held[w].row
                  /\ n.try = held[w].try + 1
                BY <1>13, <3>1 DEF Raise, Again
            <4>2. n.try > held[w].try /\ n # held[w]
                BY <1>1, <2>1, <4>1
            <4>3. CASE \A v \in Workers : work[v] = "ack" => held[v] # n
                <5>1. Pending(n)'
                    BY <1>5, <2>1, <4>1, <4>2, <4>3 DEF Pending
                <5> QED
                    BY <2>1, <4>1, <4>2, <5>1 DEF Settled
            <4>4. ASSUME NEW v \in Workers, work[v] = "ack", held[v] = n, held[w].row.by \in Pollers
                  PROVE  Settled(w)'
                <5>1. Settled(v) /\ held[v].row = held[w].row /\ held[v].try > held[w].try
                    BY <4>1, <4>2, <4>4 DEF TrackInv
                <5>2. CASE risk[held[v].row.tx] # None \/ held[v].row \in dropped
                    BY <1>3, <2>1, <5>1, <5>2 DEF Settled
                <5>3. ASSUME NEW m \in queue, Pending(m), m.row = held[v].row, m.try > held[v].try
                      PROVE  Settled(w)'
                    <6>1. m.try > held[w].try /\ m # held[w]
                        BY <1>1, <2>1, <4>1, <5>1, <5>3, <4>4
                    <6>2. Pending(m)'
                        BY <1>5, <2>1, <4>1, <5>3, <6>1 DEF Pending
                    <6> QED
                        BY <2>1, <4>1, <5>1, <5>3, <6>1, <6>2 DEF Settled
                <5> QED
                    BY <5>1, <5>2, <5>3 DEF Settled
            <4> QED
                BY <4>3, <4>4
        <3>2. CASE ~(held[w].try < MaxRetries)
            BY <1>13, <2>1, <3>2 DEF Raise, Settled
        <3> QED
            BY <3>1, <3>2
    <2>3. ASSUME NEW m \in queue, Pending(m), m.row.by \in Pollers PROVE Carried(m)
        <3>1. m \in queue'
            BY <1>13, <2>3 DEF Raise
        <3>2. CASE m = held[w]
            BY <1>1, <2>1, <2>2, <2>3, <3>2 DEF Settled, Carried
        <3> QED
            BY <1>7, <2>1, <2>3, <3>1, <3>2
    <2> QED
        BY <2>1, <2>2, <2>3
<1> QED
    BY <1>8, <1>9, <1>10, <1>11, <1>12, <1>13 DEF WorkerStep

\* Whatever the interleaving and the faults, a row stored by the poll is assessed,
\* has a task in the queue, is about to be dispatched, or its task was given up by
\* a fault.
THEOREM PolledIsTrackedHolds == Spec => []PolledIsTracked
<1>1. Init => TrackInv
    BY DEF Init, StoreInit, AnalysisInit, TrackInv
<1>2. /\ TypeOK /\ KeyInv /\ TaskInv /\ (RunInv /\ LevelInv) /\ TrackInv /\ TypeOK'
      /\ [Next]_vars
      => TrackInv'
    <2>1. ASSUME UNCHANGED vars, TrackInv PROVE TrackInv'
        BY <2>1 DEF vars, storeVars, ingestVars, pollVars, analysisVars, workVars, outputVars,
            TrackInv, Safe, Settled, Pending, PollRow
    <2> QED
        BY <2>1, TrackIngest, TrackAnalysis DEF Next
<1>3. TrackInv => PolledIsTracked
    BY DEF TrackInv, Safe, Tracked, PolledIsTracked
<1> QED
    BY <1>1, <1>2, <1>3, TypeCorrect, KeyInvariant, TaskInvariant, RunInvariant, PTL DEF Spec

-----------------------------------------------------------------------------
(* One dispatch, one assessment                                               *)

\* The task that ingestion publishes is the first of its row, and of a row not assessed.
LEMMA NewTask ==
    ASSUME DispatchInv, IngestNext
    PROVE  \/ queue' = queue
           \/ \E row : /\ queue' = queue \cup {FirstTask(row)}
                       /\ \A m \in queue : m.row # row
                       /\ row \in rows => risk[row.tx] = None
                       /\ rows' = rows
<1>1. ASSUME NEW r \in Requests, Dispatch(r)
      PROVE  /\ queue' = queue \cup {FirstTask(RequestRow(r))}
             /\ \A m \in queue : m.row # RequestRow(r)
             /\ RequestRow(r) \notin rows /\ rows' = rows
    BY <1>1 DEF Dispatch, DispatchInv, RequestRow
<1>2. ASSUME NEW p \in Pollers, PollDispatch(p)
      PROVE  /\ queue' = queue \cup {FirstTask(PollRow(p))}
             /\ \A m \in queue : m.row # PollRow(p)
             /\ risk[PollRow(p).tx] = None /\ rows' = rows
    BY <1>2 DEF PollDispatch, DispatchInv, PollRow
<1>3. CASE (\A r \in Requests : ~Dispatch(r)) /\ (\A p \in Pollers : ~PollDispatch(p))
    BY <1>3 DEF IngestNext, RequestStep, PollerStep, Post, Receive, Lookup, Flush, Commit,
        RequestFails, PollFetch, PollLookup, PollDone, PollFlush, PollCommit, PollFails, storeVars
<1> QED
    BY <1>1, <1>2, <1>3

\* A session leaves its dispatch behind once, and no row is committed that is assessed.
LEMMA DispatchStep ==
    ASSUME TypeOK, KeyInv, TaskInv, LevelInv, DispatchInv, IngestNext, UNCHANGED analysisVars
    PROVE  DispatchInv'
<1> USE DEF TypeOK, IngestTypeOK, storeVars, pollVars, analysisVars, outputVars
<1>1. ASSUME UNCHANGED <<rows, queue, risk, poll, item>>,
             NEW r \in Requests, Receive(r) \/ Lookup(r) \/ Flush(r) \/ RequestFails(r)
      PROVE  DispatchInv'
    BY <1>1 DEF DispatchInv, Receive, Lookup, Flush, RequestFails, Goto, ReqStep, PollRow
<1>2. CASE Post
    BY <1>2 DEF DispatchInv, Post, PollRow
<1>3. ASSUME NEW r \in Requests, Dispatch(r) PROVE DispatchInv'
    <2>1. \A m \in queue' : m \in queue \/ m.row = RequestRow(r)
        BY <1>3 DEF Dispatch, FirstTask
    <2>2. \A p \in Pollers : RequestRow(r) # PollRow(p)
        BY StoreAssumption DEF RequestRow, PollRow
    <2> QED
        BY <1>3, <2>1, <2>2 DEF DispatchInv, Dispatch, Goto, PollRow, RequestRow
<1>4. ASSUME NEW r \in Requests, Commit(r) PROVE DispatchInv'
    BY <1>4 DEF DispatchInv, Commit, Goto, PollRow, RequestRow
<1>5. ASSUME NEW p \in Pollers, PollFetch(p) \/ PollLookup(p) \/ PollDone(p) \/ PollFails(p)
      PROVE  DispatchInv'
    <2>1. poll'[p] \notin {"commit", "dispatch"} /\ UNCHANGED <<req, rows, queue, risk>>
        BY <1>5 DEF PollFetch, PollLookup, PollDone, PollFails, PollEnds, PollGoto
    <2>2. \A q \in Pollers \ {p} : poll'[q] = poll[q] /\ item'[q] = item[q]
        BY <1>5 DEF PollFetch, PollLookup, PollDone, PollFails, PollEnds, PollGoto
    <2> QED
        BY <2>1, <2>2 DEF DispatchInv, PollRow
<1>6. ASSUME NEW p \in Pollers, PollFlush(p) PROVE DispatchInv'
    <2>1. UNCHANGED <<req, rows, queue, risk, item>>
          /\ \A q \in Pollers \ {p} : poll'[q] = poll[q]
        BY <1>6 DEF PollFlush, PollEnds, PollGoto
    <2>2. CASE Stored(item[p])
        <3>1. poll'[p] = "idle"
            BY <1>6, <2>2 DEF PollFlush, PollEnds, PollGoto
        <3> QED
            BY <2>1, <3>1 DEF DispatchInv, PollRow
    <2>3. CASE ~Stored(item[p])
        <3>1. risk[item[p]] = None
            BY <1>6, <2>3 DEF LevelInv, PollFlush
        <3>2. PollRow(p) \notin rows
            BY <2>3 DEF Stored, PollRow
        <3>3. \A m \in queue : m.row # PollRow(p)
            BY <3>2 DEF TaskInv, PolledTaskFindsRow, PollRow
        <3> QED
            BY <2>1, <3>1, <3>3 DEF DispatchInv, PollRow
    <2> QED
        BY <2>2, <2>3
<1>7. ASSUME NEW p \in Pollers, PollCommit(p) PROVE DispatchInv'
    <2>1. \A row \in rows' : row \in rows \/ row.by \notin Requests
        BY <1>7, StoreAssumption DEF PollCommit, PollRow
    <2> QED
        BY <1>7, <2>1 DEF DispatchInv, PollCommit, PollGoto, PollRow
<1>8. ASSUME NEW p \in Pollers, PollDispatch(p) PROVE DispatchInv'
    <2>1. \A m \in queue' : m \in queue \/ m.row = PollRow(p)
        BY <1>8 DEF PollDispatch, FirstTask
    <2>2. \A q \in Pollers \ {p} : PollRow(q) # PollRow(p) /\ poll'[q] = poll[q]
        BY <1>8 DEF PollRow, PollDispatch, PollGoto
    <2>3. PollRow(p).by \notin Requests /\ poll'[p] = "lookup"
        BY <1>8, StoreAssumption DEF PollRow, PollDispatch, PollGoto
    <2> QED
        BY <1>8, <2>1, <2>2, <2>3 DEF DispatchInv, PollDispatch, PollRow
<1> QED
    BY <1>1, <1>2, <1>3, <1>4, <1>5, <1>6, <1>7, <1>8
    DEF IngestNext, RequestStep, PollerStep, Receive, Lookup, Flush, RequestFails

\* Ingestion keeps one task for each row.
LEMMA OnceIngest ==
    ASSUME TypeOK, KeyInv, TaskInv, LevelInv, OnceInv, IngestNext, UNCHANGED analysisVars
    PROVE  OnceInv'
<1> SUFFICES ASSUME replays' = 0
             PROVE  HeldInv' /\ OneTaskInv' /\ DispatchInv' /\ CountInv'
    BY DEF OnceInv
<1>1. UNCHANGED <<work, held, risk, alerts, ctrs>>
    BY DEF analysisVars, workVars, outputVars
<1>2. HeldInv /\ OneTaskInv /\ DispatchInv /\ CountInv
    BY DEF OnceInv, analysisVars
<1>3. queue' = queue
      \/ \E row : /\ queue' = queue \cup {FirstTask(row)}
                  /\ \A m \in queue : m.row # row
                  /\ row \in rows => risk[row.tx] = None
                  /\ rows' = rows
    BY <1>2, NewTask
<1>4. \A m \in queue : Live(m)' => Live(m)
    BY <1>1 DEF Live
<1>5. HeldInv' /\ CountInv'
    BY <1>1, <1>2, <1>3 DEF HeldInv, CountInv
<1>6. \A m, n \in queue' : Live(m)' /\ m.row = n.row /\ m # n => n.try < m.try
    BY <1>2, <1>3, <1>4 DEF OneTaskInv, FirstTask
<1>7. \A m \in queue : Live(m)' /\ m.row \in rows' => risk[m.row.tx] = None
    <2> SUFFICES ASSUME NEW m \in queue, Live(m), m.row \in rows', m.row \notin rows
                 PROVE  risk[m.row.tx] = None
        BY <1>2, <1>4 DEF OneTaskInv
    <2>1. m.row \in open /\ m.row.tx \in Tx
        BY RowStep DEF TypeOK, StoreTypeOK, Row
    <2> QED
        BY <2>1 DEF LevelInv, Stored, KeyInv
<1>8. OneTaskInv'
    BY <1>1, <1>3, <1>6, <1>7 DEF OneTaskInv, FirstTask
<1> QED
    BY <1>2, <1>5, <1>8, DispatchStep

\* A worker's step keeps one task for each row, unless it repeats a run.
LEMMA OnceAnalysis ==
    ASSUME TypeOK, KeyInv, RunInv, OnceInv, AnalysisNext, UNCHANGED ingestVars
    PROVE  OnceInv'
<1> SUFFICES ASSUME replays' = 0
             PROVE  HeldInv' /\ OneTaskInv' /\ DispatchInv' /\ CountInv'
    BY DEF OnceInv
<1> PICK w \in Workers :
        WorkerStep(w) \/ TimeoutDelivery(w) \/ Raise(w) \/ NodeLost(w) \/ ChildLost(w)
    BY DEF AnalysisNext
<1>1. replays = 0 /\ ~Replay
    BY DEF WorkerStep, Take, TimeoutDelivery, Begin, NotFound, Assess, Finish, Dispose, Ack,
        Raise, NodeLost, ChildLost, Replay, TypeOK, AnalysisTypeOK
<1>2. HeldInv /\ OneTaskInv /\ DispatchInv /\ CountInv
    BY <1>1 DEF OnceInv
<1>3. UNCHANGED <<rows, open, req, poll, item>>
    BY AnalysisKeepsRows DEF ingestVars, pollVars
<1>4. \A m \in queue : m.try \in Nat /\ m \in Msg
    BY StoreAssumption DEF TypeOK, StoreTypeOK, Msg
<1>5. \A v \in Workers \ {w} : work'[v] = work[v] /\ held'[v] = held[v]
    BY DEF WorkerStep, Take, TimeoutDelivery, Begin, NotFound, Assess, Finish, Dispose, Ack,
        Raise, NodeLost, ChildLost, Free, TypeOK, AnalysisTypeOK
<1>6. \A p \in Pollers : PollRow(p)' = PollRow(p)
    BY <1>3 DEF PollRow
<1>7. ASSUME queue' \subseteq queue, UNCHANGED <<risk, alerts, ctrs>>,
             \A m \in queue' : Live(m)' => Live(m)
      PROVE  OneTaskInv' /\ DispatchInv' /\ CountInv'
    BY <1>2, <1>3, <1>6, <1>7 DEF OneTaskInv, DispatchInv, CountInv
<1>8. CASE Take(w)
    <2>1. PICK m \in queue : ~Busy(m) /\ Begin(w, m)
        BY <1>8 DEF Take
    <2>2. UNCHANGED <<queue, risk, alerts, ctrs>> /\ work'[w] = "load" /\ held'[w] = m
        BY <2>1 DEF Begin, storeVars, outputVars, TypeOK, AnalysisTypeOK
    <2>3. \A v \in Workers : held[v] # m
        BY <2>1 DEF Busy
    <2>4. HeldInv'
        BY <1>2, <1>5, <2>2, <2>3 DEF HeldInv
    <2>5. \A n \in queue' : Live(n)' => Live(n)
        BY <1>5, <2>1, <2>2 DEF Live, Begin
    <2> QED
        BY <1>7, <2>2, <2>4, <2>5
<1>9. CASE NotFound(w) \/ Assess(w) \/ Dispose(w)
    <2>1. /\ UNCHANGED <<queue, held, risk, alerts, ctrs>>
          /\ work[w] # "idle" /\ work'[w] # "idle"
          /\ work[w] \in {"dispose", "ack"} => work'[w] \in {"dispose", "ack"}
        BY <1>9 DEF NotFound, Assess, Dispose, storeVars, outputVars, TypeOK, AnalysisTypeOK
    <2>2. HeldInv'
        BY <1>2, <1>5, <2>1 DEF HeldInv
    <2>3. \A n \in queue' : Live(n)' => Live(n)
        BY <1>5, <2>1 DEF Live
    <2> QED
        BY <1>7, <2>1, <2>2, <2>3
<1>10. CASE Ack(w) \/ ChildLost(w)
    <2>1. /\ UNCHANGED <<risk, alerts, ctrs>>
          /\ queue' = queue \ {held[w]} /\ work[w] # "idle" /\ work'[w] = "idle"
        BY <1>10 DEF Ack, ChildLost, Free, outputVars, TypeOK, AnalysisTypeOK
    <2>2. HeldInv'
        BY <1>2, <1>5, <2>1 DEF HeldInv
    <2>3. \A n \in queue' : Live(n)' => Live(n)
        BY <1>5, <2>1 DEF Live
    <2> QED
        BY <1>7, <2>1, <2>2, <2>3
<1>11. CASE NodeLost(w)
    <2>1. /\ UNCHANGED <<queue, risk, alerts, ctrs>>
          /\ work[w] \notin {"dispose", "ack"} /\ work'[w] = "idle"
        BY <1>1, <1>11 DEF NodeLost, Free, outputVars, TypeOK, AnalysisTypeOK
    <2>2. HeldInv'
        BY <1>2, <1>5, <2>1 DEF HeldInv
    <2>3. \A n \in queue' : Live(n)' => Live(n)
        BY <1>5, <2>1 DEF Live
    <2> QED
        BY <1>7, <2>1, <2>2, <2>3
<1>12. ASSUME work[w] \in {"load", "commit"}
       PROVE  /\ held[w] \in queue /\ Live(held[w])
              /\ \A n \in queue : n.row = held[w].row /\ n # held[w] => n.try < held[w].try /\ ~Live(n)
    <2>1. held[w] \in queue
        BY <1>2, <1>12 DEF HeldInv
    <2>2. Live(held[w])
        BY <1>2, <1>12, <2>1 DEF HeldInv, Live
    <2> QED
        BY <1>2, <1>4, <2>1, <2>2 DEF OneTaskInv
<1>13. CASE Finish(w)
    <2> DEFINE m == held[w]
               t == held[w].row.tx
    <2>1. /\ work[w] = "commit" /\ work'[w] = "dispose" /\ UNCHANGED <<queue, held>>
          /\ m \in queue /\ Live(m) /\ m.row \in rows /\ t \in Tx
        BY <1>4, <1>12, <1>13 DEF Finish, RunInv, storeVars, TypeOK, AnalysisTypeOK, Msg, Row
    <2>2. \A u \in Tx \ {t} : risk'[u] = risk[u] /\ alerts'[u] = alerts[u] /\ ctrs'[u] = ctrs[u]
        BY <1>13, <2>1 DEF Finish, TypeOK, AnalysisTypeOK
    <2>3. risk[t] = None
        BY <1>2, <2>1 DEF OneTaskInv
    <2>4. HeldInv'
        BY <1>2, <1>5, <2>1 DEF HeldInv
    <2>5. CountInv'
        <3>1. alerts[t] = 0 /\ ctrs[t] = 0
            BY <1>2, <2>1, <2>3 DEF CountInv
        <3>2. alerts'[t] \in {0, 1} /\ ctrs'[t] \in {0, 1}
            BY <1>13, <2>1, <3>1 DEF Finish, TypeOK, AnalysisTypeOK
        <3>3. risk'[t] # None
            BY <1>13, <2>1, AnalysisAssumption DEF Finish, TypeOK, AnalysisTypeOK
        <3> QED
            BY <1>2, <2>2, <3>2, <3>3 DEF CountInv
    <2>6. \A n \in queue : Live(n)' => Live(n) /\ n # m
        BY <1>5, <2>1 DEF Live
    <2>7. ASSUME NEW n \in queue, Live(n)', n.row \in rows PROVE n.row.tx # t
        <3>1. Live(n) /\ n # m
            BY <2>6, <2>7
        <3>2. n.row # m.row
            BY <1>12, <2>1, <3>1
        <3> QED
            BY <2>1, <2>7, <3>2 DEF KeyInv
    <2>8. OneTaskInv'
        <3>1. \A n \in queue : n.row.tx \in Tx
            BY <1>4 DEF Msg, Row
        <3> HIDE DEF t
        <3> QED
            BY <1>2, <1>3, <2>1, <2>2, <2>6, <2>7, <3>1 DEF OneTaskInv
    <2>9. DispatchInv'
        <3>1. \A p \in Pollers : poll[p] \in {"commit", "dispatch"} => item[p] # t /\ item[p] \in Tx
            <4> SUFFICES ASSUME NEW p \in Pollers, poll[p] \in {"commit", "dispatch"}
                         PROVE  item[p] # t /\ item[p] \in Tx
                OBVIOUS
            <4>1. PollRow(p) \in rows \cup open /\ item[p] \in Tx /\ PollRow(p).tx = item[p]
                BY DEF KeyInv, TypeOK, IngestTypeOK, PollRow
            <4>2. m.row # PollRow(p)
                BY <1>2, <2>1 DEF DispatchInv
            <4> QED
                BY <2>1, <4>1, <4>2 DEF KeyInv
        <3> HIDE DEF t
        <3> QED
            BY <1>2, <1>3, <1>6, <2>1, <2>2, <3>1 DEF DispatchInv
    <2> QED
        BY <2>4, <2>5, <2>8, <2>9
<1>14. CASE Raise(w)
    <2>1. /\ work[w] \in {"load", "commit"} /\ work'[w] = "ack"
          /\ UNCHANGED <<held, risk, alerts, ctrs>>
        BY <1>1, <1>14 DEF Raise, outputVars, TypeOK, AnalysisTypeOK
    <2>2. CASE ~(held[w].try < MaxRetries)
        <3>1. queue' = queue
            BY <1>14, <2>2 DEF Raise
        <3>2. HeldInv'
            BY <1>2, <1>5, <2>1, <3>1 DEF HeldInv
        <3>3. \A n \in queue' : Live(n)' => Live(n)
            BY <1>5, <2>1, <3>1 DEF Live
        <3> QED
            BY <1>7, <2>1, <3>1, <3>2, <3>3
    <2>3. CASE held[w].try < MaxRetries
        <3> PICK m, again : m = held[w] /\ again = Again(held[w])
            OBVIOUS
        <3>1. /\ queue' = queue \cup {again} /\ again.row = m.row /\ again.try = m.try + 1
              /\ m \in queue /\ m.try \in Nat
            BY <1>4, <1>12, <1>14, <2>1, <2>3 DEF Raise, Again
        <3>2. HeldInv'
            BY <1>2, <1>5, <2>1, <3>1 DEF HeldInv
        <3>3. \A n \in queue' : Live(n)' => n = again \/ (n \in queue /\ Live(n) /\ n # m)
            BY <1>5, <2>1, <3>1 DEF Live
        <3>4. \A n \in queue : n.row = m.row => n.try < again.try
            BY <1>4, <1>12, <2>1, <3>1
        <3>5. \A n \in queue : n.row = m.row /\ n # m => ~Live(n)
            BY <1>12, <2>1
        <3>6. \A n, o \in queue' : Live(n)' /\ n.row = o.row /\ n # o => o.try < n.try
            BY <1>2, <3>1, <3>3, <3>4, <3>5 DEF OneTaskInv
        <3>7. m.row \in rows => risk[m.row.tx] = None
            BY <1>2, <1>12, <2>1 DEF OneTaskInv
        <3>8. OneTaskInv'
            BY <1>2, <1>3, <2>1, <3>1, <3>3, <3>6, <3>7 DEF OneTaskInv
        <3>9. DispatchInv' /\ CountInv'
            BY <1>2, <1>3, <1>6, <2>1, <3>1 DEF DispatchInv, CountInv
        <3> QED
            BY <3>2, <3>8, <3>9
    <2> QED
        BY <2>2, <2>3
<1> QED
    BY <1>1, <1>8, <1>9, <1>10, <1>11, <1>13, <1>14 DEF WorkerStep, TimeoutDelivery

\* Unless a run that had ended is repeated, a transaction is assessed at most once: retries,
\* lost workers and the deliveries and polls that race for its row leave it one alert and
\* one report at the most (analysis.py:55-75, webhooks.py, celery_app.py: task_acks_late).
THEOREM OnceUnlessReplayedHolds == Spec => []OnceUnlessReplayed
<1>1. Init => OnceInv
    <2> SUFFICES ASSUME Init PROVE HeldInv /\ OneTaskInv /\ DispatchInv /\ CountInv
        BY DEF OnceInv
    <2>1. HeldInv /\ OneTaskInv
        BY DEF Init, StoreInit, AnalysisInit, HeldInv, OneTaskInv
    <2>2. DispatchInv /\ CountInv
        BY DEF Init, StoreInit, IngestInit, AnalysisInit, DispatchInv, CountInv
    <2> QED
        BY <2>1, <2>2
<1>2. TypeOK /\ KeyInv /\ TaskInv /\ (RunInv /\ LevelInv) /\ OnceInv /\ [Next]_vars => OnceInv'
    <2>1. ASSUME UNCHANGED vars, OnceInv PROVE OnceInv'
        BY <2>1 DEF vars, storeVars, ingestVars, pollVars, analysisVars, workVars, outputVars,
            OnceInv, HeldInv, OneTaskInv, DispatchInv, CountInv, Live, PollRow
    <2> QED
        BY <2>1, OnceIngest, OnceAnalysis DEF Next
<1>3. OnceInv => OnceUnlessReplayed
    BY DEF OnceInv, CountInv, OnceUnlessReplayed
<1> QED
    BY <1>1, <1>2, <1>3, TypeCorrect, KeyInvariant, TaskInvariant, RunInvariant, PTL DEF Spec

================================================================================
