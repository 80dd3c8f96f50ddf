# Fineract-AML in TLA+

Fineract-AML watches the transactions of an Apache Fineract core banking system
for money laundering: it stores them, scores them, raises alerts and regulatory
reports, and gives analysts a workflow for alerts and cases. These modules model
the Python backend (`src/backend/app`, cited below as `app/...`). TLC checks
them on small instances; TLAPS proves the main theorems for all values of the
constants.

## 1. The system

### Components

| Component | State | Operations | Must be right |
|---|---|---|---|
| Webhook ingestion: `api/webhook.py`, `services/transaction_service.py` | `transactions` rows | receive a delivery: validate, look up, insert, dispatch a task, commit (`core/database.get_db`) | one row per Fineract id; every row is analysed; "already processed" is true |
| Polling: `tasks/polling.py` | none; its page of ids | every 60 s: fetch the latest 100, insert what is missing, commit, dispatch | a lost webhook is made up for; a task never runs ahead of its row |
| Task queue: `tasks/celery_app.py` | messages in Redis | late acknowledgement, prefetch 1, retries, redelivery, beat schedule | no task is silently forgotten |
| Analysis: `tasks/analysis.py`, `services/sanctions_service.py` | level and scores of a row, `alerts`, `rule_matches`, `screening_results`, `currency_transaction_reports` | load, rules, models, combined score, level, alert, screening, report, commit | level, alert and report appear together and once; a risky transaction has an alert |
| Alerts: `api/alerts.py`, `services/alert_service.py` | alert status, closing stamp, reviews, audit log | assign, change status, review | decisions are audited and stamped |
| Cases: `api/cases.py`, `services/case_service.py` | case status, closing stamp, linked transactions | create, change status, assign, add transaction | closed cases say by whom |
| Escalation: `services/escalation_service.py`, `tasks/escalation.py` | `sla_deadline`, `escalation_reason` | hourly: escalate stale cases with hot alerts; report passed deadlines | only due cases are escalated, all of them in the end, none reopened |
| Currency transaction reports: `api/ctrs.py` | report status, date of filing, COBAC's reference | file, acknowledge | a filed report has its date |
| Credit: `api/credit.py`, `services/credit_service.py`, `tasks/credit_scoring.py`, `ml/credit_scorer.py` | `customer_credit_profiles`, `credit_requests` | score one or all clients, request, review | one profile per client; one decision per request, never automatic |
| Model files: `ml/anomaly_detector.py`, `ml/fraud_classifier.py`, `ml/shadow_scorer.py`, `tasks/promote_shadow.py`, `tasks/training.py` | files on a shared volume, lazily loaded copies | train and save, load, promote the shadow model | a load never sees half a file; what failed validation never serves; damage is repaired |
| Loan monitoring: `tasks/loan_monitoring.py` | `loan_disbursement_watches` | checks after 24 h and 48 h | one alert per watch, and no finding is lost with it |
| Graph layer: `graph/`, `tasks/graph_backfill.py` | external graph store, `alerts` of rings | live upsert, daily backfill, score, ring detection | neighbours of fraud score; one open alert per ring |
| Watchlist sync: `tasks/watchlist_sync.py` | `watchlist_entries` | replace a source's entries | no listed name is ever missing from the list |
| Customers: `services/kyc_service.py`, `api/customers.py` | `customers` | create or fill from Fineract, store an identity, assess risk | one record per client, its risk that of its data, its identity kept |
| Rules and scores: `rules/`, `services/scoring_service.py`, `features/` | none; reads the histories of account, counterparty, agent | rule results, weights, combined score, live answer | a pattern over several rows is found by one of their analyses |
| Dataset import: `scripts/import_ibm_aml_data.py` | transactions and labelled alerts | two passes over a file, batches, one commit | one label per transaction |
| Retention: `tasks/retention.py` | `screening_results` | delete old clear results | |
| LLM investigation, SAR export, agent profiles, authentication, dashboard, data generators | little of their own | | |

### Interactions

One Postgres database (READ COMMITTED, no `SELECT ... FOR UPDATE`, no version
columns) is shared by the API processes and the Celery workers. The API hands
work to the workers through one queue in Redis; the beat starts the periodic
tasks. Nobody calls anybody else: everything meets in rows, unique keys, row
locks and messages. An API request is one session that commits after the handler
has returned; a task is one session that commits where its code says.

### What is hard

* Lookup and insert are two statements; deliveries and polls of one transaction
  overlap. An insert waits for the other session's uncommitted key, and then
  fails or succeeds.
* `.delay()` and commit are two steps; the webhook and the poll put them in
  opposite orders.
* A task is delivered at least once: retries, visibility timeout, lost nodes; and
  at most once after its child process is lost (`task_reject_on_worker_lost` is
  off).
* An analysis writes many rows in one commit, and can still raise after it.
* Analysts and the hourly task write over copies that they read before; an UPDATE
  names only the columns that the copy changed.
* The rules judge a row by a history read when a worker comes to it, not when the
  row was made: late rows, other workers and the row itself are in it or not.
* A model is several files, replaced one by one under processes that load them
  one by one.
* Periodic tasks check and then insert, or delete and then insert, with nothing
  to keep two runs apart; most of them have tests of one run only.

`PROJECT.json` lists each hazard at its line with the properties that watch it.

## 2. The modules

| Module | Models | State ↔ code |
|---|---|---|
| `PipelineStore` | what ingestion and analysis share | `rows`: committed `transactions`; `open`: flushed, uncommitted rows; `queue`: unacknowledged messages |
| `Ingestion` | webhook handler, poll run | `req`/`poll`: the next await of a handler; `reqTx`, `item`, `todo`: its locals; `posted`: what Fineract has |
| `Analysis` | Celery workers running `analyze_transaction` | `work`: the next step of `_analyze`; `held`: the message; `level`, `alerting`: uncommitted writes; `risk`, `alerts`, `ctrs`: committed |
| `Pipeline` | `Ingestion` and `Analysis` together | properties, invariants, refinement of the book |
| `TransactionBook` | the promise: enter once, assess in one piece | abstract specification |
| `Casework` | alerts and cases API, escalation task | `alertStatus`, `caseStatus`, ... the columns; `request`: an API call between read and write; `left`, `locked`: the task's run |
| `CreditDesk` | credit API, nightly batch, reviews | `profile`, `request`, `status`: committed rows; `draft`: each session's flushed, uncommitted profiles; `step`, `client`, `fresh`, `copy`: where a session stands and its locals; `todo`, `done`: a batch's loop; `review`: a review between read and write |
| `ModelStore` | trainers, promotion, scoring processes | `disk`: the files; `job`: the saving that is under way; `worker`: the loaded parts; `vetted`: what passed the gate |
| `RuleEngine` | the rules, as operators on a row and its histories | none |
| `FraudLedger` | the table as the rules and both scorers see it (extends `RuleEngine`) | `book`: rows in order of arrival; `analysis`: rules and level found for each |
| `CreditHistory` | the score that a client's history comes to | `moves`, `alerts`: what `credit_service.py` reads |
| `LoanMonitoring` | `check_loan_behavior` | `watch`: the row; `check`: each task's step and locals |
| `GraphLayer` | live upserts, backfill, ring detector | `shares`, `pays`, `bad`: the graph; `rings`: alerts; `backfill`, `detector`: the tasks' locals |
| `WatchlistSync` | `_sync_ofac_sdn`, screening, purge | `rows`: the list; `sync`: each session; `screenings` |
| `ReportFiling` | `api/ctrs.py` | `report`: the row; `filing`: each officer's request between load and commit |
| `CustomerRecords` | `kyc_service.py`, `api/customers.py` | `record`: the row; `call`: each request; `client`: what Fineract has |
| `DatasetImport` | `import_ibm_aml_data.py` | `at`, `batch`, `reservoir`, `stats`: locals of the second pass; `written`, `imported`: uncommitted and committed |
| `BackOffice` | the seven modules above from `CreditHistory` on, side by side | `part`: which one a behaviour is about |
| `Absent` | the value of an unset column, shared by the parts | |
| `MCPipeline`, `MCCasework`, `MCCredit`, `MCModels`, `MCLedger`, `MCBackOffice` | instances for TLC | |
| `PipelineProofs`, `CaseworkProofs`, `CreditProofs`, `ModelProofs`, `LedgerProofs` | theorems about the module of that name | |
| `PartProofs` | theorems about `GraphLayer`, `CustomerRecords`, `WatchlistSync`, `ReportFiling` | |
| `OfficeProofs` | theorems about `LoanMonitoring`, `DatasetImport`, `CreditHistory` and the composition | |
| `SumTheorems` | sums over finite sets, quotients and products: lemmas for `LedgerProofs` and `OfficeProofs` | |

A step ends where the code awaits something that another session can see or
change: a query, a flush, a commit, a publication. What happens between two of
them is one action.

Operators preceded by a comment "Mutant:" are plausible slips of the code. No
specification uses them; each one, put in the place of its original, breaks the
property that `PROJECT.json` pairs it with.

### The pipeline

A delivery goes `Receive`, `Lookup`, `Flush`, `Dispatch`, `Commit`; a poll run
`PollFetch`, then for each id from the highest `PollLookup`, `PollFlush`,
`PollCommit`, `PollDispatch`; a worker `Take`, `NotFound` or `Assess`, `Finish`,
`Dispose`, `Ack`. `RequestFails`, `PollFails`, `Raise`, `NodeLost` and
`ChildLost` are the failures, `TimeoutDelivery` is a second delivery while the
first still runs.

Abstractions:

* The scores of rules, models and graph are data: a run computes any level, a new
  one each time. The levels medium and high are one ("raised"), as nothing that
  follows distinguishes them.
* A payload is its id and whether it is valid, large, and from or to a listed
  counterparty. A row polled from Fineract carries no counterparty name
  (`_poll_fineract` sets none), so the screening has nothing to match.
* A row is named by its id and the session that inserted it, which stands for the
  UUID. The queue is a set of messages: two equal messages (same row, same try)
  are one, as either one's acknowledgement would be. Retries differ by their
  count.
* Rule matches, screening results, metrics and logs are left out.
* The Celery broker is external: it delivers an unacknowledged message, to a second worker
  as well once the visibility timeout has passed.

### Casework

An API request is a read step, which builds the record of what it will write, and
a write step, which is its UPDATE and commit. `Write` is SQLAlchemy's unit of
work: a column whose value equals the one read is not in the UPDATE. The task's
run is `Select`, a `Judge` per selected case (the queries of `_escalation_reason`
see the alerts of that moment) and `CommitEscalation`; from its UPDATE on, it
holds the row's lock, and a request's UPDATE waits. All alerts are of one client;
links of cases to transactions, notes and descriptions are left out.

### Credit

A refresh (`compute_credit_profile`) is the same code in an API call, a credit
request and the nightly batch: `Score`, `LookupProfile`, then `Upsert` or, if
another session's insert got in between, `UpsertCollides`. A call commits after
its one client (`CommitCall`, which stores the request as well), a batch after
`BatchSize` clients or at the end (`CommitBatch`). `draft[s]` is what a session
has flushed: it holds the row locks, so a session whose client another one
`Holds` waits, and sessions that wait in a ring are broken by the database
(`BreakDeadlock`).

* `RolledBack` is what an exception does. A call is answered 500. The batch
  catches the exception *without* a rollback (`credit_scoring.py:61`), after which
  SQLAlchemy refuses every statement of the session and its next commit raises:
  the uncommitted clients and the rest of the run are lost. Only an exception
  that leaves the session intact costs one client (`SkipClient`).
* `Updated` is SQLAlchemy's UPDATE as in `Casework`: a column equal to the copy
  that was looked up is not written.
* A client's transactions come to a score in percent, any of a set given per
  client; tiers, limits and recommendations are the code's, limits and amounts in
  thousands of XAF. The limit of a profile goes with its tier, except for a client
  with too few transactions (tier E, limit 0), where every recommendation is
  "reject" either way. `EXPIRED` is a status that nothing sets.

### Model files

A family of files (anomaly detector, fraud classifier with its shadow slot,
credit clusters) is saved by the steps of `SaveSteps`: a rename of a complete
temporary file, or, where the code dumps in place, an opening and a filling. A
scoring process loads file by file (`LoadModel`, `LoadScaler`), predicts and
forgets: a detector is made for each transaction. `Train(passes)` is a training
with the outcome of the validation gate; its vectors have the width of the moment,
which `ToggleGraph` changes. A generation names a training and is reused once no
file, job or process holds it, so trainings are not bounded.

### Rules and histories

`RuleEngine` has one operator per rule with the code's thresholds as constants and
severities in hundredths; `FraudLedger!History` is the query of
`get_account_history`: by account and cutoff, the row under analysis included.
`Record` takes a row's date from the past, `Analyse` reads the histories of the
moment. Anomaly detector, classifier and graph contribute 0 or 100 or are absent.
The live endpoint changes nothing and is the operator `LiveRecommendation`. Left
out: the feature vector, and how a task reaches a worker, which is `Pipeline`.

### The back office

Seven small state machines share neither rows nor messages, so `BackOffice` lets a
behaviour be about one of them; their product would be the same states many times
over. `GraphLayer` is run twice, as "guilt" (backfill and score) and as "rings"
(detector), because the two tasks meet only in the edges, which both parts write.

* `LoanMonitoring`: a check loads the watch, reads the movements, merges and
  commits; it may be late, fail and be retried twice, be redelivered with
  its worker lost, and overlap the other check (`overlapped` records that).
* `WatchlistSync`: `DeleteOld` takes the rows committed at that moment; a row
  bears its sync, so two copies of a name are two rows.
* `CustomerRecords`: `Left` is the row as the session leaves it, `Update` its
  UPDATE column by column; `crossed` records that two sessions have filled one row.
* `DatasetImport`: the sample is any sample that the reservoir can hold.
* `CreditHistory`: time in steps of three months, money in units of 50,000 XAF; the
  exponential of the code's sigmoid is a table of hundredths.

## 3. The runs

| Run | Question | Result |
|---|---|---|
| `pipeline` | one transaction, two deliveries, a poll, two workers, two faults, one replay: is the store consistent, is a polled row never forgotten, does every step implement `TransactionBook`? | holds, 299,616 states |
| `pipeline_live` | two transactions, one refused ahead of the other in each page: is every posted one stored, every polled one assessed? | holds under fairness, 84,341 states |
| `pipeline_lost` | is every row analysed or about to be, without any fault? | no: see finding 1 |
| `casework` | two analysts and the task on two alerts and two cases | holds, 508,510 states |
| `casework_resolved` | does the task leave closed cases alone? | no: finding 2 |
| `credit` | two calls, a batch, a reviewer and a fault on one client: is a recommendation backed, is an answered call stored? | holds, 2,039,479 states |
| `credit_live` | two overlapping batches, two clients, one fault: does every profile follow its client? | holds under fairness, 126,181 states |
| `models` | a trainer, the promotion, a scorer, a crash, a change of width: what can a load see, what may serve, is damage repaired? | holds, the last under fairness, 618,672 states |
| `models_promote` | can the classifier be loaded after a promotion? | no: finding 3 |
| `ledger` | rows of one account or four, late or not, in any order of analysis, with and without models: is every pattern found? | holds, 121,693 states |
| `ledger_address` | is a new address marked? | no: finding 4 |
| `backoffice` | the seven parts, each with overlapping, failing and repeated tasks | holds, 558,030 states |

### What the properties say

* `UniqueRow`, `DuplicateIsStored`: the race of lookup and insert is decided by
  the unique key, and the loser's answer is true.
* `PolledTaskFindsRow`: the order commit, dispatch keeps tasks behind rows even
  under redelivery and retry. Its counterpart for the webhook is false.
* `PolledIsTracked`: a polled row is assessed, queued, about to be dispatched, or
  was given up at a fault that is on record (`dropped`): crash between commit and
  dispatch, last retry used, child process lost.
* `OnceUnlessReplayed`: only a run repeated after its commit gives a second alert
  or report; `replays` counts those.
* `RiskyHasAlert`, `LargeHasReport`, `BookSpec`: the one commit of a run makes
  level, alert and report visible together.
* `PostedIsStored`, `PolledIsAssessed`: the poll is the safety net of lost
  webhooks.
* `ClosedCaseIsStamped`, `DecidedAlertIsAudited`: no order of stale writes
  separates a status from its stamp or its audit entry.
* `DeadlineIsDue`, `StaleHotCaseIsTaken`: the task sets a deadline on stale
  client cases only, and takes each of them in the end.

* `ApprovalIsBacked`: the request takes score, tier and limit from its own
  session's object; read back from the row, they could be another session's.
* `AnsweredIsStored`: profile and request are flushed separately and committed
  together; no collision, deadlock or crash keeps one without the other.
* `ProfileCatchesUp`: a stale or mixed profile is temporary; some batch brings it
  in line, although batches poison their sessions and deadlock with each other.

* `DetectorFilesAreWhole`: the renames of the detector's files hide every half
  written one. The cluster model, dumped in place, has no such promise: a scoring of
  that moment fails. `DamageHeals` says that a later run repairs what a crash leaves.
* `WidthErrorNeedsMix`: the width guard of `predict` compares with the scaler, so
  the only way past it is a load across two trainings.
* `ServingIsVetted`: the gate holds for the shadow slot too.
* `BurstIsFlagged`, `RoundTripIsFlagged`, `SmurfsAreFlagged`: whichever row
  comes or is analysed last completes the pattern, because a history holds all rows
  of its window, committed late or not. `BurstIsFlagged` rests on the row being in
  its own history, which is what breaks the address rule.
* `LiveIsFoundAgain`: what `POST /score` reports of a payload, the analysis of the
  row finds as well; `MatchedIsNotLow`: the mean of severities is no lower than the
  mildest rule, and that is above the level low.
* `LoanVerdictIsKept`, `RingIsRaisedOnce`, `ListHasNoGap`, `IdentityIsKept`: each
  names the one interleaving that does harm (overlapping checks, detectors, syncs,
  fills) and says that nothing else does: no retry, loss, failure or delay.
* `GuiltIsSeen`: a complete backfill makes up for every upsert that was lost.
* `FiledIsDated`: a session that finds the report filed does not write the status,
  but another may have set it back; the date is written in each case.
* `LabelsAreSound`: labels follow what was inserted, and the counts of a run add up.
* `ScoreAnswersToConduct`: the penalty goes by the most recent alert, so a late
  confirmation of an old one does not raise the score.

### Bounds

| Bound | Value | Why it is enough |
|---|---|---|
| `NumTx` | 1 (safety), 2 (liveness) | transactions share no state but the page of the poll and the retry of a run; a second one matters where one item ends the run for the others |
| `Requests`, `Pollers`, `Workers` | 2, 1, 2 | every pair of kinds meets: two deliveries, delivery and poll, two runs of one task |
| `MaxRetries` | 1 (3 in the code) | first try, retry and giving up all occur |
| `MaxFaults` | 2 (safety), 1 (liveness) | a failure and a failure of its recovery |
| `MaxReplays` | 1 | alerts and reports reach 2 |
| `MaxEdits` | 2 | both analysts hold a copy of one row at once, or one of them acts twice around the task |
| `HighCount` | 2 (3 in the code) | the count matters and is reached |
| `Casework!MaxFaults` | 1 | a run that fails and is started over |
| `CreditDesk!MaxMoves` | 3 (`credit`, `credit_live`), 2 | the history changes before, between and after two overlapping refreshes |
| `Calls`, `Batches`, `Clients` | 2, 1, 1 (`credit`); 0, 2, 2 (`credit_live`) | calls and batch on one row; batches that take two rows in opposite orders |
| `BatchSize` | 2 (500 in the code) | `credit_live`: full batches of two, and a last one that is not full |
| `MCScores`, `MCAmounts` | 70, 75, 85; 800 | two scores of one tier and one of the next; an amount that only the better tier approves |
| `CreditDesk!MaxFaults` | 1 | a session is lost and another one makes up for it |
| `ModelStore!Workers`, `Gens` | 1, 5 | scoring processes only read, one is as good as two; more names than files, jobs and a process can hold |
| `MaxCrashes`, `MaxToggles` | 1, 1 | a damaged set of files and its repair; both widths on disk |
| `FraudLedger` amounts, `Hour`, `Day` | large 5, structuring 4, round 3; 1, 3 | scaled: payloads of 3, 4 and 8 lie in each range; lateness 2 is outside the hour and inside the day |
| rows of a case | 2, 3, 4 | a burst is 2 rows, a round trip 2, smurfing 4 accounts; `RapidCount` is 2 (20 in the code) |
| `MaxMoves`, `FraudAlerts`, `MaxMonths` | 3, 2, 9 | two alerts of different age, and history that leaves the 180 days |
| `MaxLosses`, loan movements | 1, 3 | each pattern is reached by two or three of the movements |
| graph | 3 transactions, 3 accounts, 1 device, 2 detectors, ring of 2 (3 in the code) | neighbours by device and by payment; rings that grow while being judged |
| `Syncs`, `Names` | 3, 2 | two overlapping syncs and one after them |
| `Officers`, `MaxFilings` | 2, 4 | each files and acknowledges, with and without a reference |
| `Calls`, `Persons` | 3, 2 | two that cross and a later one |
| `Files`, `MaxImports` | 2, 3 | repeated rows in a file and across files, a file imported twice |

Symmetry: `credit` permutes the calls, `ledger` the four paying accounts,
`backoffice` the syncs, calls and the pairs of names, identities, references and
alerts that share a set of model values. No liveness property is checked with it.

### Fairness

`Pipeline!Fairness`: a started handler continues, the beat starts the poll every
60 s (`celery_app.py:39`) and a run goes on, a worker that is up takes messages
and goes on with its own. Nothing is assumed of Fineract's postings, of
deliveries, or of faults. `Casework!FairSpec`: the hourly task starts
(`celery_app.py:55`) and continues; a request that has read its row writes it.
`CreditDesk!FairSpec`: calls go on, the beat starts the batch every night
(`celery_app.py:31`) and it goes on. Strong fairness of the upsert of each session
and client: PostgreSQL grants a row lock in the order of arrival, so a session
cannot be overtaken on a row for ever; weak fairness would allow that, as the
upsert is disabled whenever another session holds the row.
`ModelStore!FairSpec`: the beat keeps starting the trainings (`celery_app.py:23`; those of
the detector and the clusters have no gate), and a run that is not killed goes on.

`CHECK_DEADLOCK` is off in `ledger`, `ledger_address` and `backoffice`: their clocks,
rows and requests run out at the bounds. It is on elsewhere.

## 4. The theorems

Every safety invariant and every action property that the runs check is a theorem,
and so is the refinement of the book: for any number of transactions, deliveries, poll
runs, workers, retries, alerts, cases, clients, scores, sessions, files, movements,
accounts, devices, names and so on. The theorems rest on the ASSUMEs of the modules,
which TLC evaluates in the runs: the types of the constants, and of `RuleEngine` the
order of its thresholds. Two theorems say more of a constant: `GuiltIsSeenHolds` and
`OfficeSeesGuilt` take `Hops` to be 2 or 3. The default is 2 (`core/config.py`,
`graph_k_hops`) and the client clamps it to 1..3 (`graph/client.py:190`); with one hop
an account that shares a device, two edges away, is out of sight and the statement is
false.

* `TypeCorrect`, `CaseworkTypeCorrect`, `CreditTypeCorrect`, `ModelTypeCorrect`,
  `LedgerTypeCorrect`, `OfficeTypeCorrect`: the type invariants.
* `UniqueRowHolds` from `KeyInv`: uniqueness over committed *and* uncommitted
  rows, because a commit moves a row from one to the other; with it a session
  that has inserted still holds its row.
* `PolledTaskFindsRowHolds` from `TaskInv`: the workers' held messages have to be
  included, as a retry puts them back in the queue.
* `PipelineImplementsBook`: each step of the pipeline is a step of the book or
  leaves it unchanged, under `KeyInv` (a commit registers a new id) and `RunInv`
  (an assessed row is stored).
* `RiskyHasAlertHolds`, `LargeHasReportHolds`, `DuplicateIsStoredHolds` from
  `RunInv` and `LevelInv`.
* `PolledIsTrackedHolds` from `TrackInv`. `PolledIsTracked` is not inductive: the
  message that tracks a row may be the one a worker is about to acknowledge.
  `Pending` excludes those, and `Settled` says that a worker about to acknowledge
  has left a *later try* of the task (or a level, or a record of giving up). The
  count decides: an acknowledgement by another copy of the same message removes
  only that try.
* `OnceUnlessReplayedHolds` from `OnceInv`. A second alert needs a second run that
  commits, so the invariant is about the messages that can still be run to the end
  (`Live`): as long as nothing was replayed each worker holds a message of its own
  (`HeldInv`), a row has at most one live message, the latest of its tries, and none
  once it is assessed (`OneTaskInv`), a session publishes one (`DispatchInv`), and what
  is counted is counted once (`CountInv`). The step that matters is the retry: the
  worker that gives up a try puts the next one in the queue, and its own is no longer
  live.
* `CaseworkSafety`: `ClosedCaseIsStamped`, `DecidedAlertIsAudited` and
  `DeadlineIsDue`, from `RequestInv` (an assignment writes no decision; a case
  assignment that changes the status writes only "investigating") and `TaskInv`
  (the run holds stale cases, and updates those of a client only).
* `CreditApprovalIsBacked`, `CreditAnsweredIsStored`: from `SessionInv` (a session
  at a client knows the client and its score; a profile it has looked up is still
  there, because profiles are never deleted; a call about to commit has written
  its own) and `ReviewInv` (only what has been filed is reviewed, so a late review
  cannot bring a request into being). `Segment` is a CHOOSE: `SegmentType` shows that
  every score has a tier.
* `FilingIsDated`, from `FilingInv`: `FiledIsDated` is not inductive, as a session
  that loaded the report as filed will not write the status. What it needs is that
  a date, once there, stays: the copy's "filed" implies a date on the row.
* `IdentityIsKeptAlways`, from `RecordInv`: each session's copy and row carry an
  identity that was answered, or none, and are assessed (`IsAssessed`) until two
  sessions fill one row; a session without a copy can only insert, which the unique
  key refuses when another was first.
* `DetectorFilesAreWholeAlways`, from `WholeInv` (the detector's files are replaced
  whole, nobody promotes over them, and a load that is past its first file finds the
  second); `ServingIsVettedAlways`, from `VettedInv` (what a saving or a promotion has
  in hand passed the gate too); `WidthErrorNeedsMixAlways`, from `MixInv`: a name that
  is in use stands for one training, so for one width, because a training takes a name
  that no file, job or process holds.
* `ListHasNoGapEver`, from `WatchInv`: a list in hand contains what every publication
  contained (`ListInv`); two open deletions overlap, and so do a deletion and a row it
  has not seen (`CopyInv`), which a commit turns into rows of two syncs.

* The ledger. `BurstIsFlaggedHolds`, `RoundTripIsFlaggedHolds`, `SmurfsAreFlaggedHolds`
  follow from three facts: a step never changes a row or a finding (`LedgerStep`), a
  history is what was committed within its window, so the last analysis of a pattern
  sees all of it, and the sum of a history is no less than that of a part
  (`VolumeGrows`). `MatchedIsNotLowHolds` is about the mean: every severity is 0 or at
  least 30 (`EvaluateIs`), so the mean of those that trigger is at least 30
  (`CombinedIs`), which is above low. `LiveIsFoundAgainHolds` compares two evaluations of
  the thirteen rules (`EvaluateGrows`): the worker's histories contain the endpoint's,
  timed out or not, and no rule that triggers on the smaller one is silent on the larger.
* `LoanVerdictIsKeptAlways` from `LoanInv`: a check that never met another holds the
  row as it is committed, so it does not write back an earlier finding, and a finding
  in a check's copy means that the alert was raised.
* `RingIsRaisedOnceHolds` from `RingInv`: the cluster of a device is judged once per run
  (`DetectorInv`), alerts are numbered as they come, and a run that no other crossed
  raises only what is not open. `GuiltIsSeenHolds` from `GuiltInv`: what the backfill
  has read is written or on its list, and an edge is never deleted, so a mark at a
  device or a counterparty is within reach of the account.
* `LabelsAreSoundAlways` from `ImportInv`: what the session has inserted agrees with what
  is committed, and every row that was read is counted, held in the batch or the
  reservoir, or sampled out; a batch that collides is undone and counted whole.
* `ScoreAnswersToConductAlways`, an action property, component by component: a
  confirmation adds to the confirmed alerts and can only move the latest one later, so
  the factor of the count and that of the days both fall (`CleanIs`); a repayment is a
  movement of the window that no monthly total of another kind contains
  (`MonthlySame`), does not change the age of the account (`AgeSame`) and raises at
  most frequency and repayment. That needs the type invariant: no movement and no alert
  is later than the clock.
* `OfficeIsItsParts`: a behaviour of `BackOffice` is one of each part, as every step is
  a step of the part or leaves its variables alone. `OfficeTypeCorrect`,
  `OfficeKeepsPromises` and `OfficeSeesGuilt` follow from it and the theorems of the
  parts, by temporal logic alone.

Sums are folds over finite sets, and the theorems for induction over finite sets take
an operator, which no prover here instantiates. `SumTheorems` goes round that with
sets in the place of operators: the subsets for which a claim fails are a set, a
nonempty set of finite sets has a smallest member (`Smallest`, from the
well-foundedness of strict inclusion), and a smallest counterexample is refuted by
taking one element away.

Only model-checked: the liveness properties, `PostedIsStored`, `PolledIsAssessed`,
`StaleHotCaseIsTaken`, `ProfileCatchesUp` and `DamageHeals` (TLAPS proves neither
liveness under fairness nor ENABLED). The four runs that expect a violation are
counterexamples and have nothing to prove. The modules use no RECURSIVE operator.

## 5. Findings

1. `pipeline_lost`: a worker may be faster than the webhook's commit. It finds no
   row, returns normally, the message is acknowledged, and the row is never
   analysed; the poll does not help, as the row is stored.
2. `casework_resolved`: the task writes `escalated` over a case that an analyst
   has closed since the selection.
3. `models_promote`: the shadow slot holds the bare estimator. Promotion copies it
   over the classifier's file, whose loader expects a dict, then copies the scaler
   onto itself, which raises; from then on every load raises, and with it every
   analysis (`tasks/analysis.py:224`), until the next accepted training.
4. `ledger_address`: the account's history contains the row under analysis, so the
   address of a row is always among the known ones, and the rule never triggers in
   the worker. The other rules that compare with a history take the row out.

Further disagreements, each refuted by TLC with the same modules and kept here as
text because the property would only restate the missing line:

* The alert is decided before the screening (`tasks/analysis.py:282`): a watchlist
  match lifts the level to critical and adds no alert.
* A case escalated by an analyst has no `sla_deadline` (`services/case_service.py:68`),
  and the deadline check finds only cases that have one.
* A review takes an alert to a terminal status without `closed_at` and `closed_by`
  (`services/alert_service.py:97`; `models/alert.py:57` says they are set).
* Two overlapping refreshes can leave the score of one with the tier of the other
  (`services/credit_service.py:202`), until the next refresh.
* Two reviewers can pass the guard on PENDING_REVIEW before either writes
  (`services/credit_service.py:512`); the second replaces the first decision.
* A stub for a client that Fineract does not return is made with medium risk
  (`services/kyc_service.py:118`, "Unknown = medium risk") and assessed at once,
  which makes it low.

## 6. Plan

All modules of the plan exist and every safety property of the runs is proved. What
is left, in order of worth: abstract specifications of `Casework` and `CreditDesk`, as
`TransactionBook` is one of the pipeline, with their refinement; action properties of
the pipeline (a level is never changed but by a replay) and of the desk (a decided
request stays decided), checked first and proved from the invariants that exist; the
non-temporal half of the liveness arguments, what each fair step makes smaller.

## 7. Not modelled

* The feature vector of `features/extractor.py` and what the models learn from it: a
  model's opinion is any of a set. That training builds its histories without the
  row and with strict dates (`tasks/training.py:49-60`) while the worker's include it
  is a difference in data that no property here could tell.
* Drift detection: the baseline is overwritten just before the comparison
  (`tasks/training.py:220-221`), and nothing acts on the result.
* Centrality measures and the counts on the graph's edges, which every backfill
  raises again (`graph/client.py:101-155`): they enter the features only.
* LLM investigation: calls to an external model; `tasks/llm_investigation.py:29` imports
  `AsyncSessionLocal`, and `core/database.py` defines `async_session`.
* Agent profiles: the beat schedules `app.tasks.agent_profile_update.update_agent_profiles`
  (`celery_app.py:52`), the task is registered as `tasks.update_agent_profiles`
  (`agent_profile_update.py:22`), and its session import does not exist either.
* SAR export and adverse media: formatting. Graph views, listings: reads.
* The links of cases to transactions, notes, rule match rows, audit entries of the
  retention task: nothing reads them but reports.
* Authentication: stateless checks in front of the modelled operations. The dashboard:
  a client of the API without state of its own. The generators of test data: run once,
  alone, by a developer.
