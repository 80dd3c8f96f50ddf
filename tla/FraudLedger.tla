------------------------------- MODULE FraudLedger ------------------------------
(***************************************************************************)
(* The transactions table as the rule engine and the scorer see it.  Rows     *)
(* arrive with the date that Fineract gives them, now or late; a worker        *)
(* analyses a row when it comes to it, with the histories of that moment.  The   *)
(* live endpoint answers for a payload that has no row, with its own histories   *)
(* and weights, and changes nothing: it is an operator.                       *)
(*                                                                         *)
(* A case is [models, graphOn, payloads, lateness, rows]: models is "none",        *)
(* "anomaly" or "both", lateness how old a row can be when it arrives.          *)
(* A payload is [id, account, kind, amount, cp, ip, agent, night, date]: the      *)
(* rules see nothing else of it, and a row gets its id and date when it arrives. *)
(* How a task is delivered, retried and committed is the subject of Pipeline,    *)
(* how a model comes to be trained that of ModelStore.                        *)
(***************************************************************************)
EXTENDS RuleEngine, Sequences

CONSTANTS
    Cases,          \* what is trained and switched on, the payloads that Fineract
                    \* reports and their delays, and a bound on the rows
    Hour,           \* the velocity window
    MaxNow          \* bound: the clock

VARIABLES
    case,           \* the deployment of this behaviour
    now,
    book,           \* the rows, in the order they were inserted
    analysis        \* what the worker found of each row (None: not yet)

ledgerVars == <<case, now, book, analysis>>

Payloads == UNION {c.payloads : c \in Cases}
Of(field) == {p[field] : p \in Payloads}

Entry ==
    [id : Nat, account : Of("account"), kind : {"deposit", "withdrawal", "transfer"},
     amount : Nat \ {0}, cp : Of("cp"), ip : Of("ip"), agent : Of("agent"),
     night : BOOLEAN, date : Int]

ASSUME LedgerAssumption ==
    /\ Hour \in Nat \ {0} /\ Hour <= Day /\ MaxNow \in Nat
    /\ Payloads \subseteq Entry
    /\ \A c \in Cases :
          /\ c.models \in {"none", "anomaly", "both"} /\ c.graphOn \in BOOLEAN
          /\ c.rows \in Nat /\ c.lateness \subseteq 0 .. Day

Level == {"low", "medium", "high", "critical"}
Finding == [rules : SUBSET Rule, level : Level, at : Nat, rows : Nat]

\* _risk_level_from_score and TransactionService.update_risk_score.
RiskLevel(score) ==
    IF score >= 85 THEN "critical"
    ELSE IF score >= 60 THEN "high"
    ELSE IF score >= 30 THEN "medium" ELSE "low"

Recommendation(level) ==
    CASE level = "critical" -> "block" [] level = "high" -> "review"
      [] level = "medium" -> "monitor" [] level = "low" -> "pass"

Ids == 1 .. Len(book)
Rows == {book[i] : i \in Ids}

\* Mutant: the row has no identity of its own.
DatedOnly(p, i, date) == [p EXCEPT !.date = date]

Dated(p, i, date) == [p EXCEPT !.id = i, !.date = date]

LedgerTypeOK ==
    /\ case \in Cases
    /\ now \in 0 .. MaxNow
    /\ book \in Seq(Entry) /\ Len(book) <= case.rows
    /\ \A i \in Ids : book[i].id = i /\ book[i].date \in -Day .. now
    /\ analysis \in Seq(Finding \cup {None}) /\ Len(analysis) = Len(book)
    /\ \A i \in Ids : analysis[i] # None =>
          /\ analysis[i] \in Finding
          /\ analysis[i].at <= now /\ analysis[i].rows \in i .. Len(book)

LedgerInit ==
    /\ case \in Cases
    /\ now = 0
    /\ book = <<>> /\ analysis = <<>>

-----------------------------------------------------------------------------
(* Histories                                                                 *)

\* Mutant: the row that is analysed is not in its own history.
HistoryOfOthers(rows, at, t, window) ==
    {u \in rows : u.account = t.account /\ u.date >= at - window /\ u.id # t.id}

\* get_account_history: everything of the account from the cut-off on, the row
\* that is analysed included.
History(rows, at, t, window) == {u \in rows : u.account = t.account /\ u.date >= at - window}

\* Rows that name the same counterparty, from a day before this row's date on; the rule
\* takes a history without rows and one that is not read alike.
PaidTo(rows, t) == {u \in rows : t.cp # None /\ u.cp = t.cp /\ u.date >= t.date - Day}

\* get_agent_recent_transactions
Served(rows, at, t) == {u \in rows : u.agent = t.agent /\ u.date >= at - Day}

-----------------------------------------------------------------------------
(* Scores                                                                    *)

\* The graph's share, 15 % of the result; off, and an unread graph, leave the score.
Blend(score, graph) == IF ~case.graphOn \/ graph = 0 THEN score ELSE (85 * score + 15 * graph) \div 100

\* Mutant: a score of rules alone is halved as if a detector had been trained.
PipelineScoreHalved(rule, anomaly, ml) == (rule + anomaly) \div 2

\* The worker's weights.
PipelineScore(rule, anomaly, ml) ==
    CASE case.models = "both" -> (50 * rule + 30 * anomaly + 20 * ml) \div 100
      [] case.models = "anomaly" -> (rule + anomaly) \div 2
      [] case.models = "none" -> rule

\* The live endpoint's weights.
LiveScore(rule, anomaly, ml) ==
    CASE case.models = "both" -> (50 * ml + 30 * anomaly + 20 * rule) \div 100
      [] case.models = "anomaly" -> (rule + anomaly) \div 2
      [] case.models = "none" -> rule

-----------------------------------------------------------------------------

Record(p, age) ==
    /\ Len(book) < case.rows
    /\ book' = Append(book, Dated(p, Len(book) + 1, now - age))
    /\ analysis' = Append(analysis, None)
    /\ UNCHANGED <<case, now>>

\* Mutant: the day's patterns are looked for in the last hour.
PipelineSeverityHour(t) ==
    Evaluate(t, History(Rows, now, t, Hour), History(Rows, now, t, Hour), PaidTo(Rows, t),
             Served(Rows, now, t))

PipelineSeverity(t) ==
    Evaluate(t, History(Rows, now, t, Hour), History(Rows, now, t, Day), PaidTo(Rows, t),
             Served(Rows, now, t))

\* The worker's analysis of a row: the anomaly detector, the classifier and the graph
\* say what they say, when there is one.
Analyse(i, anomaly, ml, graph) ==
    /\ analysis[i] = None
    /\ LET severity == PipelineSeverity(book[i])
           score == Blend(PipelineScore(CombinedScore(severity), anomaly, ml), graph)
       IN  analysis' = [analysis EXCEPT ![i] =
               [rules |-> Triggered(severity), level |-> RiskLevel(score),
                at |-> now, rows |-> Len(book)]]
    /\ UNCHANGED <<case, now, book>>

\* What score_transaction finds of a payload when the table holds rows: it has no
\* address and no id, a timeout leaves the histories empty, and nobody looks at the
\* counterparty's history.  Of an agent without a history it passes None, which skips
\* the agent's rules as the lack of an agent does.
LiveSeverity(p, rows, at, degraded) ==
    LET seen == IF degraded THEN {} ELSE rows
        served == Served(seen, at, p)
        t == [p EXCEPT !.ip = None, !.id = 0, !.date = at,
                       !.agent = IF served = {} THEN None ELSE @]
    IN  Evaluate(t, History(seen, at, t, Hour), History(seen, at, t, Day), {}, served)

LiveRecommendation(severity, anomaly, ml, graph) ==
    Recommendation(RiskLevel(Blend(LiveScore(CombinedScore(severity), anomaly, ml), graph)))

Tick ==
    /\ now < MaxNow /\ now' = now + 1
    /\ UNCHANGED <<case, book, analysis>>

\* What a model or the graph can say: nothing, or that it is sure.
Opinion == {0, 100}

LedgerNext ==
    \/ \E p \in case.payloads, age \in case.lateness : Record(p, age)
    \/ \E i \in Ids, anomaly, ml, graph \in Opinion :
          Analyse(i, anomaly, ml, graph)
    \/ Tick

LedgerSpec == LedgerInit /\ [][LedgerNext]_ledgerVars

-----------------------------------------------------------------------------
(* Properties                                                                *)

Found(i, r) == r \in analysis[i].rules

\* A burst does not slip through between the workers: of RapidCount rows of one
\* account, all analysed while all of them are in the velocity window, in whatever
\* order and however late they came in, one at least is marked as rapid
\* (engine.py:173-188 and the history of transaction_service.py:244-255).
BurstIsFlagged ==
    \A S \in kSubset(RapidCount, Ids) :
        (\A i, j \in S : /\ book[i].account = book[j].account
                         /\ analysis[i] # None /\ analysis[i].at <= book[j].date + Hour)
        => \E i \in S : Found(i, "rapid_transactions")

\* Money that comes back is seen: a deposit of what the account sent to the same
\* party less than a day before, analysed within that day, is marked as circular if
\* the outgoing row was there (engine.py:267-324).
RoundTripIsFlagged ==
    \A i, j \in Ids :
        LET back == book[i] sent == book[j] IN
        /\ back.kind = "deposit" /\ sent.kind \in {"withdrawal", "transfer"}
        /\ back.account = sent.account /\ back.cp = sent.cp /\ back.cp # None
        /\ back.amount = sent.amount
        /\ back.date >= sent.date /\ back.date - sent.date < Day
        /\ analysis[i] # None /\ analysis[i].rows >= j /\ analysis[i].at <= sent.date + Day
        => Found(i, "circular_transfer")

\* Smurfing is seen by the last of its analyses: four accounts that pay the same party
\* within a day, together more than twice the reporting threshold, leave a mark on
\* one of them at least (engine.py:392-420, analysis.py:171-183).
SmurfsAreFlagged ==
    \A S \in kSubset(4, Ids) :
        (/\ \A i, j \in S : /\ book[i].cp = book[j].cp /\ book[i].cp # None
                            /\ i # j => book[i].account # book[j].account
                            /\ analysis[i] # None /\ book[j].date >= book[i].date - Day
         /\ Volume({book[i] : i \in S}) > 2 * StructuringAmount)
        => \E i \in S : Found(i, "cross_account_structuring")

\* The live answer is not stricter than what follows: a rule that POST /score would
\* report just before a transaction is recorded, its histories read or timed out, is
\* found again when the row is analysed at once; and on rules alone, a transaction that
\* the endpoint does not pass gets a level that raises an alert
\* (scoring_service.py:3-5, "call the same code path").
LiveIsFoundAgain ==
    \A i \in Ids, degraded \in BOOLEAN :
        analysis[i] # None /\ analysis[i].rows = i /\ analysis[i].at = book[i].date =>
            LET severity == LiveSeverity(book[i], {book[j] : j \in 1 .. i - 1}, book[i].date, degraded)
            IN  /\ Triggered(severity) \subseteq analysis[i].rules
                /\ case.models = "none" /\ ~case.graphOn /\ LiveRecommendation(severity, 0, 0, 0) # "pass"
                       => analysis[i].level # "low"

\* A match raises the level: as long as no model is trained and the graph is off,
\* a row that any rule marks is medium at least, so it has an alert; the mean of the
\* severities never hides one (engine.py:56-65, analysis.py:226-247).
MatchedIsNotLow ==
    \A i \in Ids :
        case.models = "none" /\ ~case.graphOn /\ analysis[i] # None
        /\ analysis[i].rules # {} => analysis[i].level # "low"

\* engine.py:242 says "Flag transactions from an IP address not previously seen for
\* this account": a row from a second address is marked.
NewAddressIsFlagged ==
    \A i, j \in Ids :
        /\ analysis[i] # None /\ j < i
        /\ book[i].account = book[j].account
        /\ book[i].ip # None /\ book[j].ip # None
        /\ \A k \in Ids \ {i} : book[k].ip # book[i].ip
        /\ analysis[i].at <= book[j].date + Day
        => Found(i, "new_ip_address")

================================================================================
