-------------------------------- MODULE Casework --------------------------------
(***************************************************************************)
(* What analysts do with alerts and investigation cases through the API,     *)
(* interleaved with the hourly escalation task.                              *)
(*                                                                         *)
(* No row is read FOR UPDATE and no version is checked: every operation      *)
(* reads the row, works on the copy and writes it back (READ COMMITTED), so  *)
(* reading and writing are two steps.  SQLAlchemy writes only the columns    *)
(* that differ from what was read.  An API operation writes once, with its   *)
(* commit, and is one step from its UPDATE on; the task updates several rows *)
(* before it commits, and holds their locks.                                 *)
(*                                                                         *)
(* All alerts are of one client, whose cases are the cases of Owned.         *)
(***************************************************************************)
EXTENDS Naturals, FiniteSets

CONSTANTS
    Alerts,
    Severe,         \* alerts with a score >= _ESCALATION_SCORE_THRESHOLD
    High,           \* alerts with a score >= 0.6
    HighCount,      \* _HIGH_ALERT_COUNT_THRESHOLD (3 in the code)
    Cases,
    Owned,          \* cases with a fineract_client_id
    Analysts,       \* concurrent API requests
    MaxEdits,       \* bound: API operations of a behaviour
    MaxFaults,      \* bound: task runs that fail
    None

VARIABLES
    alertStatus,    \* alerts.status ("none" before the analysis raises it)
    alertStamped,   \* alerts.closed_at and closed_by are set
    audited,        \* the statuses that the audit log records of an alert
    caseStatus,     \* cases.status ("none" before the case is created)
    caseStamped,    \* cases.closed_at and closed_by are set
    deadline,       \* cases.sla_deadline and escalation_reason are set
    stale,          \* created_at is more than _ESCALATION_HOURS ago
    request,        \* what each API request is about to write
    left,           \* cases that the task's run has selected and not yet judged
    locked,         \* cases that it has updated and not committed
    running,        \* the task is running
    edits,
    faults

alertVars == <<alertStatus, alertStamped, audited>>
caseVars == <<caseStatus, caseStamped, deadline, stale>>
taskVars == <<left, locked, running, faults>>
vars == <<alertVars, caseVars, request, taskVars, edits>>

ASSUME CaseworkAssumption ==
    /\ Severe \subseteq High /\ High \subseteq Alerts
    /\ Owned \subseteq Cases
    /\ HighCount \in Nat /\ MaxEdits \in Nat /\ MaxFaults \in Nat

AlertStatus ==
    {"pending", "under_review", "confirmed_fraud", "false_positive", "escalated", "dismissed"}
CaseStatus ==
    {"open", "investigating", "escalated", "closed_legitimate", "closed_fraud", "sar_filed"}

TerminalAlert == {"confirmed_fraud", "false_positive", "dismissed"}

TerminalCase == {"closed_legitimate", "closed_fraud", "sar_filed"}

\* Mutant: a review writes its decision as the status.
ReviewStatusVerdict == {"confirmed_fraud", "legitimate", "suspicious"}

\* CONFIRMED_FRAUD, LEGITIMATE and SUSPICIOUS.
ReviewStatus == {"confirmed_fraud", "false_positive", "escalated"}

\* An API request that has read its row: what it will write, and what it read.
Request ==
    [op : {"assign", "status", "review"}, alert : Alerts, seen : AlertStatus, new : AlertStatus]
    \cup
    [op : {"assign", "status"}, case : Cases, seen : CaseStatus, new : CaseStatus]

TypeOK ==
    /\ alertStatus \in [Alerts -> AlertStatus \cup {"none"}]
    /\ alertStamped \in [Alerts -> BOOLEAN]
    /\ audited \in [Alerts -> SUBSET AlertStatus]
    /\ caseStatus \in [Cases -> CaseStatus \cup {"none"}]
    /\ caseStamped \in [Cases -> BOOLEAN]
    /\ deadline \in [Cases -> BOOLEAN]
    /\ stale \in [Cases -> BOOLEAN]
    /\ request \in [Analysts -> Request \cup {None}]
    /\ left \subseteq Cases /\ locked \subseteq Cases
    /\ running \in BOOLEAN
    /\ edits \in Nat /\ faults \in Nat

Init ==
    /\ alertStatus = [a \in Alerts |-> "none"]
    /\ alertStamped = [a \in Alerts |-> FALSE]
    /\ audited = [a \in Alerts |-> {}]
    /\ caseStatus = [c \in Cases |-> "none"]
    /\ caseStamped = [c \in Cases |-> FALSE]
    /\ deadline = [c \in Cases |-> FALSE]
    /\ stale = [c \in Cases |-> FALSE]
    /\ request = [u \in Analysts |-> None]
    /\ left = {} /\ locked = {} /\ running = FALSE
    /\ edits = 0 /\ faults = 0

\* The column's value after the UPDATE: untouched if the copy has not changed it.
Write(current, q) == IF q.new = q.seen THEN current ELSE q.new

-----------------------------------------------------------------------------
(* Alerts and cases appear; cases grow old                                    *)

RaiseAlert(a) ==
    /\ alertStatus[a] = "none"
    /\ alertStatus' = [alertStatus EXCEPT ![a] = "pending"]
    /\ UNCHANGED <<alertStamped, audited, caseVars, request, taskVars, edits>>

CreateCase(c) ==
    /\ caseStatus[c] = "none"
    /\ caseStatus' = [caseStatus EXCEPT ![c] = "open"]
    /\ UNCHANGED <<alertVars, caseStamped, deadline, stale, request, taskVars, edits>>

GrowStale(c) ==
    /\ caseStatus[c] # "none"
    /\ stale' = [stale EXCEPT ![c] = TRUE]
    /\ ~stale[c]
    /\ UNCHANGED <<alertVars, caseStatus, caseStamped, deadline, request, taskVars, edits>>

-----------------------------------------------------------------------------
(* The API                                                                    *)

Read(u, q) ==
    /\ request[u] = None
    /\ edits < MaxEdits
    /\ edits' = edits + 1
    /\ request' = [request EXCEPT ![u] = q]
    /\ UNCHANGED <<alertVars, caseVars, taskVars>>

\* PATCH /alerts/{id}/assign, whatever the status was, PATCH /alerts/{id}/status
\* and POST /alerts/{id}/review.
ReadAlert(u) ==
    \E a \in Alerts :
        /\ alertStatus[a] # "none"
        /\ \E op \in {"assign", "status", "review"} :
           \E new \in CASE op = "assign" -> {"under_review"}
                        [] op = "status" -> AlertStatus
                        [] op = "review" -> ReviewStatus :
               Read(u, [op |-> op, alert |-> a, seen |-> alertStatus[a], new |-> new])

\* PATCH /cases/{id}/status.
ReadCaseForStatus(u) ==
    \E c \in Cases, new \in CaseStatus :
        /\ caseStatus[c] # "none"
        /\ Read(u, [op |-> "status", case |-> c, seen |-> caseStatus[c], new |-> new])

\* PATCH /cases/{id}/assign: the first assignment starts the investigation.
ReadCaseForAssign(u) ==
    \E c \in Cases :
        /\ caseStatus[c] # "none"
        /\ Read(u, [op |-> "assign", case |-> c, seen |-> caseStatus[c],
                    new |-> IF caseStatus[c] = "open" THEN "investigating" ELSE caseStatus[c]])

Answered(u) ==
    /\ request' = [request EXCEPT ![u] = None]
    /\ UNCHANGED edits

IsAlertRequest(q) == q # None /\ "alert" \in DOMAIN q
IsCaseRequest(q) == q # None /\ "case" \in DOMAIN q

\* Mutant: a review is not logged.
WriteAlertSilentReview(u) ==
    LET q == request[u] IN
    /\ IsAlertRequest(q)
    /\ alertStatus' = [alertStatus EXCEPT ![q.alert] = Write(@, q)]
    /\ alertStamped' = [alertStamped EXCEPT
                           ![q.alert] = @ \/ (q.op = "status" /\ q.new \in TerminalAlert)]
    /\ audited' = [audited EXCEPT
                      ![q.alert] = IF q.op # "status" THEN @ ELSE @ \cup {q.new}]
    /\ Answered(u)
    /\ UNCHANGED <<caseVars, taskVars>>

\* Only the status endpoint stamps the closing; assignments are not logged.
WriteAlert(u) ==
    LET q == request[u] IN
    /\ IsAlertRequest(q)
    /\ alertStatus' = [alertStatus EXCEPT ![q.alert] = Write(@, q)]
    /\ alertStamped' = [alertStamped EXCEPT
                           ![q.alert] = @ \/ (q.op = "status" /\ q.new \in TerminalAlert)]
    /\ audited' = [audited EXCEPT
                      ![q.alert] = IF q.op = "assign" THEN @ ELSE @ \cup {q.new}]
    /\ Answered(u)
    /\ UNCHANGED <<caseVars, taskVars>>

\* Mutant: filing a report is not counted among the closings.
WriteCaseNoSar(u) ==
    LET q == request[u] IN
    /\ IsCaseRequest(q)
    /\ q.case \notin locked
    /\ caseStatus' = [caseStatus EXCEPT ![q.case] = Write(@, q)]
    /\ caseStamped' = [caseStamped EXCEPT
                          ![q.case] = @ \/ (q.op = "status" /\ q.new \in TerminalCase \ {"sar_filed"})]
    /\ Answered(u)
    /\ UNCHANGED <<alertVars, deadline, stale, taskVars>>

\* The UPDATE waits for the task's row lock.
WriteCase(u) ==
    LET q == request[u] IN
    /\ IsCaseRequest(q)
    /\ q.case \notin locked
    /\ caseStatus' = [caseStatus EXCEPT ![q.case] = Write(@, q)]
    /\ caseStamped' = [caseStamped EXCEPT
                          ![q.case] = @ \/ (q.op = "status" /\ q.new \in TerminalCase)]
    /\ Answered(u)
    /\ UNCHANGED <<alertVars, deadline, stale, taskVars>>

-----------------------------------------------------------------------------
(* The escalation task                                                        *)

Pending == {"open", "investigating"}

\* Mutant: the age of a case is not looked at.
SelectAnyAge ==
    /\ ~running
    /\ running' = TRUE
    /\ left' = {c \in Cases : caseStatus[c] \in Pending}
    /\ UNCHANGED <<alertVars, caseVars, request, locked, edits, faults>>

\* Mutant: a case under investigation is not looked at.
SelectOpenOnly ==
    /\ ~running
    /\ running' = TRUE
    /\ left' = {c \in Cases : caseStatus[c] = "open" /\ stale[c]}
    /\ UNCHANGED <<alertVars, caseVars, request, locked, edits, faults>>

Select ==
    /\ ~running
    /\ running' = TRUE
    /\ left' = {c \in Cases : caseStatus[c] \in Pending /\ stale[c]}
    /\ UNCHANGED <<alertVars, caseVars, request, locked, edits, faults>>

\* Alerts that have not been found harmless.
Live == {a \in Alerts : alertStatus[a] \notin {"none", "false_positive", "dismissed"}}

\* _escalation_reason: one severe alert, or many high ones.
Hot ==
    \/ Live \cap Severe # {}
    \/ Cardinality(Live \cap High) >= HighCount

\* The next selected case is judged by the alerts of this moment, and on its
\* copy of the moment of the selection.
Judge ==
    \E c \in left :
        /\ left' = left \ {c}
        /\ locked' = IF c \in Owned /\ Hot THEN locked \cup {c} ELSE locked
        /\ UNCHANGED <<alertVars, caseVars, request, running, edits, faults>>

CommitEscalation ==
    /\ running /\ left = {}
    /\ caseStatus' = [c \in Cases |-> IF c \in locked THEN "escalated" ELSE caseStatus[c]]
    /\ deadline' = [c \in Cases |-> deadline[c] \/ c \in locked]
    /\ running' = FALSE
    /\ locked' = {}
    /\ UNCHANGED <<alertVars, caseStamped, stale, request, left, edits, faults>>

\* The run dies: its transaction is rolled back, and the next hour's run starts
\* over.
EscalationFails ==
    /\ running
    /\ faults < MaxFaults
    /\ faults' = faults + 1
    /\ running' = FALSE /\ left' = {} /\ locked' = {}
    /\ UNCHANGED <<alertVars, caseVars, request, edits>>

EscalationStep == Select \/ Judge \/ CommitEscalation

-----------------------------------------------------------------------------

Next ==
    \/ \E a \in Alerts : RaiseAlert(a)
    \/ \E c \in Cases : CreateCase(c) \/ GrowStale(c)
    \/ \E u \in Analysts :
          \/ ReadAlert(u) \/ ReadCaseForStatus(u) \/ ReadCaseForAssign(u)
          \/ WriteAlert(u) \/ WriteCase(u)
    \/ EscalationStep \/ EscalationFails

Spec == Init /\ [][Next]_vars

\* The beat starts the task every hour and a run goes on; a request that has
\* read its row writes it.
FairSpec ==
    /\ Spec
    /\ WF_vars(EscalationStep)
    /\ \A u \in Analysts : WF_vars(WriteAlert(u) \/ WriteCase(u))

-----------------------------------------------------------------------------
(* Properties                                                                 *)

\* A closed case says when and by whom it was closed, whatever stale copies were
\* written over it ("COBAC audit trail" in models/case.py).
ClosedCaseIsStamped ==
    \A c \in Cases : caseStatus[c] \in TerminalCase => caseStamped[c]

\* Every decision on an alert is in the audit log, even one that a stale
\* assignment has undone in the meantime and that was taken again.
DecidedAlertIsAudited ==
    \A a \in Alerts :
        alertStatus[a] \notin {"none", "pending", "under_review"} =>
            alertStatus[a] \in audited[a]

\* The task never puts a case under the reporting deadline that is younger than
\* 24 hours or names no client.
DeadlineIsDue ==
    \A c \in Cases : deadline[c] => stale[c] /\ c \in Owned

\* A stale case does not stay open for ever while its client's alerts call for
\* its escalation.
StaleHotCaseIsTaken ==
    \A c \in Owned : []<>~(caseStatus[c] \in Pending /\ stale[c] /\ Hot)

-----------------------------------------------------------------------------
(* Inductive strengthening, for the proofs                                    *)

\* An assignment writes no decision: it reviews an alert, and starts or keeps a
\* case.
RequestInv ==
    \A u \in Analysts :
        /\ IsAlertRequest(request[u]) /\ request[u].op = "assign" =>
               request[u].new = "under_review"
        /\ IsCaseRequest(request[u]) /\ request[u].op = "assign" =>
               request[u].new \in {"investigating", request[u].seen}

\* The task holds only stale cases, and updates only those of a client.
TaskInv ==
    /\ \A c \in left \cup locked : stale[c]
    /\ locked \subseteq Owned

CaseworkInv ==
    /\ ClosedCaseIsStamped
    /\ DecidedAlertIsAudited
    /\ DeadlineIsDue
    /\ RequestInv
    /\ TaskInv

-----------------------------------------------------------------------------
(* What the documents say and the code does not keep                          *)

\* "Stale cases: Investigation cases open for more than 30 days without
\* resolution are automatically escalated": a resolved case is left alone.
EscalationLeavesResolved ==
    [][CommitEscalation => \A c \in locked : caseStatus[c] \notin TerminalCase]_vars

================================================================================
