----------------------------- MODULE CaseworkProofs -----------------------------
(***************************************************************************)
(* Theorems about Casework, for all alerts, cases, analysts and bounds.      *)
(***************************************************************************)
EXTENDS Casework, TLAPS

\* What a request on an alert, or on a case, is made of.
LEMMA RequestShape ==
    ASSUME NEW q \in Request \cup {None}
    PROVE  /\ IsAlertRequest(q) =>
                  /\ q.op \in {"assign", "status", "review"}
                  /\ q.alert \in Alerts /\ q.seen \in AlertStatus /\ q.new \in AlertStatus
           /\ IsCaseRequest(q) =>
                  /\ q.op \in {"assign", "status"}
                  /\ q.case \in Cases /\ q.seen \in CaseStatus /\ q.new \in CaseStatus
BY DEF Request, IsAlertRequest, IsCaseRequest

\* What an API request reads is a request, and it assigns what it should.
LEMMA ReadRequest ==
    ASSUME TypeOK, NEW u \in Analysts,
           ReadAlert(u) \/ ReadCaseForStatus(u) \/ ReadCaseForAssign(u)
    PROVE  \E q \in Request :
              /\ Read(u, q)
              /\ IsAlertRequest(q) /\ q.op = "assign" => q.new = "under_review"
              /\ IsCaseRequest(q) /\ q.op = "assign" => q.new \in {"investigating", q.seen}
<1>1. CASE ReadAlert(u)
    <2>1. PICK a \in Alerts, op \in {"assign", "status", "review"} :
             /\ alertStatus[a] # "none"
             /\ \E new \in CASE op = "assign" -> {"under_review"}
                              [] op = "status" -> AlertStatus
                              [] op = "review" -> ReviewStatus :
                    Read(u, [op |-> op, alert |-> a, seen |-> alertStatus[a], new |-> new])
        BY <1>1 DEF ReadAlert
    <2>2. PICK new \in CASE op = "assign" -> {"under_review"}
                         [] op = "status" -> AlertStatus
                         [] op = "review" -> ReviewStatus :
             Read(u, [op |-> op, alert |-> a, seen |-> alertStatus[a], new |-> new])
        BY <2>1
    <2>3. /\ new \in AlertStatus /\ (op = "assign" => new = "under_review")
          /\ alertStatus[a] \in AlertStatus
        BY <2>1, <2>2 DEF AlertStatus, ReviewStatus, TypeOK
    <2> DEFINE q == [op |-> op, alert |-> a, seen |-> alertStatus[a], new |-> new]
    <2>4. q \in Request /\ ~IsCaseRequest(q)
        BY <2>3 DEF Request, IsCaseRequest
    <2> QED
        BY <2>2, <2>3, <2>4
<1>2. CASE ReadCaseForStatus(u)
    <2>1. PICK c \in Cases, new \in CaseStatus :
             /\ caseStatus[c] # "none"
             /\ Read(u, [op |-> "status", case |-> c, seen |-> caseStatus[c], new |-> new])
        BY <1>2 DEF ReadCaseForStatus
    <2> DEFINE q == [op |-> "status", case |-> c, seen |-> caseStatus[c], new |-> new]
    <2>2. q \in Request /\ q.op # "assign"
        BY <2>1 DEF Request, TypeOK
    <2> QED
        BY <2>1, <2>2
<1>3. CASE ReadCaseForAssign(u)
    <2>1. PICK c \in Cases :
             /\ caseStatus[c] # "none"
             /\ Read(u, [op |-> "assign", case |-> c, seen |-> caseStatus[c],
                         new |-> IF caseStatus[c] = "open" THEN "investigating" ELSE caseStatus[c]])
        BY <1>3 DEF ReadCaseForAssign
    <2> DEFINE q == [op |-> "assign", case |-> c, seen |-> caseStatus[c],
                     new |-> IF caseStatus[c] = "open" THEN "investigating" ELSE caseStatus[c]]
    <2>2. caseStatus[c] \in CaseStatus /\ "investigating" \in CaseStatus
        BY <2>1 DEF TypeOK, CaseStatus
    <2>3. q \in Request /\ ~IsAlertRequest(q) /\ q.new \in {"investigating", q.seen}
        BY <2>2 DEF Request, IsAlertRequest
    <2> QED
        BY <2>1, <2>3
<1> QED
    BY <1>1, <1>2, <1>3

\* A step of Casework preserves the types.
LEMMA TypeStep ==
    ASSUME TypeOK, [Next]_vars
    PROVE  TypeOK'
<1> USE DEF TypeOK
<1>1. CASE UNCHANGED vars
    BY <1>1 DEF vars, alertVars, caseVars, taskVars
<1>2. ASSUME NEW a \in Alerts, RaiseAlert(a) PROVE TypeOK'
    BY <1>2 DEF RaiseAlert, AlertStatus, caseVars, taskVars
<1>3. ASSUME NEW c \in Cases, CreateCase(c) \/ GrowStale(c) PROVE TypeOK'
    BY <1>3 DEF CreateCase, GrowStale, CaseStatus, alertVars, taskVars
<1>4. ASSUME NEW u \in Analysts,
             ReadAlert(u) \/ ReadCaseForStatus(u) \/ ReadCaseForAssign(u)
      PROVE  TypeOK'
    <2>1. PICK q \in Request : Read(u, q)
        BY <1>4, ReadRequest
    <2> QED
        BY <2>1 DEF Read, alertVars, caseVars, taskVars
<1>5. ASSUME NEW u \in Analysts, WriteAlert(u) PROVE TypeOK'
    BY <1>5, RequestShape DEF WriteAlert, Write, Answered, caseVars, taskVars
<1>6. ASSUME NEW u \in Analysts, WriteCase(u) PROVE TypeOK'
    BY <1>6, RequestShape DEF WriteCase, Write, Answered, alertVars, taskVars
<1>7. CASE EscalationStep \/ EscalationFails
    <2>1. CASE Select
        BY <2>1 DEF Select, alertVars, caseVars
    <2>2. CASE Judge
        BY <2>2 DEF Judge, alertVars, caseVars
    <2>3. CASE CommitEscalation
        BY <2>3 DEF CommitEscalation, alertVars, CaseStatus
    <2>4. CASE EscalationFails
        <3>1. faults' \in Nat /\ left' \subseteq Cases /\ locked' \subseteq Cases
            BY <2>4 DEF EscalationFails
        <3> QED
            BY <2>4, <3>1, Zenon DEF EscalationFails, alertVars, caseVars
    <2> QED
        BY <1>7, <2>1, <2>2, <2>3, <2>4 DEF EscalationStep
<1> QED
    BY <1>1, <1>2, <1>3, <1>4, <1>5, <1>6, <1>7 DEF Next

\* The types of Casework are invariant.
THEOREM CaseworkTypeCorrect == Spec => []TypeOK
<1>1. Init => TypeOK
    <2> SUFFICES ASSUME Init PROVE TypeOK
        OBVIOUS
    <2>1. edits \in Nat /\ faults \in Nat /\ left \subseteq Cases /\ locked \subseteq Cases
        BY DEF Init
    <2> QED
        BY <2>1, Zenon DEF Init, TypeOK
<1> QED
    BY <1>1, TypeStep, PTL DEF Spec

-----------------------------------------------------------------------------
(* Stamps, the audit log and the reporting deadline                           *)

\* A step preserves what requests and the task hold.
LEMMA HoldsStep ==
    ASSUME TypeOK, RequestInv, TaskInv, [Next]_vars
    PROVE  RequestInv' /\ TaskInv'
<1> USE DEF RequestInv, TaskInv
<1>1. CASE UNCHANGED vars
    BY <1>1 DEF vars, caseVars, taskVars
<1>2. ASSUME NEW a \in Alerts, RaiseAlert(a) PROVE RequestInv' /\ TaskInv'
    BY <1>2 DEF RaiseAlert, caseVars, taskVars
<1>3. ASSUME NEW c \in Cases, CreateCase(c) \/ GrowStale(c) PROVE RequestInv' /\ TaskInv'
    BY <1>3 DEF CreateCase, GrowStale, taskVars, TypeOK
<1>4. ASSUME NEW u \in Analysts,
             ReadAlert(u) \/ ReadCaseForStatus(u) \/ ReadCaseForAssign(u)
      PROVE  RequestInv' /\ TaskInv'
    <2>1. PICK q \in Request :
              /\ Read(u, q)
              /\ IsAlertRequest(q) /\ q.op = "assign" => q.new = "under_review"
              /\ IsCaseRequest(q) /\ q.op = "assign" => q.new \in {"investigating", q.seen}
        BY <1>4, ReadRequest
    <2> QED
        BY <2>1 DEF Read, caseVars, taskVars, TypeOK
<1>5. ASSUME NEW u \in Analysts, WriteAlert(u) \/ WriteCase(u) PROVE RequestInv' /\ TaskInv'
    <2>1. request' = [request EXCEPT ![u] = None] /\ UNCHANGED <<stale, left, locked>>
        BY <1>5 DEF WriteAlert, WriteCase, Answered, caseVars, taskVars
    <2> QED
        BY <2>1 DEF IsAlertRequest, IsCaseRequest, TypeOK
<1>6. CASE EscalationStep \/ EscalationFails
    <2>1. UNCHANGED <<request, stale>>
        BY <1>6 DEF EscalationStep, Select, Judge, CommitEscalation, EscalationFails, caseVars
    <2>2. /\ \A c \in left' \cup locked' : stale[c]
          /\ locked' \subseteq Owned
        BY <1>6 DEF EscalationStep, Select, Judge, CommitEscalation, EscalationFails, TypeOK
    <2> QED
        BY <2>1, <2>2
<1> QED
    BY <1>1, <1>2, <1>3, <1>4, <1>5, <1>6 DEF Next

\* A write on an alert, stale or not, leaves its status audited if it is a decision.
LEMMA AuditStep ==
    ASSUME TypeOK, RequestInv, DecidedAlertIsAudited, [Next]_vars
    PROVE  DecidedAlertIsAudited'
<1>1. CASE UNCHANGED <<alertStatus, audited>>
    BY <1>1 DEF DecidedAlertIsAudited
<1>2. ASSUME NEW a \in Alerts, RaiseAlert(a) PROVE DecidedAlertIsAudited'
    BY <1>2 DEF RaiseAlert, DecidedAlertIsAudited, TypeOK
<1>3. ASSUME NEW u \in Analysts, WriteAlert(u) PROVE DecidedAlertIsAudited'
    <2> DEFINE q == request[u]
    <2>1. /\ IsAlertRequest(q) /\ q \in Request \cup {None}
          /\ alertStatus' = [alertStatus EXCEPT ![q.alert] = Write(@, q)]
          /\ audited' = [audited EXCEPT ![q.alert] = IF q.op = "assign" THEN @ ELSE @ \cup {q.new}]
        BY <1>3 DEF WriteAlert, TypeOK
    <2>2. /\ q.alert \in Alerts /\ q.new \in AlertStatus
          /\ q.op = "assign" => q.new = "under_review"
        BY <2>1, RequestShape DEF RequestInv
    <2> HIDE DEF q
    <2> QED
        BY <2>1, <2>2 DEF Write, DecidedAlertIsAudited, TypeOK
<1> QED
    BY <1>1, <1>2, <1>3
    DEF Next, CreateCase, GrowStale, ReadAlert, ReadCaseForStatus, ReadCaseForAssign, Read,
        WriteCase, EscalationStep, Select, Judge, CommitEscalation, EscalationFails,
        alertVars, vars

\* A write on a case leaves it stamped if it leaves it closed.
LEMMA StampStep ==
    ASSUME TypeOK, RequestInv, ClosedCaseIsStamped, [Next]_vars
    PROVE  ClosedCaseIsStamped'
<1>1. CASE UNCHANGED <<caseStatus, caseStamped>>
    BY <1>1 DEF ClosedCaseIsStamped
<1>2. ASSUME NEW c \in Cases, CreateCase(c) PROVE ClosedCaseIsStamped'
    BY <1>2 DEF CreateCase, ClosedCaseIsStamped, TerminalCase, TypeOK
<1>3. ASSUME NEW u \in Analysts, WriteCase(u) PROVE ClosedCaseIsStamped'
    <2> DEFINE q == request[u]
    <2>1. /\ IsCaseRequest(q) /\ q \in Request \cup {None}
          /\ caseStatus' = [caseStatus EXCEPT ![q.case] = Write(@, q)]
          /\ caseStamped' = [caseStamped EXCEPT
                                ![q.case] = @ \/ (q.op = "status" /\ q.new \in TerminalCase)]
        BY <1>3 DEF WriteCase, TypeOK
    <2>2. /\ q.case \in Cases /\ q.new \in CaseStatus /\ q.op \in {"assign", "status"}
          /\ q.op = "assign" => q.new \in {"investigating", q.seen}
        BY <2>1, RequestShape DEF RequestInv
    <2> HIDE DEF q
    <2> QED
        BY <2>1, <2>2 DEF Write, ClosedCaseIsStamped, TerminalCase, TypeOK
<1>4. CASE CommitEscalation
    BY <1>4 DEF CommitEscalation, ClosedCaseIsStamped, TerminalCase, TypeOK
<1> QED
    BY <1>1, <1>2, <1>3, <1>4
    DEF Next, RaiseAlert, GrowStale, ReadAlert, ReadCaseForStatus, ReadCaseForAssign, Read,
        WriteAlert, EscalationStep, Select, Judge, EscalationFails, caseVars, vars

\* The deadline is set only on a stale case of a client.
LEMMA DeadlineStep ==
    ASSUME TypeOK, TaskInv, DeadlineIsDue, [Next]_vars
    PROVE  DeadlineIsDue'
<1>1. CASE UNCHANGED <<deadline, stale>>
    BY <1>1 DEF DeadlineIsDue
<1>2. ASSUME NEW c \in Cases, GrowStale(c) PROVE DeadlineIsDue'
    BY <1>2 DEF GrowStale, DeadlineIsDue, TypeOK
<1>3. CASE CommitEscalation
    BY <1>3 DEF CommitEscalation, DeadlineIsDue, TaskInv
<1> QED
    BY <1>1, <1>2, <1>3
    DEF Next, RaiseAlert, CreateCase, ReadAlert, ReadCaseForStatus, ReadCaseForAssign, Read,
        WriteAlert, WriteCase, EscalationStep, Select, Judge, EscalationFails, caseVars, vars

\* Closed cases are stamped, decisions on alerts are audited and deadlines are
\* due, however stale the copies that requests and the task write.
THEOREM CaseworkSafety ==
    Spec => [](ClosedCaseIsStamped /\ DecidedAlertIsAudited /\ DeadlineIsDue)
<1>1. Init => CaseworkInv
    BY DEF Init, CaseworkInv, ClosedCaseIsStamped, DecidedAlertIsAudited, DeadlineIsDue,
        RequestInv, TaskInv, TerminalCase, IsAlertRequest, IsCaseRequest
<1>2. TypeOK /\ CaseworkInv /\ [Next]_vars => CaseworkInv'
    BY HoldsStep, AuditStep, StampStep, DeadlineStep DEF CaseworkInv
<1>3. CaseworkInv => ClosedCaseIsStamped /\ DecidedAlertIsAudited /\ DeadlineIsDue
    BY DEF CaseworkInv
<1> QED
    BY <1>1, <1>2, <1>3, CaseworkTypeCorrect, PTL DEF Spec

\* A closed case says when and by whom, although assignments write stale copies
\* (cases.py:69-97, case_service.py:65-79).
THEOREM ClosedCaseIsStampedAlways == Spec => []ClosedCaseIsStamped
BY CaseworkSafety, PTL

\* The task sets a deadline only on a case that was due (escalation_service.py:36-66).
THEOREM DeadlineIsDueAlways == Spec => []DeadlineIsDue
BY CaseworkSafety, PTL

================================================================================
