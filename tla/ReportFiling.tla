------------------------------ MODULE ReportFiling ------------------------------
(***************************************************************************)
(* Currency transaction reports after the analysis has written them: an MLRO      *)
(* marks a report as filed, and as acknowledged by COBAC.  Neither endpoint looks   *)
(* at the status; two MLROs may work on one report.  A session writes only the      *)
(* columns that differ from what it loaded.                                   *)
(***************************************************************************)
EXTENDS Integers, Absent

CONSTANTS
    Officers,
    References,     \* COBAC's numbers
    MaxFilings      \* bound: requests

ASSUME FilingAssumption == MaxFilings \in Nat /\ None \notin Nat

VARIABLES
    report,         \* the committed row: [status, filedAt, reference]
    filing,         \* per officer: [step, op, ref, copy]
    filings         \* requests so far, and the time of the latest one

filingVars == <<report, filing, filings>>

Op == {"file", "acknowledge"}

Report ==
    [status : {"pending", "filed", "acknowledged"}, filedAt : 1 .. MaxFilings \cup {None},
     reference : References \cup {None}]

FilingTypeOK ==
    /\ report \in Report
    /\ filing \in [Officers -> [step : {"idle", "loaded"}, op : Op \cup {None},
                               ref : References \cup {None}, copy : Report \cup {None}]]
    /\ filings \in 0 .. MaxFilings

FilingInit ==
    /\ report = [status |-> "pending", filedAt |-> None, reference |-> None]
    /\ filing = [u \in Officers |-> [step |-> "idle", op |-> None, ref |-> None, copy |-> None]]
    /\ filings = 0

-----------------------------------------------------------------------------

LoadReport(u, op, ref) ==
    /\ filing[u].step = "idle" /\ filings < MaxFilings
    /\ filing' = [filing EXCEPT ![u] = [step |-> "loaded", op |-> op, ref |-> ref, copy |-> report]]
    /\ filings' = filings + 1
    /\ UNCHANGED report

Finish(u) == filing' = [filing EXCEPT ![u] = [step |-> "idle", op |-> None, ref |-> None, copy |-> None]]

\* The column as it is after a session that loaded old has set it to new.
Column(now, old, new) == IF new = old THEN now ELSE new

\* An empty reference in the body leaves the one that is there.
Reference(u) ==
    IF filing[u].ref = None THEN report.reference
    ELSE Column(report.reference, filing[u].copy.reference, filing[u].ref)

\* Mutant: the date is written with the reference, when there is one.
FileUndated(u) ==
    /\ filing[u].step = "loaded" /\ filing[u].op = "file"
    /\ report' = [status |-> Column(report.status, filing[u].copy.status, "filed"),
                  filedAt |-> IF filing[u].ref = None THEN report.filedAt ELSE filings,
                  reference |-> Reference(u)]
    /\ Finish(u) /\ UNCHANGED filings

\* mark_ctr_filed: the date of filing is always new.
File(u) ==
    /\ filing[u].step = "loaded" /\ filing[u].op = "file"
    /\ report' = [status |-> Column(report.status, filing[u].copy.status, "filed"),
                  filedAt |-> filings, reference |-> Reference(u)]
    /\ Finish(u) /\ UNCHANGED filings

\* mark_ctr_acknowledged.
Acknowledge(u) ==
    /\ filing[u].step = "loaded" /\ filing[u].op = "acknowledge"
    /\ report' = [report EXCEPT !.status = Column(@, filing[u].copy.status, "acknowledged"),
                                !.reference = Reference(u)]
    /\ Finish(u) /\ UNCHANGED filings

FilingFails(u) ==
    /\ filing[u].step = "loaded"
    /\ Finish(u) /\ UNCHANGED <<report, filings>>

FilingNext ==
    \E u \in Officers :
       \/ \E op \in Op, ref \in References \cup {None} : LoadReport(u, op, ref)
       \/ File(u) \/ Acknowledge(u) \/ FilingFails(u)

FilingSpec == FilingInit /\ [][FilingNext]_filingVars

-----------------------------------------------------------------------------
(* Properties                                                                *)

\* A report in the state filed has the date of its filing, whatever two officers do to it at
\* once and in whatever order, although a session that finds it filed does not write the
\* status again (ctrs.py:111-121, 158-169).
FiledIsDated == report.status = "filed" => report.filedAt # None

\* Inductive strengthening of FiledIsDated: a date once written stays, so a session that
\* loaded the report as filed finds the date there when it leaves the status alone.
FilingInv ==
    /\ FilingTypeOK /\ FiledIsDated
    /\ \A u \in Officers : filing[u].step = "loaded" =>
          /\ filings > 0 /\ filing[u].copy \in Report
          /\ filing[u].copy.status = "filed" => report.filedAt # None

================================================================================
