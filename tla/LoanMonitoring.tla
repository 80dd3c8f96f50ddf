----------------------------- MODULE LoanMonitoring -----------------------------
(***************************************************************************)
(* The watch over a disbursed loan: two tasks, due after 24 and 48 hours, read   *)
(* what the borrower has done with the money and write what they find to the     *)
(* watch.  Nothing in the repository schedules the tasks; they may be late, be     *)
(* retried, be delivered again after a lost worker, and overlap.                *)
(*                                                                         *)
(* Amounts are in tenths of the loan, a movement says where it goes, and whether  *)
(* it falls within the first minutes.  A finding stands for its patterns and totals *)
(* by the movements it was computed from.                                     *)
(***************************************************************************)
EXTENDS Integers, FiniteSets, FiniteSetsExt, Absent

CONSTANTS
    Conducts,           \* movements the borrower may make: [nr, kind, tenths, to, early]
    Small,              \* settings.structuring_threshold, in tenths of the loan
    Dispersal,          \* settings.loan_dispersal_counterparty_min
    MaxLosses           \* bound: workers lost

VARIABLES
    made,               \* movements made after the disbursement
    watch,              \* the committed row: [status, findings, alert]
    loanAlerts,         \* committed alerts, each [nr, check, patterns]
    check,              \* per check: [step, copy, found, tries]
    losses,             \* workers lost so far
    overlapped          \* whether two checks have been between load and commit

loanVars == <<made, watch, loanAlerts, check, losses, overlapped>>

Check == {"24h", "48h"}
Pattern == {"loan_and_run", "immediate_cash_out", "structuring", "dispersal"}

ASSUME LoanAssumption == MaxLosses \in Nat

LoanAlert == [nr : Nat, check : Check, patterns : SUBSET Pattern]
Watch ==
    [status : {"active", "flagged", "cleared"}, alert : LoanAlert \cup {None},
     findings : UNION {[S -> SUBSET Conducts] : S \in SUBSET Check}]

CheckTask ==
    [step : {"due", "loaded", "read", "committed", "over"}, copy : Watch \cup {None},
     found : SUBSET Conducts, tries : 0 .. 3]

Running(c) == check[c].step \in {"loaded", "read"}

LoanTypeOK ==
    /\ made \subseteq Conducts
    /\ watch \in Watch
    /\ loanAlerts \subseteq LoanAlert /\ IsFiniteSet(loanAlerts)
    /\ check \in [Check -> CheckTask]
    /\ \A c \in Check : /\ Running(c) => check[c].copy \in Watch
                        /\ check[c].tries = 3 => check[c].step = "over"
    /\ losses \in 0 .. MaxLosses /\ overlapped \in BOOLEAN

LoanInit ==
    /\ made = {}
    /\ watch = [status |-> "active", findings |-> <<>>, alert |-> None]
    /\ loanAlerts = {}
    /\ check = [c \in Check |-> [step |-> "due", copy |-> None, found |-> {}, tries |-> 0]]
    /\ losses = 0 /\ overlapped = FALSE

-----------------------------------------------------------------------------

Tenths(S) == MapThenSumSet(LAMBDA m : m.tenths, S)

\* _analyze_post_disbursement: four patterns, over everything since the disbursement.
Patterns(M) ==
    LET transfers == {m \in M : m.kind = "transfer"}
        small == {m \in transfers : m.tenths < Small}
    IN  {p \in Pattern :
           \/ p = "loan_and_run" /\ Tenths(transfers) > 8
           \/ p = "immediate_cash_out"
              /\ \E m \in M : m.kind = "withdrawal" /\ m.early /\ m.tenths >= 8
           \/ p = "structuring" /\ Cardinality(small) >= 3 /\ Tenths(small) >= 7
           \/ p = "dispersal" /\ Cardinality({m.to : m \in transfers}) >= Dispersal}

Leave(c, step) == [check[c] EXCEPT !.step = step, !.copy = None, !.found = {}]

Move(m) ==
    /\ m \notin made
    /\ made' = made \cup {m}
    /\ UNCHANGED <<watch, loanAlerts, check, losses, overlapped>>

\* Mutant: a flagged watch is checked like any other.
LoadFlagged(c) ==
    /\ check[c].step = "due"
    /\ check' = [check EXCEPT ![c].step = "loaded", ![c].copy = watch]
    /\ overlapped' = (overlapped \/ \E o \in Check \ {c} : Running(o))
    /\ UNCHANGED <<made, watch, loanAlerts, losses>>

\* A check of a flagged watch returns at once.
Load(c) ==
    /\ check[c].step = "due"
    /\ IF watch.status = "flagged"
       THEN check' = [check EXCEPT ![c].step = "committed"] /\ UNCHANGED overlapped
       ELSE /\ check' = [check EXCEPT ![c].step = "loaded", ![c].copy = watch]
            /\ overlapped' = (overlapped \/ \E o \in Check \ {c} : Running(o))
    /\ UNCHANGED <<made, watch, loanAlerts, losses>>

ReadMoves(c) ==
    /\ check[c].step = "loaded"
    /\ check' = [check EXCEPT ![c].step = "read", ![c].found = made]
    /\ UNCHANGED <<made, watch, loanAlerts, losses, overlapped>>

\* The findings column is the copy with this check's entry; a column is written only when
\* this check changes what it loaded.  One commit writes the watch and the alert.
CommitCheck(c) ==
    LET copy == check[c].copy
        found == check[c].found
        findings == [d \in DOMAIN copy.findings \cup {c} |-> IF d = c THEN found ELSE copy.findings[d]]
        suspect == Patterns(found) # {}
        alert == [nr |-> Cardinality(loanAlerts) + 1, check |-> c, patterns |-> Patterns(found)]
    IN  /\ check[c].step = "read"
        /\ watch' = [watch EXCEPT
                !.findings = IF findings = copy.findings THEN @ ELSE findings,
                !.status = IF suspect THEN "flagged"
                           ELSE IF c = "48h" /\ copy.status = "active" THEN "cleared" ELSE @,
                !.alert = IF suspect THEN alert ELSE @]
        /\ loanAlerts' = IF suspect THEN loanAlerts \cup {alert} ELSE loanAlerts
        /\ check' = [check EXCEPT ![c] = Leave(c, "committed")]
        /\ UNCHANGED <<made, losses, overlapped>>

\* The task fails before its commit: it is retried twice, then given up.
FailCheck(c) ==
    /\ Running(c) \/ check[c].step = "due"
    /\ check' = [check EXCEPT ![c] =
           [Leave(c, IF check[c].tries < 2 THEN "due" ELSE "over") EXCEPT !.tries = @ + 1]]
    /\ UNCHANGED <<made, watch, loanAlerts, losses, overlapped>>

AckCheck(c) ==
    /\ check[c].step = "committed"
    /\ check' = [check EXCEPT ![c].step = "over"]
    /\ UNCHANGED <<made, watch, loanAlerts, losses, overlapped>>

\* The message of a task is acknowledged late: a lost worker's task runs again.
LoseWorker(c) ==
    /\ losses < MaxLosses /\ check[c].step \in {"loaded", "read", "committed"}
    /\ losses' = losses + 1
    /\ check' = [check EXCEPT ![c] = Leave(c, "due")]
    /\ UNCHANGED <<made, watch, loanAlerts, overlapped>>

LoanNext ==
    \/ \E m \in Conducts : Move(m)
    \/ \E c \in Check :
          \/ Load(c) \/ ReadMoves(c) \/ CommitCheck(c) \/ FailCheck(c) \/ AckCheck(c)
          \/ LoseWorker(c)

LoanSpec == LoanInit /\ [][LoanNext]_loanVars

-----------------------------------------------------------------------------
(* Properties                                                                *)

\* What a check has found is kept: unless two checks overlapped, a watch has at most one
\* alert however often its checks are retried and redelivered, it is flagged exactly when
\* it has one, and a cleared watch has no finding against it.  When they overlapped the
\* alert still exists, if not the flag (loan_monitoring.py:55-107).
LoanVerdictIsKept ==
    /\ (watch.status = "flagged" \/ watch.alert # None) => watch.alert \in loanAlerts
    /\ (\E c \in DOMAIN watch.findings : Patterns(watch.findings[c]) # {}) => loanAlerts # {}
    /\ ~overlapped =>
          /\ Cardinality(loanAlerts) <= 1
          /\ (loanAlerts # {}) <=> (watch.status = "flagged")
          /\ watch.status = "cleared" =>
                \A c \in DOMAIN watch.findings : Patterns(watch.findings[c]) = {}

\* Inductive strengthening of LoanVerdictIsKept: what a check loaded it may write back, and
\* a check that never met another holds the row as it is.
LoanInv ==
    /\ LoanTypeOK /\ LoanVerdictIsKept
    /\ \A c \in Check :
          Running(c) /\ (\E d \in DOMAIN check[c].copy.findings :
                            Patterns(check[c].copy.findings[d]) # {}) => loanAlerts # {}
    /\ ~overlapped => \A c \in Check : Running(c) =>
          /\ check[c].copy = watch /\ watch.status # "flagged"
          /\ \A d \in Check \ {c} : ~Running(d)

================================================================================
