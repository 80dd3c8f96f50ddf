----------------------------- MODULE OfficeProofs -----------------------------
(*****************************************************************************)
(* Theorems about LoanMonitoring, DatasetImport, CreditHistory and BackOffice,   *)
(* which composes them with the other parts, for all values of the constants.   *)
(*****************************************************************************)
EXTENDS BackOffice, PartProofs, SumTheorems, FiniteSetTheorems,
        WellFoundedInduction, SequenceTheorems, TLAPS

-----------------------------------------------------------------------------
(* The watch over a loan                                                      *)

Findings == UNION {[S -> SUBSET Conducts] : S \in SUBSET Check}

\* A finding recorded in those of a copy.
Noted(old, c, found) == [d \in DOMAIN old \cup {c} |-> IF d = c THEN found ELSE old[d]]

\* Findings with those of one more check are findings.
LEMMA FindingsFit ==
    ASSUME NEW old \in Findings, NEW c \in Check, NEW found \in SUBSET Conducts
    PROVE  Noted(old, c, found) \in Findings /\ DOMAIN Noted(old, c, found) = DOMAIN old \cup {c}
<1>1. PICK S \in SUBSET Check : old \in [S -> SUBSET Conducts]
    BY DEF Findings
<1>2. Noted(old, c, found) \in [S \cup {c} -> SUBSET Conducts]
    BY <1>1 DEF Noted
<1> QED
    BY <1>2 DEF Findings, Noted

\* A row whose columns are written.
LEMMA WatchFits ==
    ASSUME NEW A, NEW B, NEW C, NEW w \in [status : A, alert : B, findings : C],
           NEW status \in A, NEW alert \in B, NEW new \in C, NEW v,
           v = [w EXCEPT !.findings = new, !.status = status, !.alert = alert]
    PROVE  /\ v \in [status : A, alert : B, findings : C]
           /\ v.findings = new /\ v.status = status /\ v.alert = alert
OBVIOUS

\* Writing fields of a record keeps its type.
LEMMA TaskFits ==
    ASSUME NEW A, NEW B, NEW C, NEW D, NEW x \in [step : A, copy : B, found : C, tries : D],
           NEW st \in A, NEW w \in B, NEW f \in C, NEW n \in D
    PROVE  /\ [x EXCEPT !.step = st] \in [step : A, copy : B, found : C, tries : D]
           /\ [x EXCEPT !.step = st, !.copy = w] \in [step : A, copy : B, found : C, tries : D]
           /\ [x EXCEPT !.step = st, !.found = f] \in [step : A, copy : B, found : C, tries : D]
           /\ [x EXCEPT !.step = st, !.copy = w, !.found = f]
                  \in [step : A, copy : B, found : C, tries : D]
           /\ [x EXCEPT !.tries = n] \in [step : A, copy : B, found : C, tries : D]
OBVIOUS

\* What a task that gives up its session becomes.
LEMMA LeaveFits ==
    ASSUME LoanTypeOK, NEW c \in Check, NEW st \in {"due", "loaded", "read", "committed", "over"}
    PROVE  /\ Leave(c, st) \in CheckTask
           /\ Leave(c, st).step = st /\ Leave(c, st).tries = check[c].tries
<1>1. check[c] \in CheckTask
    BY DEF LoanTypeOK
<1>2. Leave(c, st) \in CheckTask
    BY <1>1, TaskFits DEF Leave, CheckTask
<1> QED
    BY <1>1, <1>2 DEF Leave, CheckTask

\* A check that takes a step of its own, and writes no more than its own state.
LEMMA CheckStep ==
    ASSUME LoanInv, NEW c \in Check, NEW x,
           x \in CheckTask, x.step \notin {"loaded", "read"}, x.tries = 3 => x.step = "over",
           check' = [check EXCEPT ![c] = x], losses' \in 0 .. MaxLosses,
           UNCHANGED <<made, watch, loanAlerts, overlapped>>
    PROVE  LoanInv'
<1> USE DEF LoanInv, LoanTypeOK
<1>1. check'[c] = x /\ ~Running(c)'
    BY DEF Running
<1>2. \A d \in Check \ {c} : check'[d] = check[d] /\ (Running(d)' <=> Running(d))
    BY DEF Running
<1>3. LoanTypeOK'
    <2>1. check' \in [Check -> CheckTask]
        OBVIOUS
    <2>2. \A d \in Check : /\ Running(d)' => check'[d].copy \in Watch
                           /\ check'[d].tries = 3 => check'[d].step = "over"
        BY <1>1, <1>2
    <2> QED
        BY <2>1, <2>2
<1>4. LoanVerdictIsKept'
    BY DEF LoanVerdictIsKept
<1>5. \A d \in Check : Running(d)' => Running(d) /\ d # c
    BY <1>1, <1>2
<1> QED
    BY <1>1, <1>2, <1>3, <1>4, <1>5

\* At the start the watch is active, without findings and without an alert.
LEMMA LoanStart == LoanInit => LoanInv
<1> SUFFICES ASSUME LoanInit PROVE LoanInv
    OBVIOUS
<1>1. watch \in Watch /\ watch.findings = <<>> /\ DOMAIN watch.findings = {}
    <2>1. <<>> \in [{} -> SUBSET Conducts] /\ DOMAIN <<>> = {}
        OBVIOUS
    <2>2. <<>> \in UNION {[S -> SUBSET Conducts] : S \in SUBSET Check}
        BY <2>1
    <2> QED
        BY <2>1, <2>2 DEF LoanInit, Watch
<1>2. LoanTypeOK
    <2>1. check \in [Check -> CheckTask] /\ \A c \in Check : check[c].step = "due" /\ check[c].tries = 0
        BY DEF LoanInit, CheckTask
    <2>2. loanAlerts \subseteq LoanAlert /\ IsFiniteSet(loanAlerts)
        BY FS_EmptySet DEF LoanInit
    <2>3. losses \in 0 .. MaxLosses
        BY LoanAssumption DEF LoanInit
    <2>4. overlapped \in BOOLEAN /\ made \subseteq Conducts
        BY DEF LoanInit
    <2> QED
        BY <1>1, <2>1, <2>2, <2>3, <2>4 DEF LoanTypeOK, Running
<1>3. LoanVerdictIsKept
    <2>1. watch.status = "active" /\ watch.alert = None /\ loanAlerts = {} /\ Cardinality(loanAlerts) = 0
        BY FS_EmptySet DEF LoanInit
    <2> QED
        BY <1>1, <2>1 DEF LoanVerdictIsKept
<1>4. \A c \in Check : ~Running(c)
    BY DEF LoanInit, Running
<1> QED
    BY <1>2, <1>3, <1>4 DEF LoanInv

\* A load copies the committed row.
LEMMA LoadStep ==
    ASSUME LoanInv, NEW c \in Check, Load(c)
    PROVE  LoanInv'
<1> USE DEF LoanInv, LoanTypeOK
<1>1. CASE watch.status = "flagged"
    <2>1. check' = [check EXCEPT ![c] = [check[c] EXCEPT !.step = "committed"]]
        BY <1>1 DEF Load
    <2>2. check[c] \in CheckTask /\ check[c].step = "due" /\ check[c].tries # 3
        BY DEF Load
    <2> DEFINE x == [check[c] EXCEPT !.step = "committed"]
    <2>3. x \in CheckTask /\ x.step = "committed" /\ x.tries # 3
        BY <2>2, TaskFits DEF CheckTask
    <2>4. UNCHANGED <<made, watch, loanAlerts, losses, overlapped>>
        BY <1>1 DEF Load
    <2> HIDE DEF x
    <2> QED
        BY <2>1, <2>3, <2>4, CheckStep DEF x
<1>2. CASE watch.status # "flagged"
    <2>1. /\ check' = [check EXCEPT ![c].step = "loaded", ![c].copy = watch]
          /\ overlapped' = (overlapped \/ \E o \in Check \ {c} : Running(o))
          /\ UNCHANGED <<made, watch, loanAlerts, losses>> /\ check[c].step = "due"
        BY <1>2 DEF Load
    <2>2. /\ check'[c] = [check[c] EXCEPT !.step = "loaded", !.copy = watch]
          /\ \A d \in Check \ {c} : check'[d] = check[d]
        BY <2>1
    <2>3. /\ check'[c] \in CheckTask
          /\ check'[c].copy = watch /\ check'[c].step = "loaded" /\ check'[c].tries = check[c].tries
        <3>1. check[c] \in CheckTask
            OBVIOUS
        <3>2. [check[c] EXCEPT !.step = "loaded", !.copy = watch] \in CheckTask
            BY <3>1, TaskFits DEF CheckTask
        <3> QED
            BY <2>2, <3>1, <3>2 DEF CheckTask
    <2>4. LoanTypeOK'
        <3>1. check' \in [Check -> CheckTask]
            BY <2>1, <2>2, <2>3
        <3>2. \A d \in Check : /\ Running(d)' => check'[d].copy \in Watch
                               /\ check'[d].tries = 3 => check'[d].step = "over"
            BY <2>1, <2>2, <2>3 DEF Running
        <3> QED
            BY <2>1, <3>1, <3>2
    <2>5. LoanVerdictIsKept'
        BY <2>1 DEF LoanVerdictIsKept
    <2>6. \A d \in Check \ {c} : Running(d)' <=> Running(d)
        BY <2>2 DEF Running
    <2>7. \A d \in Check :
              Running(d)' /\ (\E e \in DOMAIN check'[d].copy.findings :
                                Patterns(check'[d].copy.findings[e]) # {}) => loanAlerts # {}
        <3>1. (\E e \in DOMAIN watch.findings : Patterns(watch.findings[e]) # {}) => loanAlerts # {}
            BY DEF LoanVerdictIsKept
        <3>2. \A d \in Check \ {c} :
                  Running(d)' /\ (\E e \in DOMAIN check'[d].copy.findings :
                                    Patterns(check'[d].copy.findings[e]) # {}) => loanAlerts # {}
            BY <2>2, <2>6
        <3> QED
            BY <2>3, <3>1, <3>2
    <2>8. ~overlapped' => ~overlapped /\ \A o \in Check \ {c} : ~Running(o)
        BY <2>1
    <2>9. ~overlapped' => \A d \in Check : Running(d)' =>
              /\ check'[d].copy = watch /\ watch.status # "flagged"
              /\ \A e \in Check \ {d} : ~Running(e)'
        BY <1>2, <2>3, <2>6, <2>8
    <2> QED
        BY <2>1, <2>4, <2>5, <2>7, <2>9
<1> QED
    BY <1>1, <1>2

\* A check that reads the movements goes on with those made so far.
LEMMA ReadStep ==
    ASSUME LoanInv, NEW c \in Check, ReadMoves(c)
    PROVE  LoanInv'
<1> USE DEF LoanInv, LoanTypeOK
<1>1. /\ check' = [check EXCEPT ![c].step = "read", ![c].found = made]
      /\ UNCHANGED <<made, watch, loanAlerts, losses, overlapped>> /\ check[c].step = "loaded"
    BY DEF ReadMoves
<1>2. /\ check'[c] = [check[c] EXCEPT !.step = "read", !.found = made]
      /\ \A d \in Check \ {c} : check'[d] = check[d]
    BY <1>1
<1>3. /\ check'[c] \in CheckTask
      /\ check'[c].copy = check[c].copy /\ check'[c].step = "read" /\ check'[c].tries = check[c].tries
    <2>1. check[c] \in CheckTask /\ made \in SUBSET Conducts
        OBVIOUS
    <2>2. [check[c] EXCEPT !.step = "read", !.found = made] \in CheckTask
        BY <2>1, TaskFits DEF CheckTask
    <2> QED
        BY <1>2, <2>1, <2>2 DEF CheckTask
<1>4. \A d \in Check : (Running(d)' <=> Running(d)) /\ check'[d].copy = check[d].copy
    BY <1>1, <1>2, <1>3 DEF Running
<1>5. LoanTypeOK'
    <2>1. check' \in [Check -> CheckTask]
        BY <1>1, <1>2, <1>3
    <2>2. \A d \in Check : /\ Running(d)' => check'[d].copy \in Watch
                           /\ check'[d].tries = 3 => check'[d].step = "over"
        BY <1>1, <1>2, <1>3, <1>4
    <2> QED
        BY <1>1, <2>1, <2>2
<1>6. LoanVerdictIsKept'
    BY <1>1 DEF LoanVerdictIsKept
<1> QED
    BY <1>1, <1>4, <1>5, <1>6

\* A commit writes the row and the alert at once.
LEMMA VerdictStep ==
    ASSUME LoanInv, NEW c \in Check, CommitCheck(c)
    PROVE  LoanInv'
<1> USE DEF LoanInv, LoanTypeOK
<1> DEFINE copy == check[c].copy
           found == check[c].found
           fs == [d \in DOMAIN copy.findings \cup {c} |-> IF d = c THEN found ELSE copy.findings[d]]
           new == IF fs = copy.findings THEN watch.findings ELSE fs
           suspect == Patterns(found) # {}
           raised == [nr |-> Cardinality(loanAlerts) + 1, check |-> c, patterns |-> Patterns(found)]
           status == IF suspect THEN "flagged"
                     ELSE IF c = "48h" /\ copy.status = "active" THEN "cleared" ELSE watch.status
           alert == IF suspect THEN raised ELSE watch.alert
<1>1. /\ check[c].step = "read" /\ UNCHANGED <<made, losses, overlapped>>
      /\ watch' = [watch EXCEPT !.findings = new, !.status = status, !.alert = alert]
      /\ loanAlerts' = IF suspect THEN loanAlerts \cup {raised} ELSE loanAlerts
      /\ check' = [check EXCEPT ![c] = Leave(c, "committed")]
    BY DEF CommitCheck
<1>2. /\ copy \in Watch /\ found \in SUBSET Conducts /\ Running(c)
    <2>1. Running(c)
        BY <1>1 DEF Running
    <2>2. check[c] \in CheckTask
        OBVIOUS
    <2> QED
        BY <2>1, <2>2 DEF CheckTask
<1>3. raised \in LoanAlert
    BY FS_CardinalityType DEF LoanAlert, Patterns
<1>4. /\ status \in {"active", "flagged", "cleared"} /\ alert \in LoanAlert \cup {None}
    BY <1>3 DEF Watch
<1>5. /\ watch' \in Watch /\ watch'.findings = new /\ watch'.status = status /\ watch'.alert = alert
      /\ DOMAIN fs = DOMAIN copy.findings \cup {c}
    <2> HIDE DEF copy, found, status, alert
    <2>1. copy.findings \in Findings /\ watch.findings \in Findings
        BY <1>2 DEF Watch, Findings
    <2>2. fs \in Findings /\ DOMAIN fs = DOMAIN copy.findings \cup {c}
        <3>1. fs = Noted(copy.findings, c, found)
            BY DEF Noted
        <3> HIDE DEF fs
        <3> QED
            BY <1>2, <2>1, <3>1, FindingsFit
    <2> HIDE DEF fs
    <2>3. new \in Findings
        BY <2>1, <2>2
    <2> HIDE DEF new
    <2>4. Watch = [status : {"active", "flagged", "cleared"}, alert : LoanAlert \cup {None},
                   findings : Findings]
        BY DEF Watch, Findings
    <2>5. watch \in Watch
        OBVIOUS
    <2>6. /\ watch' \in Watch /\ watch'.findings = new
          /\ watch'.status = status /\ watch'.alert = alert
        BY <1>1, <1>4, <2>3, <2>4, <2>5, WatchFits
    <2> QED
        BY <2>2, <2>6
<1>6. /\ loanAlerts' \subseteq LoanAlert /\ IsFiniteSet(loanAlerts') /\ loanAlerts \subseteq loanAlerts'
      /\ suspect => loanAlerts' # {} /\ raised \in loanAlerts'
    <2> HIDE DEF suspect, raised
    <2> QED
        BY <1>1, <1>3, FS_AddElement
<1>7. /\ Leave(c, "committed") \in CheckTask
      /\ Leave(c, "committed").step = "committed" /\ Leave(c, "committed").tries = check[c].tries
    BY LeaveFits
<1>8. /\ check'[c] = Leave(c, "committed") /\ ~Running(c)'
      /\ \A d \in Check \ {c} : check'[d] = check[d] /\ (Running(d)' <=> Running(d))
    BY <1>1, <1>7 DEF Running
<1>9. LoanTypeOK'
    <2>1. check' \in [Check -> CheckTask]
        BY <1>1, <1>7
    <2>2. \A d \in Check : /\ Running(d)' => check'[d].copy \in Watch
                           /\ check'[d].tries = 3 => check'[d].step = "over"
        BY <1>1, <1>7, <1>8
    <2> QED
        BY <1>1, <1>5, <1>6, <2>1, <2>2
<1>10. (\E d \in DOMAIN watch'.findings : Patterns(watch'.findings[d]) # {}) => loanAlerts' # {}
    <2> SUFFICES ASSUME NEW d \in DOMAIN new, Patterns(new[d]) # {} PROVE loanAlerts' # {}
        <3> HIDE DEF new
        <3> QED
            BY <1>5
    <2>1. CASE new = watch.findings
        <3> HIDE DEF new, fs, raised, suspect
        <3> QED
            BY <1>6, <2>1 DEF LoanVerdictIsKept
    <2>2. CASE new = fs /\ d = c
        <3>1. fs[c] = found
            BY <1>5
        <3> HIDE DEF fs, new, found
        <3> QED
            BY <1>6, <2>2, <3>1
    <2>3. CASE new = fs /\ d # c
        <3>1. d \in DOMAIN copy.findings /\ fs[d] = copy.findings[d]
            BY <1>5, <2>3
        <3>2. Patterns(copy.findings[d]) # {}
            <4> HIDE DEF fs, new, copy
            <4> QED
                BY <2>3, <3>1
        <3> QED
            BY <1>2, <1>6, <3>1, <3>2
    <2> QED
        BY <2>1, <2>2, <2>3
<1>11. (watch'.status = "flagged" \/ watch'.alert # None) => watch'.alert \in loanAlerts'
    <2> HIDE DEF copy, found, suspect, raised
    <2> QED
        BY <1>1, <1>5, <1>6 DEF LoanVerdictIsKept
<1>12. ASSUME ~overlapped
       PROVE  /\ Cardinality(loanAlerts') <= 1
              /\ (loanAlerts' # {}) <=> (watch'.status = "flagged")
    <2>1. loanAlerts = {} /\ watch.status # "flagged"
        BY <1>2, <1>12 DEF LoanVerdictIsKept
    <2> HIDE DEF copy, found, raised
    <2>2. CASE suspect
        <3>1. loanAlerts' = {raised} /\ watch'.status = "flagged"
            BY <1>1, <1>5, <2>1, <2>2
        <3>2. Cardinality({raised}) = 1
            BY FS_Singleton
        <3> QED
            BY <3>1, <3>2
    <2>3. CASE ~suspect
        <3>1. loanAlerts' = {} /\ watch'.status # "flagged"
            BY <1>1, <1>5, <2>1, <2>3
        <3>2. Cardinality({}) = 0
            BY FS_EmptySet
        <3> QED
            BY <3>1, <3>2
    <2> QED
        BY <2>2, <2>3
<1>13. LoanVerdictIsKept'
    <2>1. ~overlapped /\ watch'.status = "cleared" =>
              \A d \in DOMAIN watch'.findings : Patterns(watch'.findings[d]) = {}
        BY <1>10, <1>12
    <2> QED
        BY <1>1, <1>10, <1>11, <1>12, <2>1 DEF LoanVerdictIsKept
<1>14. ~overlapped' => \A d \in Check : ~Running(d)'
    BY <1>1, <1>2, <1>8
<1> QED
    BY <1>1, <1>6, <1>8, <1>9, <1>13, <1>14

\* Every step keeps the loan's invariant.
LEMMA LoanStep == LoanInv /\ [LoanNext]_loanVars => LoanInv'
<1> SUFFICES ASSUME LoanInv, [LoanNext]_loanVars PROVE LoanInv'
    OBVIOUS
<1> USE LoanAssumption
<1>1. ASSUME NEW m \in Conducts, Move(m) PROVE LoanInv'
    BY <1>1 DEF Move, LoanInv, LoanTypeOK, LoanVerdictIsKept, Running
<1>2. ASSUME NEW c \in Check, FailCheck(c) PROVE LoanInv'
    <2> DEFINE x == [Leave(c, IF check[c].tries < 2 THEN "due" ELSE "over") EXCEPT !.tries = @ + 1]
    <2>1. check[c].tries \in 0 .. 2 /\ losses' = losses
        <3>1. check[c] \in CheckTask
            BY DEF LoanInv, LoanTypeOK
        <3>2. check[c].tries # 3
            BY <1>2 DEF FailCheck, LoanInv, LoanTypeOK, Running
        <3>3. check[c].tries \in 0 .. 3
            BY <3>1 DEF CheckTask
        <3> QED
            BY <1>2, <3>2, <3>3 DEF FailCheck
    <2>2. x \in CheckTask /\ x.step \in {"due", "over"} /\ (x.tries = 3 => x.step = "over")
        <3> DEFINE y == Leave(c, IF check[c].tries < 2 THEN "due" ELSE "over")
        <3>1. /\ y \in CheckTask /\ y.step = (IF check[c].tries < 2 THEN "due" ELSE "over")
              /\ y.tries = check[c].tries
            BY LeaveFits DEF LoanInv
        <3> HIDE DEF y
        <3>a. check[c].tries + 1 \in 0 .. 3
            BY <2>1
        <3>2. [y EXCEPT !.tries = check[c].tries + 1] \in CheckTask
            BY <3>a, <3>1, TaskFits DEF CheckTask
        <3>3. x = [y EXCEPT !.tries = check[c].tries + 1]
            BY <3>1 DEF y
        <3>4. x.step = y.step /\ x.tries = check[c].tries + 1
            BY <3>1, <3>3 DEF CheckTask
        <3> HIDE DEF x
        <3> QED
            BY <2>1, <3>1, <3>2, <3>3, <3>4
    <2>3. check' = [check EXCEPT ![c] = x] /\ UNCHANGED <<made, watch, loanAlerts, overlapped>>
        BY <1>2 DEF FailCheck
    <2> HIDE DEF x
    <2> QED
        BY <2>1, <2>2, <2>3, CheckStep DEF LoanInv, LoanTypeOK
<1>3. ASSUME NEW c \in Check, AckCheck(c) PROVE LoanInv'
    <2> DEFINE x == [check[c] EXCEPT !.step = "over"]
    <2>1. x \in CheckTask /\ x.step = "over"
        <3>1. check[c] \in CheckTask
            BY DEF LoanInv, LoanTypeOK
        <3> QED
            BY <3>1, TaskFits DEF CheckTask
    <2>2. check' = [check EXCEPT ![c] = x] /\ UNCHANGED <<made, watch, loanAlerts, losses, overlapped>>
        BY <1>3 DEF AckCheck
    <2> HIDE DEF x
    <2> QED
        BY <2>1, <2>2, CheckStep DEF LoanInv, LoanTypeOK
<1>4. ASSUME NEW c \in Check, LoseWorker(c) PROVE LoanInv'
    <2>1. /\ Leave(c, "due") \in CheckTask /\ Leave(c, "due").step = "due"
          /\ Leave(c, "due").tries = check[c].tries
        BY LeaveFits DEF LoanInv
    <2>3. check[c].tries # 3 /\ losses' \in 0 .. MaxLosses
        BY <1>4 DEF LoseWorker, LoanInv, LoanTypeOK
    <2>2. check' = [check EXCEPT ![c] = Leave(c, "due")] /\ UNCHANGED <<made, watch, loanAlerts, overlapped>>
        BY <1>4 DEF LoseWorker
    <2> QED
        BY <2>1, <2>2, <2>3, CheckStep
<1>5. CASE UNCHANGED loanVars
    BY <1>5 DEF loanVars, LoanInv, LoanTypeOK, LoanVerdictIsKept, Running
<1> QED
    BY <1>1, <1>2, <1>3, <1>4, <1>5, LoadStep, ReadStep, VerdictStep DEF LoanNext

\* A verdict is kept through retries, redeliveries and overlapping checks.
THEOREM LoanVerdictIsKeptAlways == LoanSpec => [](LoanTypeOK /\ LoanVerdictIsKept)
<1>1. LoanInv => LoanTypeOK /\ LoanVerdictIsKept
    BY DEF LoanInv
<1> QED
    BY <1>1, LoanStart, LoanStep, PTL DEF LoanSpec

-----------------------------------------------------------------------------
(* The import                                                                *)

\* A row of the file that parses is a row, and the sample has a size.
LEMMA RowIs ==
    ASSUME ImportTypeOK, file # None, at < Len(file), file[at + 1] # Bad
    PROVE  file[at + 1] \in Rows
<1>1. file \in Files /\ at \in Nat
    BY DEF ImportTypeOK
<1>2. file \in Seq(Rows \cup {Bad})
    BY <1>1, ImportAssumption
<1>3. at + 1 \in DOMAIN file
    BY <1>1, <1>2
<1>4. file[at + 1] \in Rows \cup {Bad}
    BY <1>2, <1>3
<1> QED
    BY <1>4

\* A row is labelled as laundering or as legitimate.
LEMMA LabelIs == \A r \in Rows : r.label \in {0, 1}
<1>1. \A f \in Files : \A i \in DOMAIN f : f[i] # Bad => f[i].label \in {0, 1}
    BY ImportAssumption
<1> QED
    BY <1>1 DEF Rows

\* The size of the sample is a number.
LEMMA SampleSizeIs == ASSUME NEW f \in Files PROVE SampleSize(f) \in Nat
<1>1. f \in Seq(Rows \cup {Bad})
    BY ImportAssumption
<1>2. IsFiniteSet(1 .. Len(f))
    BY <1>1, FS_Interval
<1>3. {i \in Good(f) : f[i].label = 1} \subseteq 1 .. Len(f)
    BY <1>1 DEF Good
<1>4. FraudCount(f) \in Nat
    BY <1>2, <1>3, FS_Subset, FS_CardinalityType DEF FraudCount
<1> QED
    BY <1>4, ImportAssumption DEF SampleSize

\* The counts and the lengths are numbers.
LEMMA CountsAre ==
    ASSUME ImportTypeOK
    PROVE  /\ stats \in [fraud : Nat, legit : Nat, skipped : Nat] /\ Counts \in Nat
           /\ Len(batch) \in Nat /\ Len(reservoir) \in Nat /\ at \in Nat
<1>1. stats \in [fraud : Nat, legit : Nat, skipped : Nat]
    BY DEF ImportTypeOK
<1>2. Counts \in Nat
    BY <1>1 DEF Counts
<1> QED
    BY <1>1, <1>2 DEF ImportTypeOK

\* Of group with one new id the first is inserted, so the ids of the alerts are the ids of
\* the transactions.
LEMMA FirstIsInserted ==
    ASSUME NEW group \in Seq(Rows), NEW i \in Alerted(group)
    PROVE  \E j \in Inserted(group) : group[j].id = group[i].id
<1> DEFINE S == {j \in DOMAIN group : group[j].id = group[i].id}
<1>1. DOMAIN group = 1 .. Len(group) /\ Len(group) \in Nat
    OBVIOUS
<1>2. S \in (SUBSET Nat) \ {{}}
    BY <1>1 DEF Alerted
<1>3. PICK j \in S : \A k \in S : j <= k
    <2> HIDE DEF S
    <2>1. PICK j \in S : \A k \in S : ~(<<k, j>> \in OpToRel(<, Nat))
        BY <1>2, NatLessThanWellFounded, WFMin
    <2>2. SUFFICES ASSUME NEW k \in S, ~(j <= k) PROVE FALSE
        OBVIOUS
    <2>3. k \in Nat /\ j \in Nat
        BY <1>2
    <2>4. k < j
        BY <2>2, <2>3
    <2>5. <<k, j>> \in OpToRel(<, Nat)
        BY <2>3, <2>4 DEF OpToRel
    <2> QED
        BY <2>1, <2>5
<1>4. j \in DOMAIN group /\ group[j].id = group[i].id /\ ~Known(group[j].id)
    BY <1>3 DEF Alerted
<1>5. ASSUME NEW k \in 1 .. j - 1 PROVE group[k].id # group[j].id
    BY <1>1, <1>3, <1>4
<1> QED
    BY <1>4, <1>5 DEF Inserted

\* Of a batch no more is inserted than it holds.
LEMMA InsertedIs ==
    ASSUME NEW group \in Seq(Rows)
    PROVE  Cardinality(Inserted(group)) \in 0 .. Len(group)
<1>1. Len(group) \in Nat /\ Inserted(group) \subseteq 1 .. Len(group)
    BY DEF Inserted
<1>2. IsFiniteSet(1 .. Len(group)) /\ Cardinality(1 .. Len(group)) = Len(group)
    <2>1. 1 \in Int /\ Len(group) \in Int /\ (IF 1 > Len(group) THEN 0 ELSE Len(group) - 1 + 1) = Len(group)
        BY <1>1
    <2> QED
        BY <2>1, FS_Interval
<1>3. Cardinality(Inserted(group)) \in Nat /\ Cardinality(Inserted(group)) <= Cardinality(1 .. Len(group))
    BY <1>1, <1>2, FS_Subset, FS_CardinalityType
<1> QED
    BY <1>1, <1>2, <1>3

\* An insert keeps what the labels are about.
LEMMA InsertKeeps ==
    ASSUME ImportTypeOK, ImportInv, NEW group \in Seq(Rows), Insert(group), repeated' = repeated \cup Repeats(group), UNCHANGED imported
    PROVE  /\ written' \in Imported
           /\ {x.tx : x \in written'.alerts} = {t.id : t \in written'.txs}
           /\ \A t, u \in imported'.txs \cup written'.txs : t.id = u.id => t = u
           /\ \A x, y \in imported'.alerts \cup written'.alerts :
                 (x.tx = y.tx /\ x # y) => x.tx \in repeated'
<1> DEFINE tx(i) == Tx(group[i])
           alert(i) == [tx |-> group[i].id, label |-> group[i].label, nr |-> at + i]
<1>1. /\ written'.txs = written.txs \cup {tx(i) : i \in Inserted(group)}
      /\ written'.alerts = written.alerts \cup {alert(i) : i \in Alerted(group)}
      /\ written' = [txs |-> written'.txs, alerts |-> written'.alerts]
    BY DEF Insert
<1>2. Inserted(group) \subseteq Alerted(group) /\ Alerted(group) \subseteq 1 .. Len(group) /\ Len(group) \in Nat
    BY DEF Inserted, Alerted
<1>3. \A i \in 1 .. Len(group) : group[i] \in Rows /\ group[i].label \in {0, 1}
    BY LabelIs
<1>4. \A i : tx(i).id = group[i].id /\ tx(i).kyc \in 1 .. 4
    BY DEF Tx, KycLevel
<1>5. \A i : alert(i).tx = group[i].id
    OBVIOUS
<1>6. /\ \A i \in Inserted(group) : tx(i) \in [id : {r.id : r \in Rows}, kyc : 1 .. 4]
      /\ \A i \in Alerted(group) : alert(i) \in [tx : {r.id : r \in Rows}, label : {0, 1}, nr : Nat]
    <2>1. \A i \in 1 .. Len(group) : group[i].id \in {r.id : r \in Rows} /\ at + i \in Nat
        BY <1>2, <1>3 DEF ImportTypeOK
    <2> DEFINE ids == {r.id : r \in Rows}
    <2>2. ASSUME NEW i \in 1 .. Len(group) PROVE tx(i) \in [id : ids, kyc : 1 .. 4]
        BY <1>4, <2>1 DEF Tx
    <2>3. ASSUME NEW i \in 1 .. Len(group) PROVE alert(i) \in [tx : ids, label : {0, 1}, nr : Nat]
        BY <1>3, <2>1
    <2> QED
        BY <1>2, <2>2, <2>3
<1>7. \A i \in Inserted(group), j \in Inserted(group) : group[i].id = group[j].id => i = j
    BY <1>2 DEF Inserted
<1>8. \A i \in Alerted(group), t \in imported.txs \cup written.txs : t.id # group[i].id
    BY DEF Alerted, Known
<1>9. \A i \in Alerted(group), x \in imported.alerts \cup written.alerts : x.tx # group[i].id
    <2>1. {x.tx : x \in imported.alerts} = {t.id : t \in imported.txs}
          /\ {x.tx : x \in written.alerts} = {t.id : t \in written.txs}
        BY DEF ImportInv
    <2>2. ASSUME NEW x \in imported.alerts \cup written.alerts
          PROVE  \E t \in imported.txs \cup written.txs : t.id = x.tx
        <3>1. CASE x \in imported.alerts
            <4>1. x.tx \in {t.id : t \in imported.txs}
                BY <2>1, <3>1
            <4> QED
                BY <4>1
        <3>2. CASE x \in written.alerts
            <4>1. x.tx \in {t.id : t \in written.txs}
                BY <2>1, <3>2
            <4> QED
                BY <4>1
        <3> QED
            BY <3>1, <3>2
    <2> QED
        BY <1>8, <2>2
<1>10. \A i \in Alerted(group), j \in Alerted(group) :
           (i # j /\ group[i].id = group[j].id) => group[i].id \in Repeats(group)
    <2> SUFFICES ASSUME NEW i \in Alerted(group), NEW j \in Alerted(group), i < j,
                        group[i].id = group[j].id
                 PROVE  group[j].id \in Repeats(group)
        BY <1>2
    <2> QED
        BY <1>2 DEF Repeats
<1>11. \A i \in Alerted(group) : \E j \in Inserted(group) : group[j].id = group[i].id
    BY FirstIsInserted
<1> HIDE DEF tx, alert
<1>12. written' \in Imported
    <2>1. /\ written'.txs \subseteq [id : {r.id : r \in Rows}, kyc : 1 .. 4]
          /\ written'.alerts \subseteq [tx : {r.id : r \in Rows}, label : {0, 1}, nr : Nat]
        <3>1. written \in Imported
            BY DEF ImportTypeOK
        <3>2. /\ {tx(i) : i \in Inserted(group)} \subseteq [id : {r.id : r \in Rows}, kyc : 1 .. 4]
              /\ {alert(i) : i \in Alerted(group)}
                     \subseteq [tx : {r.id : r \in Rows}, label : {0, 1}, nr : Nat]
            BY <1>6
        <3> QED
            BY <1>1, <3>1, <3>2 DEF Imported
    <2> QED
        BY <1>1, <2>1 DEF Imported
<1>13. {x.tx : x \in written'.alerts} = {t.id : t \in written'.txs}
    <2>1. {x.tx : x \in written.alerts} = {t.id : t \in written.txs}
        BY DEF ImportInv
    <2>2. \A i \in Alerted(group) : \E j \in Inserted(group) : tx(j).id = alert(i).tx
        BY <1>4, <1>5, <1>11
    <2>3. \A i \in Inserted(group) : \E j \in Alerted(group) : tx(i).id = alert(j).tx
        BY <1>2, <1>4, <1>5
    <2>4. /\ {x.tx : x \in written'.alerts} = {x.tx : x \in written.alerts} \cup {alert(i).tx : i \in Alerted(group)}
          /\ {t.id : t \in written'.txs} = {t.id : t \in written.txs} \cup {tx(i).id : i \in Inserted(group)}
        BY <1>1
    <2>5. {alert(i).tx : i \in Alerted(group)} = {tx(i).id : i \in Inserted(group)}
        BY <2>2, <2>3
    <2> QED
        BY <2>1, <2>4, <2>5
<1>14. ASSUME NEW t \in imported'.txs \cup written'.txs, NEW u \in imported'.txs \cup written'.txs,
              t.id = u.id
       PROVE  t = u
    <2> USE <1>14
    <2>1. CASE t \in imported.txs \cup written.txs /\ u \in imported.txs \cup written.txs
        BY <2>1 DEF ImportInv
    <2>2. CASE \E i \in Inserted(group), j \in Inserted(group) : t = tx(i) /\ u = tx(j)
        BY <1>4, <1>7, <2>2
    <2>3. CASE \E i \in Inserted(group) :
                  \/ t = tx(i) /\ u \in imported.txs \cup written.txs
                  \/ u = tx(i) /\ t \in imported.txs \cup written.txs
        BY <1>2, <1>4, <1>8, <2>3
    <2> QED
        BY <1>1, <2>1, <2>2, <2>3
<1>15. ASSUME NEW x \in imported'.alerts \cup written'.alerts,
              NEW y \in imported'.alerts \cup written'.alerts, x.tx = y.tx, x # y
       PROVE  x.tx \in repeated'
    <2> USE <1>15
    <2>1. CASE x \in imported.alerts \cup written.alerts /\ y \in imported.alerts \cup written.alerts
        BY <2>1 DEF ImportInv
    <2>2. CASE \E i \in Alerted(group), j \in Alerted(group) : x = alert(i) /\ y = alert(j)
        BY <1>5, <1>10, <2>2
    <2>3. CASE \E i \in Alerted(group) :
                  \/ x = alert(i) /\ y \in imported.alerts \cup written.alerts
                  \/ y = alert(i) /\ x \in imported.alerts \cup written.alerts
        BY <1>5, <1>9, <2>3
    <2> QED
        BY <1>1, <2>1, <2>2, <2>3
<1> QED
    BY <1>12, <1>13, <1>14, <1>15

\* A batch's group are counted, each once.
LEMMA CountedIs ==
    ASSUME ImportTypeOK, NEW group \in Seq(Rows), NEW kind \in {"fraud", "legit"},
           stats' = Counted(kind, group)
    PROVE  /\ stats' \in [fraud : Nat, legit : Nat, skipped : Nat]
           /\ Counts' = Counts + Len(group)
<1> DEFINE n == Cardinality(Inserted(group))
           k == Len(group)
<1>1. n \in Nat /\ k \in Nat /\ n <= k
    BY InsertedIs
<1>2. stats \in [fraud : Nat, legit : Nat, skipped : Nat]
    BY DEF ImportTypeOK
<1> HIDE DEF n, k
<1>3. CASE kind = "fraud"
    <2>1. stats' = [stats EXCEPT !.fraud = stats.fraud + n, !.skipped = stats.skipped + k - n]
        BY <1>3 DEF Counted, n, k
    <2>2. /\ stats'.fraud = stats.fraud + n /\ stats'.skipped = stats.skipped + k - n
          /\ stats'.legit = stats.legit /\ stats' \in [fraud : Nat, legit : Nat, skipped : Nat]
        <3>1. stats.fraud + n \in Nat /\ stats.skipped + k - n \in Nat
            BY <1>1, <1>2
        <3> QED
            BY <1>2, <2>1, <3>1
    <2>3. Counts' = Counts + k
        BY <1>1, <1>2, <2>2 DEF Counts
    <2> QED
        BY <2>2, <2>3 DEF k
<1>4. CASE kind = "legit"
    <2>1. stats' = [stats EXCEPT !.legit = stats.legit + n, !.skipped = stats.skipped + k - n]
        BY <1>4 DEF Counted, n, k
    <2>2. /\ stats'.legit = stats.legit + n /\ stats'.skipped = stats.skipped + k - n
          /\ stats'.fraud = stats.fraud /\ stats' \in [fraud : Nat, legit : Nat, skipped : Nat]
        <3>1. stats.legit + n \in Nat /\ stats.skipped + k - n \in Nat
            BY <1>1, <1>2
        <3> QED
            BY <1>2, <2>1, <3>1
    <2>3. Counts' = Counts + k
        BY <1>1, <1>2, <2>2 DEF Counts
    <2> QED
        BY <2>2, <2>3 DEF k
<1> QED
    BY <1>3, <1>4

\* A batch of k rows leaves the balance: what is counted, held and sampled out is what
\* was read.
LEMMA BalanceIs ==
    ASSUME NEW counted \in Nat, NEW p \in Nat, NEW q \in Nat, NEW p1 \in Nat, NEW q1 \in Nat,
           NEW k \in Nat, NEW out \in Nat, NEW read \in Nat, NEW read1 \in Nat,
           counted + p + q + out = read, p1 + q1 + k = p + q + (read1 - read)
    PROVE  (counted + k) + p1 + q1 + out = read1
OBVIOUS

\* So is a batch that is inserted as a whole.
LEMMA BatchStep ==
    ASSUME ImportTypeOK, ImportInv, file # None, NEW group \in Seq(Rows), NEW kind \in {"fraud", "legit"},
           Insert(group), stats' = Counted(kind, group), repeated' = repeated \cup Repeats(group),
           UNCHANGED <<file, legit, imported, imports>>,
           at' \in Nat, at' <= Len(file), batch' \in Seq(Rows), reservoir' \in Seq(Rows),
           Len(batch') + Len(reservoir') + Len(group) = Len(batch) + Len(reservoir) + (at' - at)
    PROVE  ImportTypeOK' /\ ImportInv'
<1>1. /\ written' \in Imported
      /\ {x.tx : x \in written'.alerts} = {t.id : t \in written'.txs}
      /\ \A t, u \in imported'.txs \cup written'.txs : t.id = u.id => t = u
      /\ \A x, y \in imported'.alerts \cup written'.alerts : (x.tx = y.tx /\ x # y) => x.tx \in repeated'
    BY InsertKeeps
<1>2. /\ stats' \in [fraud : Nat, legit : Nat, skipped : Nat]
      /\ Counts' = Counts + Len(group)
    BY CountedIs
<1>3. ImportTypeOK'
    BY <1>1, <1>2 DEF ImportTypeOK
<1>4. file \in Files /\ SampledOut' = SampledOut /\ SampledOut \in Nat
    <2>1. file \in Files
        BY DEF ImportTypeOK
    <2>2. SampleSize(file) \in Nat /\ legit \in Nat
        BY <2>1, SampleSizeIs DEF ImportTypeOK
    <2> QED
        BY <2>1, <2>2 DEF SampledOut, SampleSize, FraudCount, Good
<1>5. Counts' + Len(batch') + Len(reservoir') + SampledOut' = at'
    <2>1. Counts + Len(batch) + Len(reservoir) + SampledOut = at
        BY DEF ImportInv
    <2>2. Counts \in Nat /\ Len(batch) \in Nat /\ Len(reservoir) \in Nat /\ at \in Nat
        BY CountsAre
    <2>3. /\ Len(group) \in Nat /\ Len(batch') \in Nat /\ Len(reservoir') \in Nat
          /\ Len(batch') + Len(reservoir') + Len(group) = Len(batch) + Len(reservoir) + (at' - at)
        OBVIOUS
    <2> DEFINE counted == Counts
               p == Len(batch)
               q == Len(reservoir)
               p1 == Len(batch')
               q1 == Len(reservoir')
               k == Len(group)
               out == SampledOut
               read == at
               read1 == at'
    <2> HIDE DEF counted, p, q, p1, q1, k, out, read, read1
    <2>4. (counted + k) + p1 + q1 + out = read1
        <3>1. counted \in Nat /\ p \in Nat /\ q \in Nat /\ out \in Nat /\ read \in Nat
            BY <1>4, <2>2 DEF counted, p, q, out, read
        <3>2. p1 \in Nat /\ q1 \in Nat /\ k \in Nat /\ read1 \in Nat
            BY <2>3 DEF p1, q1, k, read1
        <3>3. counted + p + q + out = read
            BY <2>1 DEF counted, p, q, out, read
        <3>4. p1 + q1 + k = p + q + (read1 - read)
            BY <2>3 DEF p, q, p1, q1, k, read, read1
        <3> QED
            BY <3>1, <3>2, <3>3, <3>4, BalanceIs
    <2> QED
        BY <1>2, <1>4, <2>4 DEF counted, p1, q1, k, out, read1
<1>6. ImportInv'
    BY <1>1, <1>5 DEF ImportInv
<1> QED
    BY <1>3, <1>6

\* The importer's steps.
LEMMA ImportStep ==
    ASSUME ImportTypeOK, ImportInv, [ImportNext]_importVars
    PROVE  ImportTypeOK' /\ ImportInv'
<1>1. ASSUME NEW f \in Files, Start(f) PROVE ImportTypeOK' /\ ImportInv'
    <2>1. SampleSize(f) \in Nat /\ Len(f) \in Nat
        BY SampleSizeIs, ImportAssumption
    <2>2. SampledOut' = 0
        BY <1>1, <2>1 DEF Start, SampledOut, SampleSize, FraudCount, Good
    <2>3. ImportTypeOK'
        BY <1>1, ImportAssumption DEF Start, ImportTypeOK, NoStats
    <2>4. ImportInv'
        <3>1. /\ at' = 0 /\ batch' = <<>> /\ reservoir' = <<>> /\ stats' = NoStats /\ file' = f
              /\ UNCHANGED <<written, imported, repeated>>
            BY <1>1 DEF Start
        <3>2. Counts' = 0
            BY <3>1 DEF Counts, NoStats
        <3>3. Counts' + Len(batch') + Len(reservoir') + SampledOut' = at' /\ at' <= Len(file')
            BY <2>1, <2>2, <3>1, <3>2
        <3> QED
            BY <3>1, <3>3 DEF ImportInv
    <2> QED
        BY <2>3, <2>4
<1>2. CASE SkipRow
    <2>1. at' = at + 1 /\ at < Len(file) /\ stats' = [stats EXCEPT !.skipped = stats.skipped + 1]
          /\ UNCHANGED <<file, batch, reservoir, legit, written, imported, repeated, imports>> /\ file # None
        BY <1>2 DEF SkipRow
    <2>2. SampledOut' = SampledOut
        BY <2>1 DEF SampledOut, SampleSize, FraudCount, Good
    <2>3. file \in Files /\ SampledOut \in Nat /\ Len(file) \in Nat
        BY <2>1, SampleSizeIs, ImportAssumption DEF SampledOut, ImportTypeOK
    <2>4. ImportTypeOK'
        <3>1. stats' \in [fraud : Nat, legit : Nat, skipped : Nat] /\ at' \in Nat
            <4>1. stats \in [fraud : Nat, legit : Nat, skipped : Nat] /\ at \in Nat
                BY DEF ImportTypeOK
            <4>2. stats.skipped + 1 \in Nat /\ at + 1 \in Nat
                BY <4>1
            <4> QED
                BY <2>1, <4>1, <4>2
        <3> QED
            BY <2>1, <3>1 DEF ImportTypeOK
    <2>5. ImportInv'
        <3>1. Counts + Len(batch) + Len(reservoir) + SampledOut = at
            BY <2>1 DEF ImportInv
        <3>2. Counts' = Counts + 1
            BY <2>1, CountsAre DEF Counts
        <3>3. Counts \in Nat /\ at \in Nat /\ Len(batch) \in Nat /\ Len(reservoir) \in Nat
            BY CountsAre
        <3>4. Counts' + Len(batch') + Len(reservoir') + SampledOut' = at'
            BY <2>1, <2>2, <2>3, <3>1, <3>2, <3>3
        <3>5. at' <= Len(file')
            BY <2>1, <2>3, <3>3
        <3> QED
            BY <2>1, <3>4, <3>5 DEF ImportInv
    <2> QED
        BY <2>4, <2>5
<1>3. CASE FraudRow
    <2> DEFINE group == Append(batch, file[at + 1])
    <2>1. /\ file # None /\ at < Len(file) /\ file[at + 1] # Bad /\ at' = at + 1
          /\ UNCHANGED <<file, reservoir, legit, imported, imports>>
        BY <1>3 DEF FraudRow
    <2>2. file[at + 1] \in Rows /\ batch \in Seq(Rows) /\ reservoir \in Seq(Rows) /\ at \in Nat
        BY <2>1, RowIs DEF ImportTypeOK
    <2>3. group \in Seq(Rows) /\ Len(group) = Len(batch) + 1 /\ Len(batch) \in Nat /\ Len(reservoir) \in Nat
        BY <2>2
    <2>4. file \in Files /\ Len(file) \in Nat /\ at' <= Len(file)
        BY <2>1, <2>2, ImportAssumption DEF ImportTypeOK
    <2>5. CASE Len(group) >= BatchSize
        <3>1. Insert(group) /\ stats' = Counted("fraud", group) /\ batch' = <<>>
              /\ repeated' = repeated \cup Repeats(group)
            BY <1>3, <2>5 DEF FraudRow
        <3>2. batch' \in Seq(Rows) /\ Len(batch') = 0
            BY <3>1
        <3> HIDE DEF group
        <3>3. at' \in Nat /\ reservoir' \in Seq(Rows)
              /\ Len(batch') + Len(reservoir') + Len(group) = Len(batch) + Len(reservoir) + (at' - at)
            BY <2>1, <2>2, <2>3, <3>2
        <3> QED
            BY <2>1, <2>3, <2>4, <3>1, <3>2, <3>3, BatchStep
    <2>6. CASE ~(Len(group) >= BatchSize)
        <3>1. batch' = group /\ UNCHANGED <<written, stats, repeated>>
            BY <1>3, <2>6 DEF FraudRow
        <3> HIDE DEF group
        <3>2. SampledOut' = SampledOut
            BY <2>1 DEF SampledOut, SampleSize, FraudCount, Good
        <3>3. SampledOut \in Nat
            BY <2>4, SampleSizeIs DEF SampledOut, ImportTypeOK
        <3>4. ImportTypeOK'
            BY <2>1, <2>2, <2>3, <3>1 DEF ImportTypeOK
        <3>5. Counts + Len(batch) + Len(reservoir) + SampledOut = at
            BY <2>1 DEF ImportInv
        <3>6. Counts' = Counts /\ Counts \in Nat
            BY <3>1, CountsAre DEF Counts
        <3>7. Counts' + Len(batch') + Len(reservoir') + SampledOut' = at'
            BY <2>1, <2>2, <2>3, <3>1, <3>2, <3>3, <3>5, <3>6
        <3>8. ImportInv'
            BY <2>1, <2>4, <3>1, <3>7 DEF ImportInv
        <3> QED
            BY <3>4, <3>8
    <2> QED
        BY <2>5, <2>6
<1>4. CASE LegitRow
    <2> DEFINE row == file[at + 1]
               size == SampleSize(file)
    <2>1. /\ file # None /\ at < Len(file) /\ row # Bad /\ at' = at + 1 /\ legit' = legit + 1
          /\ UNCHANGED <<file, batch, stats, written, imported, repeated, imports>>
        BY <1>4 DEF LegitRow
    <2>2. row \in Rows /\ batch \in Seq(Rows) /\ reservoir \in Seq(Rows) /\ at \in Nat /\ legit \in Nat
        BY <2>1, RowIs DEF ImportTypeOK
    <2>3. file \in Files /\ Len(file) \in Nat /\ size \in Nat
        BY <2>1, SampleSizeIs, ImportAssumption DEF ImportTypeOK
    <2>4. SampledOut' = IF legit + 1 > size THEN legit + 1 - size ELSE 0
        <3>1. SampleSize(file') = SampleSize(file) /\ legit' = legit + 1
            BY <2>1
        <3>2. SampledOut' = IF legit' > SampleSize(file') THEN legit' - SampleSize(file') ELSE 0
            BY DEF SampledOut, SampleSize, FraudCount, Good
        <3> QED
            BY <2>2, <2>3, <3>1, <3>2
    <2>5. SampledOut = IF legit > size THEN legit - size ELSE 0
        BY DEF SampledOut
    <2>6. \/ legit < size /\ reservoir' = Append(reservoir, row)
          \/ legit >= size /\ \E j \in Nat : reservoir' \in {reservoir, [reservoir EXCEPT ![j] = row]}
        BY <1>4, <2>2, <2>3 DEF LegitRow
    <2> HIDE DEF row, size
    <2>7. reservoir' \in Seq(Rows) /\ Len(reservoir') + SampledOut' = Len(reservoir) + SampledOut + 1
        <3>1. CASE legit < size /\ reservoir' = Append(reservoir, row)
            BY <2>2, <2>3, <2>4, <2>5, <3>1
        <3>2. ASSUME NEW j \in Nat, reservoir' \in {reservoir, [reservoir EXCEPT ![j] = row]}
              PROVE  reservoir' \in Seq(Rows) /\ Len(reservoir') = Len(reservoir)
            BY <2>2, <3>2
        <3> QED
            BY <2>2, <2>3, <2>4, <2>5, <2>6, <3>1, <3>2
    <2>8. ImportTypeOK'
        BY <2>1, <2>2, <2>7 DEF ImportTypeOK
    <2>9. Counts + Len(batch) + Len(reservoir) + SampledOut = at
        BY <2>1 DEF ImportInv
    <2>10. /\ Counts' = Counts /\ Counts \in Nat
           /\ Len(batch) \in Nat /\ Len(reservoir) \in Nat
        BY <2>1, CountsAre DEF Counts
    <2>11. SampledOut \in Nat /\ SampledOut' \in Nat /\ Len(reservoir') \in Nat
        BY <2>2, <2>3, <2>4, <2>5, <2>7
    <2>12. Counts' + Len(batch') + Len(reservoir') + SampledOut' = at'
        <3> DEFINE k == Counts
                   p == Len(batch)
                   q == Len(reservoir)
                   q1 == Len(reservoir')
                   s == SampledOut
                   s1 == SampledOut'
        <3>1. /\ q1 + s1 = q + s + 1 /\ k + p + q + s = at
              /\ k \in Nat /\ p \in Nat /\ q \in Nat /\ q1 \in Nat /\ s \in Nat /\ s1 \in Nat
            BY <2>7, <2>9, <2>10, <2>11
        <3>2. Counts' = k /\ Len(batch') = p /\ at' = at + 1 /\ at \in Nat
            BY <2>1, <2>2, <2>10
        <3> HIDE DEF k, p, q, q1, s, s1
        <3>3. k + p + q1 + s1 = at'
            BY <3>1, <3>2
        <3> QED
            BY <3>2, <3>3 DEF q1, s1
    <2>13. at' <= Len(file')
        BY <2>1, <2>2, <2>3
    <2>14. ImportInv'
        BY <2>1, <2>12, <2>13 DEF ImportInv
    <2> QED
        BY <2>8, <2>14
<1>5. CASE FlushFraud
    <2>1. /\ file # None /\ at = Len(file) /\ Insert(batch) /\ stats' = Counted("fraud", batch)
          /\ batch' = <<>> /\ repeated' = repeated \cup Repeats(batch)
          /\ UNCHANGED <<file, at, reservoir, legit, imported, imports>>
        BY <1>5 DEF FlushFraud, AtEnd
    <2>2. batch \in Seq(Rows) /\ reservoir \in Seq(Rows) /\ at \in Nat
        BY DEF ImportTypeOK
    <2>3. batch' \in Seq(Rows) /\ Len(batch') = 0
        BY <2>1
    <2>4. /\ at' \in Nat /\ at' <= Len(file) /\ reservoir' \in Seq(Rows)
          /\ Len(batch') + Len(reservoir') + Len(batch) = Len(batch) + Len(reservoir) + (at' - at)
        BY <2>1, <2>2, <2>3
    <2> QED
        BY <2>1, <2>2, <2>3, <2>4, BatchStep
<1>6. CASE FlushLegit
    <2> DEFINE n == IF Len(reservoir) < BatchSize THEN Len(reservoir) ELSE BatchSize
               group == SubSeq(reservoir, 1, n)
    <2>1. /\ file # None /\ at = Len(file) /\ Insert(group) /\ stats' = Counted("legit", group)
          /\ reservoir' = SubSeq(reservoir, n + 1, Len(reservoir))
          /\ repeated' = repeated \cup Repeats(group)
          /\ UNCHANGED <<file, at, batch, legit, imported, imports>>
        BY <1>6 DEF FlushLegit, AtEnd
    <2>2. batch \in Seq(Rows) /\ reservoir \in Seq(Rows) /\ at \in Nat /\ Len(reservoir) \in Nat
          /\ Len(batch) \in Nat
        BY DEF ImportTypeOK
    <2>3. n \in 0 .. Len(reservoir)
        BY <2>2, ImportAssumption
    <2> HIDE DEF n
    <2>4. group \in Seq(Rows) /\ Len(group) = n
        BY <2>2, <2>3
    <2>5. reservoir' \in Seq(Rows) /\ Len(reservoir') = Len(reservoir) - n
        BY <2>1, <2>2, <2>3
    <2> HIDE DEF group
    <2>6. /\ at' \in Nat /\ at' <= Len(file) /\ batch' \in Seq(Rows)
          /\ Len(batch') + Len(reservoir') + Len(group) = Len(batch) + Len(reservoir) + (at' - at)
        <3>1. at' = at /\ Len(file) = at /\ batch' = batch
            BY <2>1
        <3>2. n \in Nat /\ n <= Len(reservoir)
            BY <2>2, <2>3
        <3> QED
            BY <2>2, <2>4, <2>5, <3>1, <3>2
    <2> QED
        BY <2>1, <2>4, <2>5, <2>6, BatchStep
<1>7. CASE CommitImport
    <2>1. /\ imported'.txs = imported.txs \cup written.txs
          /\ imported'.alerts = imported.alerts \cup written.alerts
          /\ imported' = [txs |-> imported.txs \cup written.txs, alerts |-> imported.alerts \cup written.alerts]
          /\ written' = Nothing /\ file' = None
          /\ UNCHANGED <<at, batch, reservoir, legit, stats, repeated, imports>>
        BY <1>7 DEF CommitImport
    <2>2. ImportTypeOK'
        BY <2>1 DEF ImportTypeOK, Imported, Nothing
    <2>3. {x.tx : x \in imported'.alerts} = {t.id : t \in imported'.txs}
        <3>1. /\ {x.tx : x \in imported.alerts} = {t.id : t \in imported.txs}
              /\ {x.tx : x \in written.alerts} = {t.id : t \in written.txs}
            BY DEF ImportInv
        <3>2. /\ {x.tx : x \in imported'.alerts} =
                    {x.tx : x \in imported.alerts} \cup {x.tx : x \in written.alerts}
              /\ {t.id : t \in imported'.txs} =
                    {t.id : t \in imported.txs} \cup {t.id : t \in written.txs}
            BY <2>1
        <3> QED
            BY <3>1, <3>2
    <2>4. written'.txs = {} /\ written'.alerts = {}
        BY <2>1 DEF Nothing
    <2>5. ImportInv'
        BY <2>1, <2>3, <2>4 DEF ImportInv
    <2> QED
        BY <2>2, <2>5
<1>8. CASE ImportFails
    <2>1. /\ file' = None /\ written' = Nothing /\ batch' = <<>> /\ reservoir' = <<>>
          /\ stats' = NoStats /\ UNCHANGED <<at, legit, imported, repeated, imports>>
        BY <1>8 DEF ImportFails
    <2>2. written'.txs = {} /\ written'.alerts = {}
        BY <2>1 DEF Nothing
    <2>3. ImportTypeOK'
        BY <2>1 DEF ImportTypeOK, Imported, Nothing, NoStats
    <2>4. ImportInv'
        BY <2>1, <2>2 DEF ImportInv
    <2> QED
        BY <2>3, <2>4
<1>9. CASE UNCHANGED importVars
    <2>1. SampledOut' = SampledOut
        BY <1>9 DEF importVars, SampledOut, SampleSize, FraudCount, Good
    <2>2. Counts' = Counts
        BY <1>9 DEF importVars, Counts
    <2>3. ImportTypeOK'
        BY <1>9 DEF importVars, ImportTypeOK
    <2>4. ImportInv'
        BY <1>9, <2>1, <2>2 DEF importVars, ImportInv
    <2> QED
        BY <2>3, <2>4
<1> QED
    BY <1>1, <1>2, <1>3, <1>4, <1>5, <1>6, <1>7, <1>8, <1>9 DEF ImportNext

\* At the start nothing is imported and nothing counted.
LEMMA ImportStart == ImportInit => ImportTypeOK /\ ImportInv
<1> SUFFICES ASSUME ImportInit PROVE ImportTypeOK /\ ImportInv
    OBVIOUS
<1> USE DEF ImportInit
<1>1. ImportTypeOK
    BY ImportAssumption DEF ImportTypeOK, Imported, Nothing, NoStats
<1>2. ImportInv
    BY DEF ImportInv, Nothing
<1> QED
    BY <1>1, <1>2

\* Training labels are sound, for any files, sample and batch (import_ibm_aml_data.py).
THEOREM LabelsAreSoundAlways == ImportSpec => [](ImportTypeOK /\ LabelsAreSound)
<1>1. ImportTypeOK /\ ImportInv => LabelsAreSound
    <2> SUFFICES ASSUME ImportTypeOK, ImportInv, AtEnd, batch = <<>>, reservoir = <<>>
                 PROVE  Counts = Len(file) - SampledOut
        BY DEF ImportInv, LabelsAreSound
    <2>1. file \in Files /\ file # None /\ at = Len(file)
        BY DEF AtEnd, ImportTypeOK
    <2>2. SampledOut \in Nat /\ Len(file) \in Nat /\ Counts \in Nat
        BY <2>1, SampleSizeIs, CountsAre, ImportAssumption DEF SampledOut, ImportTypeOK
    <2>3. Counts + Len(batch) + Len(reservoir) + SampledOut = at
        BY <2>1 DEF ImportInv
    <2>4. Len(batch) = 0 /\ Len(reservoir) = 0
        OBVIOUS
    <2> QED
        BY <2>1, <2>2, <2>3, <2>4
<1>2. (ImportTypeOK /\ ImportInv) /\ [ImportNext]_importVars => (ImportTypeOK /\ ImportInv)'
    BY ImportStep
<1> QED
    BY <1>1, <1>2, ImportStart, PTL DEF ImportSpec


-----------------------------------------------------------------------------
(* The history of a client                                                   *)

\* At the start a client has no history.
LEMMA HistoryStart == CreditInit => CreditTypeOK
BY HistoryAssumption DEF CreditInit, CreditTypeOK

\* Every step keeps the types of a history.
LEMMA HistoryStep == CreditTypeOK /\ [CreditNext]_creditVars => CreditTypeOK'
<1> SUFFICES ASSUME CreditTypeOK, [CreditNext]_creditVars PROVE CreditTypeOK'
    OBVIOUS
<1> USE HistoryAssumption
<1>1. ASSUME NEW m \in Moves, Transact(m[1], m[2]) PROVE CreditTypeOK'
    <2> DEFINE new == [kind |-> m[1], amount |-> m[2], month |-> month]
    <2>1. /\ moves' = Append(moves, new) /\ Len(moves) < MaxMoves /\ UNCHANGED <<month, alerts>>
        BY <1>1 DEF Transact
    <2>2. new \in Posting /\ new.month = month
        BY DEF Posting, CreditTypeOK
    <2> HIDE DEF new
    <2>3. /\ moves' \in Seq(Posting) /\ Len(moves') = Len(moves) + 1
          /\ \A i \in DOMAIN moves' : moves'[i] = new \/ (i \in DOMAIN moves /\ moves'[i] = moves[i])
        BY <2>1, <2>2 DEF CreditTypeOK
    <2>4. Len(moves') <= MaxMoves
        BY <2>1, <2>3 DEF CreditTypeOK
    <2>5. \A i \in DOMAIN moves' : moves'[i].month <= month'
        BY <2>1, <2>2, <2>3 DEF CreditTypeOK
    <2> QED
        BY <2>1, <2>3, <2>4, <2>5 DEF CreditTypeOK
<1>2. ASSUME NEW x \in FraudAlerts, RaiseFraudAlert(x) \/ ConfirmFraud(x) PROVE CreditTypeOK'
    <2>1. UNCHANGED <<month, moves>>
        BY <1>2 DEF RaiseFraudAlert, ConfirmFraud
    <2>2. /\ alerts' \in [FraudAlerts -> [created : 0 .. MaxMonths, confirmed : BOOLEAN] \cup {None}]
          /\ alerts'[x].created <= month /\ \A y \in FraudAlerts \ {x} : alerts'[y] = alerts[y]
        <3>1. CASE RaiseFraudAlert(x)
            BY <3>1 DEF RaiseFraudAlert, CreditTypeOK
        <3>2. CASE ConfirmFraud(x)
            <4>1. /\ alerts[x] \in [created : 0 .. MaxMonths, confirmed : BOOLEAN]
                  /\ alerts[x].created <= month
                BY <3>2 DEF ConfirmFraud, CreditTypeOK
            <4>2. alerts' = [alerts EXCEPT ![x] = [alerts[x] EXCEPT !.confirmed = TRUE]]
                BY <3>2 DEF ConfirmFraud
            <4>3. /\ [alerts[x] EXCEPT !.confirmed = TRUE] \in [created : 0 .. MaxMonths, confirmed : BOOLEAN]
                  /\ [alerts[x] EXCEPT !.confirmed = TRUE].created = alerts[x].created
                BY <4>1
            <4> QED
                BY <4>1, <4>2, <4>3 DEF CreditTypeOK
        <3> QED
            BY <1>2, <3>1, <3>2
    <2> QED
        BY <2>1, <2>2 DEF CreditTypeOK
<1>3. CASE TimePasses
    <2>1. month' \in 0 .. MaxMonths /\ month <= month' /\ month \in Nat /\ month' \in Nat
        BY <1>3 DEF TimePasses, CreditTypeOK
    <2>2. UNCHANGED <<moves, alerts>>
        BY <1>3 DEF TimePasses
    <2>3. \A i \in DOMAIN moves : moves[i].month \in Nat
        BY DEF CreditTypeOK, Posting
    <2>4. \A x \in FraudAlerts : alerts[x] # None => alerts[x].created \in Nat
        BY DEF CreditTypeOK
    <2>5. \A i \in DOMAIN moves : moves[i].month <= month'
        BY <2>1, <2>3 DEF CreditTypeOK
    <2>6. \A x \in FraudAlerts : alerts[x] # None => alerts[x].created <= month'
        BY <2>1, <2>4 DEF CreditTypeOK
    <2> QED
        BY <2>1, <2>2, <2>5, <2>6 DEF CreditTypeOK
<1>4. CASE UNCHANGED creditVars
    BY <1>4 DEF creditVars, CreditTypeOK
<1> QED
    BY <1>1, <1>2, <1>3, <1>4 DEF CreditNext

\* A history holds at most so many postings, none later than the clock.
LEMMA HistoryTypeCorrect == HistorySpec => []CreditTypeOK
BY HistoryStart, HistoryStep, PTL DEF HistorySpec

\* A set of natural numbers that is not empty has a least one.
LEMMA LeastExists ==
    ASSUME NEW S \in SUBSET Nat, S # {}
    PROVE  Min(S) \in S /\ \A x \in S : Min(S) <= x
<1>1. PICK m \in S : \A x \in S : ~(<<x, m>> \in OpToRel(<, Nat))
    BY NatLessThanWellFounded, WFMin
<1>2. \A x \in S : m <= x
    <2> SUFFICES ASSUME NEW x \in S, ~(m <= x) PROVE FALSE
        OBVIOUS
    <2>1. x \in Nat /\ m \in Nat /\ x < m
        OBVIOUS
    <2>2. <<x, m>> \in OpToRel(<, Nat)
        BY <2>1 DEF OpToRel
    <2> QED
        BY <1>1, <2>2
<1> QED
    BY <1>2 DEF Min

\* One that has a bound has a greatest one.
LEMMA GreatestExists ==
    ASSUME NEW n \in Nat, NEW S \in SUBSET (0 .. n), S # {}
    PROVE  Max(S) \in S /\ \A x \in S : x <= Max(S)
<1> DEFINE T == {n - x : x \in S}
<1>1. T \in SUBSET Nat /\ T # {}
    <2>1. \A x \in S : x \in Nat /\ n - x \in Nat
        OBVIOUS
    <2> QED
        BY <2>1
<1>2. Min(T) \in T /\ \A y \in T : Min(T) <= y
    <2> HIDE DEF T
    <2> QED
        BY <1>1, LeastExists
<1>3. PICK g \in S : Min(T) = n - g
    BY <1>2
<1>4. \A x \in S : g >= x
    <2> TAKE x \in S
    <2>1. n - x \in T
        OBVIOUS
    <2>2. n - g <= n - x /\ g \in Int /\ x \in Int
        BY <1>2, <1>3, <2>1
    <2> QED
        BY <2>2
<1>5. Max(S) \in S /\ \A x \in S : Max(S) >= x
    BY <1>4 DEF Max
<1> QED
    BY <1>5

\* The movements are numbered, dated and of positive amounts.
LEMMA MovementsAre ==
    ASSUME CreditTypeOK
    PROVE  /\ month \in Nat /\ IsFiniteSet(DOMAIN moves)
           /\ \A i \in DOMAIN moves : /\ Amounts[i] \in Nat \ {0}
                                     /\ moves[i].month \in 0 .. MaxMonths /\ moves[i].month <= month
           /\ Recent \subseteq DOMAIN moves /\ IsFiniteSet(Recent) /\ Cardinality(Recent) \in Nat
<1>1. month \in Nat /\ Len(moves) \in Nat /\ DOMAIN moves = 1 .. Len(moves)
    BY HistoryAssumption DEF CreditTypeOK
<1>2. IsFiniteSet(DOMAIN moves)
    BY <1>1, FS_Interval
<1>3. \A i \in DOMAIN moves : moves[i] \in Posting
    BY DEF CreditTypeOK
<1>4. \A p \in Posting : p.amount \in Nat \ {0} /\ p.month \in 0 .. MaxMonths
    BY HistoryAssumption DEF Posting
<1>5. Recent \subseteq DOMAIN moves
    BY DEF Recent
<1>6. IsFiniteSet(Recent) /\ Cardinality(Recent) \in Nat
    BY <1>2, <1>5, FS_Subset, FS_CardinalityType
<1> QED
    BY <1>1, <1>2, <1>3, <1>4, <1>5, <1>6 DEF Amounts, CreditTypeOK

\* A total is a number, and positive when something of the kind was moved.
LEMMA TotalIs ==
    ASSUME CreditTypeOK, NEW kind, NEW S \in SUBSET DOMAIN moves
    PROVE  Total(kind, S) \in Nat /\ \A i \in S : moves[i].kind = kind => Total(kind, S) > 0
<1> DEFINE T == {i \in S : moves[i].kind = kind}
<1>1. T \subseteq DOMAIN moves /\ IsFiniteSet(T) /\ \A i \in T : Amounts[i] \in Nat \ {0}
    BY MovementsAre, FS_Subset
<1>2. SumFunctionOnSet(Amounts, T) \in Nat /\ \A i \in T : Amounts[i] <= SumFunctionOnSet(Amounts, T)
    <2> HIDE DEF T
    <2> QED
        BY <1>1, SumFunctionNat
<1> QED
    BY <1>1, <1>2 DEF Total

\* Monthly totals are positive, and so is their sum if there are any.
LEMMA MonthlyIs ==
    ASSUME CreditTypeOK, NEW kind
    PROVE  /\ IsFiniteSet(DOMAIN MonthlyTotals(kind)) /\ Cardinality(DOMAIN MonthlyTotals(kind)) \in Nat
           /\ \A m \in DOMAIN MonthlyTotals(kind) : MonthlyTotals(kind)[m] \in Nat \ {0}
           /\ SumFunction(MonthlyTotals(kind)) \in Nat
           /\ DOMAIN MonthlyTotals(kind) # {} => SumFunction(MonthlyTotals(kind)) > 0
           /\ Monthly(kind) \in Nat
<1> DEFINE D == {moves[i].month : i \in {j \in Recent : moves[j].kind = kind}}
           InMonth(m) == {i \in Recent : moves[i].month = m}
           t == MonthlyTotals(kind)
           n == Cardinality(DOMAIN t)
           sum == SumFunction(t)
<1>1. DOMAIN t = D /\ \A m \in D : t[m] = Total(kind, InMonth(m))
    BY DEF MonthlyTotals
<1>2. IsFiniteSet(D) /\ Cardinality(D) \in Nat
    <2>1. D \subseteq 0 .. MaxMonths
        BY MovementsAre
    <2>2. IsFiniteSet(0 .. MaxMonths)
        BY HistoryAssumption, FS_Interval
    <2> HIDE DEF D
    <2> QED
        BY <2>1, <2>2, FS_Subset, FS_CardinalityType
<1>3. ASSUME NEW m \in D PROVE t[m] \in Nat \ {0}
    <2>1. PICK i \in Recent : moves[i].kind = kind /\ moves[i].month = m
        OBVIOUS
    <2>2. InMonth(m) \in SUBSET DOMAIN moves /\ i \in InMonth(m)
        BY <2>1, MovementsAre
    <2>3. Total(kind, InMonth(m)) \in Nat /\ Total(kind, InMonth(m)) > 0
        <3> HIDE DEF InMonth
        <3> QED
            BY <2>1, <2>2, TotalIs
    <2> QED
        BY <1>1, <2>3
<1> HIDE DEF D, t
<1>4. sum \in Nat /\ \A m \in D : t[m] <= sum
    BY <1>1, <1>2, <1>3, SumFunctionNat DEF SumFunction
<1>5. DOMAIN t # {} => sum > 0
    BY <1>1, <1>3, <1>4
<1>6. DOMAIN t # {} => n \in Nat \ {0}
    BY <1>1, <1>2, FS_EmptySet
<1>7. Monthly(kind) = IF DOMAIN t = {} THEN 0 ELSE sum \div n
    BY DEF Monthly, t
<1>8. Monthly(kind) \in Nat
    <2>1. CASE DOMAIN t = {}
        BY <1>7, <2>1
    <2>2. CASE DOMAIN t # {}
        <3> HIDE DEF sum, n
        <3>1. sum \div n \in Nat
            BY <1>4, <1>6, <2>2, DivGrows
        <3> QED
            BY <1>7, <2>2, <3>1
    <2> QED
        BY <2>1, <2>2
<1> QED
    BY <1>1, <1>2, <1>3, <1>4, <1>5, <1>8 DEF t

\* A square root is a number.
LEMMA RootIs == ASSUME NEW x \in Int PROVE Root(x) \in Nat
<1>1. IsFiniteSet(1 .. x)
    BY FS_Interval
<1>2. {r \in 1 .. x : r * r <= x} \in SUBSET (1 .. x)
    OBVIOUS
<1> QED
    BY <1>1, <1>2, FS_Subset, FS_CardinalityType DEF Root

\* The consistency of the deposits is a number.
LEMMA ConsistencyIs == ASSUME CreditTypeOK PROVE DepositConsistency \in Nat
<1> DEFINE t == MonthlyTotals("deposit")
           n == Cardinality(DOMAIN t)
           sum == SumFunction(t)
           sq == [m \in DOMAIN t |-> t[m] * t[m]]
           squares == SumFunction(sq)
           spread == n * squares - sum * sum
           quotient == (100 * Root(spread)) \div sum
<1>1. /\ IsFiniteSet(DOMAIN t) /\ n \in Nat /\ (\A m \in DOMAIN t : t[m] \in Nat \ {0})
      /\ sum \in Nat /\ (DOMAIN t # {} => sum > 0)
    BY MonthlyIs
<1>2. DepositConsistency = IF n <= 1 THEN 50 ELSE Positive(100 - quotient)
    BY DEF DepositConsistency
<1> HIDE DEF t
<1>3. \A m \in DOMAIN sq : sq[m] \in Nat
    BY <1>1
<1>4. squares \in Nat
    <2>1. DOMAIN sq = DOMAIN t
        OBVIOUS
    <2> HIDE DEF sq
    <2> QED
        BY <1>1, <1>3, <2>1, SumFunctionNat DEF SumFunction
<1>5. n > 1 => sum \in Nat \ {0}
    BY <1>1, FS_EmptySet
<1> HIDE DEF n, sum, squares
<1>6. spread \in Int
    BY <1>1, <1>4
<1> HIDE DEF spread
<1>7. Root(spread) \in Nat
    BY <1>6, RootIs
<1>8. n > 1 => quotient \in Nat
    BY <1>5, <1>7, DivGrows
<1> HIDE DEF quotient
<1> QED
    BY <1>1, <1>2, <1>8 DEF Positive

\* The score of the net flow is a number.
LEMMA FlowIs == ASSUME CreditTypeOK PROVE NetFlow \in Int /\ Sigmoid(NetFlow) \in Nat
<1>1. NetFlow \in Int
    BY MonthlyIs DEF NetFlow
<1>2. \A x \in Int : Sigmoid(x) \in Nat
    <2> TAKE x \in Int
    <2> DEFINE upper == <<73, 88, 95, 98>>
               half(y) == IF y > 4 THEN 99 ELSE IF y = 0 THEN 50 ELSE upper[y]
    <2>1. \A y \in Nat : half(y) \in 0 .. 99
        <3> TAKE y \in Nat
        <3>1. CASE y = 1 \/ y = 2 \/ y = 3 \/ y = 4
            BY <3>1
        <3>2. CASE y = 0 \/ y > 4
            BY <3>2
        <3> QED
            BY <3>1, <3>2
    <2>2. Sigmoid(x) = IF x >= 0 THEN half(x) ELSE 100 - half(-x)
        BY DEF Sigmoid
    <2> HIDE DEF half
    <2>3. CASE x >= 0
        BY <2>1, <2>2, <2>3
    <2>4. CASE ~(x >= 0)
        <3>1. -x \in Nat
            BY <2>4
        <3>2. half(-x) \in 0 .. 99
            BY <2>1, <3>1
        <3> QED
            BY <2>2, <2>4, <3>2
    <2> QED
        BY <2>3, <2>4
<1> QED
    BY <1>1, <1>2

\* The rate of saving is a number.
LEMMA SavingsIs == ASSUME CreditTypeOK PROVE SavingsRate \in Nat
<1> DEFINE earned == Monthly("deposit")
           rate == (100 * NetFlow) \div earned
<1>1. earned \in Nat /\ NetFlow \in Int
    BY MonthlyIs, FlowIs
<1>2. SavingsRate = IF earned = 0 THEN 0 ELSE Least(100, Positive(rate))
    BY DEF SavingsRate
<1> HIDE DEF earned
<1>3. earned # 0 => rate \in Int
    BY <1>1, SMT
<1> HIDE DEF rate
<1> QED
    BY <1>1, <1>2, <1>3 DEF Least, Positive

\* The age of the account is a number.
LEMMA AgeIs == ASSUME CreditTypeOK PROVE AccountAge \in Nat
<1> DEFINE S == {moves[i].month : i \in DOMAIN moves}
<1>1. CASE moves = <<>>
    BY <1>1 DEF AccountAge
<1>2. CASE moves # <<>>
    <2>1. S \in SUBSET Nat /\ S # {} /\ \A m \in S : m <= month
        <3>1. DOMAIN moves # {}
            BY <1>2 DEF CreditTypeOK
        <3> QED
            BY <3>1, MovementsAre
    <2> HIDE DEF S
    <2>2. Min(S) \in S
        BY <2>1, LeastExists
    <2>3. Min(S) \in Nat /\ Min(S) <= month
        BY <2>1, <2>2
    <2>4. AccountAge = month - Min(S)
        BY <1>2 DEF AccountAge, S
    <2> QED
        BY <2>3, <2>4, MovementsAre
<1> QED
    BY <1>1, <1>2

\* So is the frequency of movements in an account of an age, and with more of them it is
\* no lower.
FrequencyOf(n, age) == Least(100, (100 * n) \div (30 * (IF age > 1 THEN age ELSE 1)))

LEMMA FrequencyIs ==
    ASSUME NEW n \in Nat, NEW k \in Nat, n <= k, NEW age \in Nat
    PROVE  /\ FrequencyOf(n, age) \in Nat /\ FrequencyOf(k, age) \in Nat
           /\ FrequencyOf(n, age) <= FrequencyOf(k, age)
<1> DEFINE active == IF age > 1 THEN age ELSE 1
           base == 30 * active
<1>1. base \in Nat \ {0}
    OBVIOUS
<1> HIDE DEF base
<1>2. /\ (100 * n) \div base \in Nat /\ (100 * k) \div base \in Nat
      /\ (100 * n) \div base <= (100 * k) \div base
    BY <1>1, DivGrows
<1>3. \A x, y \in Nat : x <= y => Least(100, x) \in Nat /\ Least(100, y) \in Nat
                                  /\ Least(100, x) <= Least(100, y)
    BY DEF Least
<1>4. /\ Least(100, (100 * n) \div base) \in Nat /\ Least(100, (100 * k) \div base) \in Nat
      /\ Least(100, (100 * n) \div base) <= Least(100, (100 * k) \div base)
    BY <1>2, <1>3
<1> QED
    BY <1>4 DEF base, FrequencyOf

\* The rate of repayment is a number, and with more repaid it is no lower.
LEMMA RepaymentIs ==
    ASSUME NEW lent \in Nat, NEW paid \in Nat, NEW more \in Nat, paid <= more
    PROVE  LET rate(x) == IF lent = 0 THEN 50 ELSE Least(100, (100 * x) \div lent)
           IN  rate(paid) \in Nat /\ rate(more) \in Nat /\ rate(paid) <= rate(more)
<1>1. CASE lent = 0
    BY <1>1
<1>2. CASE lent # 0
    <2>1. /\ (100 * paid) \div lent \in Nat /\ (100 * more) \div lent \in Nat
          /\ (100 * paid) \div lent <= (100 * more) \div lent
        BY <1>2, DivGrows
    <2>2. \A x, y \in Nat : x <= y => Least(100, x) \in Nat /\ Least(100, y) \in Nat
                                      /\ Least(100, x) <= Least(100, y)
        BY DEF Least
    <2> QED
        BY <1>2, <2>1, <2>2
<1> QED
    BY <1>1, <1>2

\* The part of the score that confirmed alerts and the days since leave: more alerts and
\* fewer days leave no more.
Clean(n, days) == (Positive(100 - 20 * n) * Least(100, (100 * days) \div 365)) \div 100

LEMMA CleanIs ==
    ASSUME NEW n \in Nat, NEW k \in Nat, k <= n, NEW days \in Nat, NEW more \in Nat, days <= more
    PROVE  Clean(n, days) \in Nat /\ Clean(k, more) \in Nat /\ Clean(n, days) <= Clean(k, more)
<1> DEFINE few == (100 * days) \div 365
           many == (100 * more) \div 365
           p == Positive(100 - 20 * n)
           q == Positive(100 - 20 * k)
           l == Least(100, few)
           g == Least(100, many)
<1>1. few \in Nat /\ many \in Nat /\ few <= many
    BY DivGrows
<1>2. p \in Nat /\ q \in Nat /\ p <= q
    BY DEF Positive
<1> HIDE DEF few, many, p, q
<1>3. l \in Nat /\ g \in Nat /\ l <= g
    BY <1>1 DEF Least
<1> HIDE DEF l, g
<1>4. p * l \in Nat /\ q * g \in Nat /\ p * l <= q * g
    BY <1>2, <1>3, ProductGrows
<1>5. (p * l) \div 100 \in Nat /\ (q * g) \div 100 \in Nat /\ (p * l) \div 100 <= (q * g) \div 100
    <2> DEFINE a == p * l
               c == q * g
    <2>1. a \in Nat /\ c \in Nat /\ a <= c
        BY <1>4
    <2> HIDE DEF a, c
    <2>2. a \div 100 \in Nat /\ c \div 100 \in Nat /\ a \div 100 <= c \div 100
        BY <2>1, DivGrows
    <2> QED
        BY <2>2 DEF a, c
<1> QED
    BY <1>5 DEF Clean, p, q, l, g, few, many

\* Confirmed alerts were created before now.
CreatedDates == {alerts[x].created : x \in Confirmed}

LEMMA CreatedIs == CreditTypeOK => CreatedDates \in SUBSET (0 .. month)
<1> SUFFICES ASSUME CreditTypeOK
             PROVE  \A x \in Confirmed : alerts[x].created \in 0 .. month
    BY DEF CreatedDates
<1>1. \A x \in Confirmed : alerts[x].created \in 0 .. MaxMonths /\ alerts[x].created <= month
    BY DEF Confirmed, CreditTypeOK
<1>2. month \in Nat
    BY MovementsAre
<1> QED
    BY <1>1, <1>2

\* The days since the latest confirmed fraud are a number.
LEMMA DaysAre ==
    CreditTypeOK => /\ IsFiniteSet(Confirmed) /\ Cardinality(Confirmed) \in Nat
                    /\ DaysSinceFraud \in Nat
                    /\ FraudHistory = Clean(Cardinality(Confirmed), DaysSinceFraud)
<1> SUFFICES ASSUME CreditTypeOK
             PROVE  /\ IsFiniteSet(Confirmed) /\ Cardinality(Confirmed) \in Nat
                    /\ DaysSinceFraud \in Nat
                    /\ FraudHistory = Clean(Cardinality(Confirmed), DaysSinceFraud)
    OBVIOUS
<1>1. Confirmed \in SUBSET FraudAlerts
    BY DEF Confirmed
<1>2. IsFiniteSet(Confirmed) /\ Cardinality(Confirmed) \in Nat
    BY <1>1, HistoryAssumption, FS_Subset, FS_CardinalityType
<1>3. DaysSinceFraud \in Nat
    <2> DEFINE S == {alerts[x].created : x \in Confirmed}
    <2>1. CASE Confirmed = {}
        BY <2>1 DEF DaysSinceFraud
    <2>2. CASE Confirmed # {}
        <3>1. month \in Nat /\ S \in SUBSET (0 .. month) /\ S # {}
            BY <2>2, CreatedIs, MovementsAre DEF CreatedDates
        <3> HIDE DEF S
        <3>2. Max(S) \in 0 .. month
            BY <3>1, GreatestExists
        <3>3. DaysSinceFraud = 30 * (month - Max(S))
            BY <2>2 DEF DaysSinceFraud, S
        <3> QED
            BY <3>1, <3>2, <3>3
    <2> QED
        BY <2>1, <2>2
<1> QED
    BY <1>2, <1>3 DEF FraudHistory, Clean

\* The whole mark, of a client without a confirmed alert, is never exceeded.
LEMMA CleanBound == ASSUME NEW n \in Nat, NEW days \in Nat PROVE Clean(n, days) <= 100 /\ Clean(0, 365) = 100
<1> DEFINE few == (100 * days) \div 365
           p == Positive(100 - 20 * n)
           l == Least(100, few)
<1>1. few \in Nat
    BY DivGrows
<1>2. p \in Nat /\ p <= 100
    BY DEF Positive
<1> HIDE DEF few, p
<1>3. l \in Nat /\ l <= 100
    BY <1>1 DEF Least
<1> HIDE DEF l
<1>4. p * l \in Nat /\ p * l <= 100 * 100
    BY <1>2, <1>3, ProductGrows
<1>5. (p * l) \div 100 <= 100
    <2> DEFINE a == p * l
    <2>1. a \in Nat /\ a <= 10000
        BY <1>4
    <2> HIDE DEF a
    <2>2. a \div 100 <= 100
        BY <2>1
    <2> QED
        BY <2>2 DEF a
<1>6. Clean(0, 365) = 100
    <2>1. Positive(100 - 20 * 0) = 100 /\ Least(100, (100 * 365) \div 365) = 100
        BY DEF Positive, Least
    <2> QED
        BY <2>1 DEF Clean
<1> QED
    BY <1>5, <1>6 DEF Clean, p, l, few

\* Frequency and repayment are the rates of what is in the window.
LEMMA RatesAre ==
    CreditTypeOK =>
        /\ Cardinality(Recent) \in Nat /\ AccountAge \in Nat /\ Frequency \in Nat
        /\ RepaymentRate \in Nat
        /\ DepositConsistency \in Nat /\ Sigmoid(NetFlow) \in Nat /\ SavingsRate \in Nat
        /\ Least(100, (100 * 30 * AccountAge) \div 365) \in Nat
        /\ FraudHistory \in Nat
<1> SUFFICES ASSUME CreditTypeOK
             PROVE  /\ Cardinality(Recent) \in Nat /\ AccountAge \in Nat /\ Frequency \in Nat
                    /\ RepaymentRate \in Nat
                    /\ DepositConsistency \in Nat /\ Sigmoid(NetFlow) \in Nat /\ SavingsRate \in Nat
                    /\ Least(100, (100 * 30 * AccountAge) \div 365) \in Nat
                    /\ FraudHistory \in Nat
    OBVIOUS
<1>1. Cardinality(Recent) \in Nat /\ AccountAge \in Nat
    BY MovementsAre, AgeIs
<1>2. Frequency \in Nat
    <2>1. Frequency = FrequencyOf(Cardinality(Recent), AccountAge)
        BY DEF Frequency, FrequencyOf
    <2> QED
        BY <1>1, <2>1, FrequencyIs
<1>3. RepaymentRate \in Nat
    <2>1. Total("loan_disbursement", Recent) \in Nat /\ Total("loan_repayment", Recent) \in Nat
        BY MovementsAre, TotalIs
    <2> QED
        BY <2>1, RepaymentIs DEF RepaymentRate
<1>4. Least(100, (100 * 30 * AccountAge) \div 365) \in Nat
    <2> DEFINE a == 100 * 30 * AccountAge
               q == a \div 365
    <2>1. a \in Nat
        BY <1>1
    <2> HIDE DEF a
    <2>2. q \in Nat
        BY <2>1
    <2> HIDE DEF q
    <2>3. Least(100, q) \in Nat
        BY <2>2 DEF Least
    <2> QED
        BY <2>3 DEF q, a
<1>5. FraudHistory \in Nat
    BY DaysAre, CleanIs
<1> QED
    BY <1>1, <1>2, <1>3, <1>4, <1>5, ConsistencyIs, FlowIs, SavingsIs

\* More confirmed alerts are of no more days, and leave no more of the score.
LEMMA ConfirmStep ==
    ASSUME CreditTypeOK, CreditTypeOK', NEW x \in FraudAlerts, ConfirmFraud(x)
    PROVE  CreditScore' <= CreditScore
<1>1. /\ month' = month /\ moves' = moves /\ x \notin Confirmed
      /\ alerts' = [alerts EXCEPT ![x].confirmed = TRUE]
    BY DEF ConfirmFraud, Confirmed
<1>2. \A y \in FraudAlerts : y # x => alerts'[y] = alerts[y]
    BY <1>1 DEF CreditTypeOK
<1>3. Confirmed \subseteq Confirmed' /\ \A y \in Confirmed : alerts'[y] = alerts[y]
    BY <1>1, <1>2 DEF Confirmed
<1>4. /\ IsFiniteSet(Confirmed') /\ Cardinality(Confirmed') \in Nat /\ DaysSinceFraud' \in Nat
      /\ FraudHistory' = Clean(Cardinality(Confirmed'), DaysSinceFraud')
    <2>1. (CreditTypeOK => /\ IsFiniteSet(Confirmed) /\ Cardinality(Confirmed) \in Nat
                           /\ DaysSinceFraud \in Nat
                           /\ FraudHistory = Clean(Cardinality(Confirmed), DaysSinceFraud))'
        BY DaysAre, PTL
    <2> QED
        BY <2>1
<1>a. (CreditTypeOK => CreatedDates \in SUBSET (0 .. month))'
    BY CreatedIs, PTL
<1>0. /\ IsFiniteSet(Confirmed) /\ Cardinality(Confirmed) \in Nat /\ DaysSinceFraud \in Nat
      /\ FraudHistory = Clean(Cardinality(Confirmed), DaysSinceFraud)
    BY DaysAre
<1>5. Cardinality(Confirmed) <= Cardinality(Confirmed')
    BY <1>3, <1>4, FS_Subset
<1>6. FraudHistory \in Nat /\ FraudHistory' \in Nat /\ FraudHistory' <= FraudHistory
    <2>1. CASE Confirmed = {}
        <3>1. Cardinality(Confirmed) = 0 /\ DaysSinceFraud = 365
            BY <2>1, FS_EmptySet DEF DaysSinceFraud
        <3>2. FraudHistory = 100
            BY <3>1, <1>0, CleanBound
        <3>3. FraudHistory' <= 100 /\ FraudHistory' \in Nat
            BY <1>4, CleanBound, CleanIs
        <3> QED
            BY <3>2, <3>3
    <2>2. CASE Confirmed # {}
        <3>1. DaysSinceFraud' <= DaysSinceFraud
            <4> DEFINE S == {alerts[y].created : y \in Confirmed}
                       T == {alerts'[y].created : y \in Confirmed'}
            <4>1. S \in SUBSET (0 .. month) /\ S # {} /\ S \subseteq T
                BY <1>3, <2>2, CreatedIs DEF CreatedDates
            <4>2. T \in SUBSET (0 .. month)
                BY <1>1, <1>a DEF CreatedDates
            <4>3. DaysSinceFraud = 30 * (month - Max(S))
                BY <2>2 DEF DaysSinceFraud
            <4>4. DaysSinceFraud' = 30 * (month - Max(T))
                BY <1>1, <1>3, <2>2 DEF DaysSinceFraud
            <4>5. month \in Nat
                BY MovementsAre
            <4> HIDE DEF S, T
            <4>6. Max(S) \in 0 .. month /\ Max(T) \in 0 .. month /\ Max(S) <= Max(T)
                BY <4>1, <4>2, <4>5, GreatestExists
            <4> QED
                BY <4>3, <4>4, <4>5, <4>6
        <3> QED
            BY <1>0, <1>4, <1>5, <3>1, CleanIs
    <2> QED
        BY <2>1, <2>2
<1>7. Recent' = Recent /\ NetFlow' = NetFlow /\ DepositConsistency' = DepositConsistency
    BY <1>1 DEF Recent, NetFlow, Monthly, DepositConsistency, MonthlyTotals, Total, Amounts
<1>8. /\ SavingsRate' = SavingsRate /\ AccountAge' = AccountAge /\ Frequency' = Frequency
      /\ RepaymentRate' = RepaymentRate
    BY <1>1 DEF Recent, NetFlow, SavingsRate, Monthly, MonthlyTotals, AccountAge, Frequency,
                RepaymentRate, Total, Amounts
<1> DEFINE rest == 20 * DepositConsistency + 20 * Sigmoid(NetFlow) + 15 * SavingsRate + 10 * Frequency
                   + 10 * Least(100, (100 * 30 * AccountAge) \div 365) + 15 * RepaymentRate
<1>9. /\ CreditScore = IF Cardinality(Recent) < MinTransactions THEN 0 ELSE rest + 10 * FraudHistory
      /\ CreditScore' = IF Cardinality(Recent) < MinTransactions THEN 0 ELSE rest + 10 * FraudHistory'
    BY <1>7, <1>8 DEF CreditScore
<1>10. rest \in Nat
    BY RatesAre
<1> HIDE DEF rest
<1>11. rest + 10 * FraudHistory' <= rest + 10 * FraudHistory
    <2>1. \A a, b, c \in Nat : b <= c => a + 10 * b <= a + 10 * c
        OBVIOUS
    <2> QED
        BY <1>6, <1>10, <2>1
<1>12. CASE Cardinality(Recent) < MinTransactions
    BY <1>9, <1>12
<1>13. CASE ~(Cardinality(Recent) < MinTransactions)
    BY <1>9, <1>11, <1>13
<1> QED
    BY <1>12, <1>13

\* What a repayment adds to the history: one movement of this month, of no other kind.
LEMMA RepaymentAdds ==
    ASSUME CreditTypeOK, NEW amount \in Nat \ {0}, Transact("loan_repayment", amount)
    PROVE  LET k == Len(moves) + 1
           IN  /\ k \notin DOMAIN moves /\ DOMAIN moves' = DOMAIN moves \cup {k} /\ month' = month
               /\ alerts' = alerts
               /\ moves'[k].kind = "loan_repayment" /\ moves'[k].month = month
               /\ \A i \in DOMAIN moves : moves'[i] = moves[i]
               /\ Recent' = Recent \cup {k}
               /\ \A i \in DOMAIN moves : Amounts'[i] = Amounts[i]
               /\ Amounts'[k] = amount
<1> DEFINE k == Len(moves) + 1
           new == [kind |-> "loan_repayment", amount |-> amount, month |-> month]
<1>1. moves' = Append(moves, new) /\ month' = month /\ alerts' = alerts
    BY DEF Transact
<1>2. moves \in Seq(Posting) /\ Len(moves) \in Nat /\ DOMAIN moves = 1 .. Len(moves)
    BY DEF CreditTypeOK
<1>a. month \in Nat
    BY MovementsAre
<1> HIDE DEF new
<1>3. /\ k \notin DOMAIN moves /\ DOMAIN moves' = DOMAIN moves \cup {k} /\ moves'[k] = new
      /\ \A i \in DOMAIN moves : moves'[i] = moves[i]
    BY <1>1, <1>2
<1>4. Recent' = Recent \cup {k}
    <2>1. new.month >= month - 6
        BY <1>a DEF new
    <2> HIDE DEF k
    <2> QED
        BY <1>1, <1>3, <2>1 DEF Recent
<1>6. new.kind = "loan_repayment" /\ new.month = month
    BY DEF new
<1>5. Amounts'[k] = amount /\ \A i \in DOMAIN moves : Amounts'[i] = Amounts[i]
    BY <1>3 DEF Amounts, new
<1> QED
    BY <1>1, <1>3, <1>4, <1>5, <1>6

\* A sum over part of the movements is not changed by what comes after them.
LEMMA TotalSame ==
    ASSUME CreditTypeOK, NEW amount \in Nat \ {0}, Transact("loan_repayment", amount),
           NEW S \in SUBSET DOMAIN moves
    PROVE  SumFunctionOnSet(Amounts', S) = SumFunctionOnSet(Amounts, S)
<1>1. IsFiniteSet(S)
    BY MovementsAre, FS_Subset
<1>2. \A i \in S : Amounts'[i] = Amounts[i]
    BY RepaymentAdds
<1> QED
    BY <1>1, <1>2, SumFunctionSame

\* A repayment is part of no other month's total.
LEMMA MonthlySame ==
    ASSUME CreditTypeOK, NEW amount \in Nat \ {0}, Transact("loan_repayment", amount),
           NEW kind, kind # "loan_repayment"
    PROVE  MonthlyTotals(kind)' = MonthlyTotals(kind) /\ Total(kind, Recent)' = Total(kind, Recent)
<1> DEFINE k == Len(moves) + 1
<1>1. /\ k \notin DOMAIN moves /\ DOMAIN moves' = DOMAIN moves \cup {k}
      /\ moves'[k].kind = "loan_repayment"
      /\ \A i \in DOMAIN moves : moves'[i] = moves[i]
      /\ Recent' = Recent \cup {k} /\ Recent \subseteq DOMAIN moves
    BY RepaymentAdds, MovementsAre
<1> HIDE DEF k
<1> DEFINE Of(S) == {i \in S : moves[i].kind = kind}
           InMonth(m) == {i \in Recent : moves[i].month = m}
           D == {moves[i].month : i \in {j \in Recent : moves[j].kind = kind}}
<1>2. Of(Recent) = {i \in Recent' : moves'[i].kind = kind}
    BY <1>1
<1>3. Total(kind, Recent)' = Total(kind, Recent)
    <2>1. Total(kind, Recent)' = SumFunctionOnSet(Amounts', Of(Recent))
        BY <1>2 DEF Total
    <2>2. Of(Recent) \in SUBSET DOMAIN moves
        BY <1>1
    <2>3. Total(kind, Recent) = SumFunctionOnSet(Amounts, Of(Recent))
        BY DEF Total
    <2> QED
        BY <2>1, <2>2, <2>3, TotalSame
<1>4. D' = D
    BY <1>1
<1>5. ASSUME NEW m \in D
      PROVE  Total(kind, {i \in Recent : moves[i].month = m})' = Total(kind, InMonth(m))
    <2> DEFINE T == {i \in InMonth(m) : moves[i].kind = kind}
    <2>1. T = {i \in {j \in Recent' : moves'[j].month = m} : moves'[i].kind = kind}
        BY <1>1
    <2>2. T \in SUBSET DOMAIN moves
        BY <1>1
    <2>3. Total(kind, InMonth(m)) = SumFunctionOnSet(Amounts, T)
        BY DEF Total
    <2>4. Total(kind, {i \in Recent : moves[i].month = m})'
              = SumFunctionOnSet(Amounts', {i \in {j \in Recent' : moves'[j].month = m} : moves'[i].kind = kind})
        BY DEF Total
    <2> QED
        BY <2>1, <2>2, <2>3, <2>4, TotalSame
<1>6. MonthlyTotals(kind) = [m \in D |-> Total(kind, InMonth(m))]
    BY DEF MonthlyTotals
<1>7. MonthlyTotals(kind)' = [m \in D |-> Total(kind, {i \in Recent : moves[i].month = m})']
    BY <1>4 DEF MonthlyTotals
<1> QED
    BY <1>3, <1>5, <1>6, <1>7

\* The account is as old as before.
LEMMA AgeSame ==
    ASSUME CreditTypeOK, NEW amount \in Nat \ {0}, Transact("loan_repayment", amount)
    PROVE  AccountAge' = AccountAge
<1> DEFINE k == Len(moves) + 1
<1>1. /\ DOMAIN moves' = DOMAIN moves \cup {k} /\ month' = month /\ moves'[k].month = month
      /\ (\A i \in DOMAIN moves : moves'[i] = moves[i])
    BY RepaymentAdds
<1> HIDE DEF k
<1> DEFINE S == {moves[i].month : i \in DOMAIN moves}
           T == {moves'[i].month : i \in DOMAIN moves'}
<1>2. T = S \cup {month} /\ moves' # <<>>
    BY <1>1
<1>3. S \in SUBSET Nat /\ month \in Nat /\ \A m \in S : m <= month
    BY MovementsAre
<1>4. S = {} <=> moves = <<>>
    <2>1. DOMAIN moves = {} <=> moves = <<>>
        BY DEF CreditTypeOK
    <2> QED
        BY <2>1
<1>5. AccountAge = IF moves = <<>> THEN 0 ELSE month - Min(S)
    BY DEF AccountAge
<1>6. AccountAge' = month - Min(T)
    BY <1>1, <1>2 DEF AccountAge
<1> HIDE DEF S, T
<1>7. Min(T) \in T /\ \A m \in T : Min(T) <= m
    BY <1>2, <1>3, LeastExists
<1>8. CASE S = {}
    BY <1>2, <1>3, <1>4, <1>5, <1>6, <1>7, <1>8
<1>9. CASE S # {}
    <2>1. Min(S) \in S /\ \A m \in S : Min(S) <= m
        BY <1>3, <1>9, LeastExists
    <2>2. Min(T) = Min(S)
        <3>1. Min(T) \in Nat /\ Min(S) \in Nat /\ Min(S) \in T /\ Min(T) <= Min(S)
            BY <1>2, <1>3, <1>7, <2>1
        <3>2. Min(S) <= Min(T)
            <4>1. CASE Min(T) \in S
                BY <2>1, <4>1
            <4>2. CASE Min(T) = month
                BY <1>3, <2>1, <4>2
            <4> QED
                BY <1>2, <1>7, <4>1, <4>2
        <3> QED
            BY <3>1, <3>2
    <2> QED
        BY <1>4, <1>5, <1>6, <1>9, <2>2
<1> QED
    BY <1>8, <1>9

\* A repayment adds to what is repaid and to the movements of the window, and to nothing
\* else that the score is made of.
LEMMA RepaymentStep ==
    ASSUME CreditTypeOK, CreditTypeOK', NEW amount \in Nat \ {0}, Transact("loan_repayment", amount)
    PROVE  CreditScore' >= CreditScore
<1> DEFINE k == Len(moves) + 1
<1>1. /\ k \notin DOMAIN moves /\ DOMAIN moves' = DOMAIN moves \cup {k} /\ month' = month
      /\ alerts' = alerts /\ moves'[k].kind = "loan_repayment"
      /\ \A i \in DOMAIN moves : moves'[i] = moves[i]
      /\ Recent' = Recent \cup {k}
      /\ Amounts'[k] = amount
    BY RepaymentAdds
<1> HIDE DEF k
<1>2. Recent \subseteq DOMAIN moves /\ IsFiniteSet(Recent) /\ Cardinality(Recent) \in Nat
    BY MovementsAre
<1>3. Cardinality(Recent') = Cardinality(Recent) + 1
    BY <1>1, <1>2, FS_AddElement
<1>4. NetFlow' = NetFlow /\ DepositConsistency' = DepositConsistency /\ SavingsRate' = SavingsRate
    <2>1. MonthlyTotals("deposit")' = MonthlyTotals("deposit")
        BY MonthlySame
    <2>2. MonthlyTotals("withdrawal")' = MonthlyTotals("withdrawal")
        BY MonthlySame
    <2>3. Monthly("deposit")' = Monthly("deposit") /\ Monthly("withdrawal")' = Monthly("withdrawal")
        BY <2>1, <2>2 DEF Monthly
    <2> QED
        BY <2>1, <2>3 DEF NetFlow, DepositConsistency, SavingsRate
<1>5. AccountAge' = AccountAge /\ AccountAge \in Nat
    BY AgeSame, AgeIs
<1>6. Frequency \in Nat /\ Frequency' \in Nat /\ Frequency' >= Frequency
    <2>1. Cardinality(Recent) <= Cardinality(Recent) + 1 /\ Cardinality(Recent) + 1 \in Nat
        BY <1>2
    <2>2. /\ Frequency = FrequencyOf(Cardinality(Recent), AccountAge)
          /\ Frequency' = FrequencyOf(Cardinality(Recent) + 1, AccountAge)
        BY <1>3, <1>5 DEF Frequency, FrequencyOf
    <2> QED
        BY <1>2, <1>5, <2>1, <2>2, FrequencyIs
<1>7. RepaymentRate \in Nat /\ RepaymentRate' \in Nat /\ RepaymentRate' >= RepaymentRate
    <2> DEFINE R == {i \in Recent : moves[i].kind = "loan_repayment"}
               lent == Total("loan_disbursement", Recent)
               paid == Total("loan_repayment", Recent)
    <2>1. Total("loan_disbursement", Recent)' = lent
        BY MonthlySame
    <2>2. {i \in Recent' : moves'[i].kind = "loan_repayment"} = R \cup {k}
        BY <1>1, <1>2
    <2>3. Total("loan_repayment", Recent)' = SumFunctionOnSet(Amounts', R \cup {k})
        BY <2>2 DEF Total
    <2>4. paid = SumFunctionOnSet(Amounts', R)
        <3>1. R \in SUBSET DOMAIN moves
            BY <1>2
        <3> QED
            BY <3>1, TotalSame DEF Total
    <2>5. lent \in Nat /\ paid \in Nat
        BY <1>2, TotalIs
    <2>6. /\ Total("loan_repayment", Recent)' \in Nat
          /\ paid <= Total("loan_repayment", Recent)'
        <3>1. IsFiniteSet(R \cup {k}) /\ R \in SUBSET (R \cup {k})
            BY <1>2, FS_Subset, FS_AddElement
        <3>2. \A i \in R : Amounts'[i] \in Nat
            BY <1>2, MovementsAre, RepaymentAdds
        <3>3. \A i \in R \cup {k} : Amounts'[i] \in Nat
            BY <1>1, <3>2
        <3> HIDE DEF R
        <3> QED
            BY <2>3, <2>4, <3>1, <3>3, SumFunctionNat
    <2>7. RepaymentRate = IF lent = 0 THEN 50 ELSE Least(100, (100 * paid) \div lent)
        BY DEF RepaymentRate
    <2>8. RepaymentRate' = IF lent = 0 THEN 50
                           ELSE Least(100, (100 * Total("loan_repayment", Recent)') \div lent)
        BY <2>1 DEF RepaymentRate
    <2> HIDE DEF lent, paid, R
    <2> QED
        BY <2>5, <2>6, <2>7, <2>8, RepaymentIs
<1>8. FraudHistory' = FraudHistory
    BY <1>1 DEF FraudHistory, DaysSinceFraud, Confirmed
<1> DEFINE rest == 20 * DepositConsistency + 20 * Sigmoid(NetFlow) + 15 * SavingsRate
           age == 10 * Least(100, (100 * 30 * AccountAge) \div 365)
           before == rest + 10 * Frequency + age + 15 * RepaymentRate + 10 * FraudHistory
           after == rest + 10 * Frequency' + age + 15 * RepaymentRate' + 10 * FraudHistory
<1>9. /\ CreditScore = IF Cardinality(Recent) < MinTransactions THEN 0 ELSE before
      /\ CreditScore' = IF Cardinality(Recent) + 1 < MinTransactions THEN 0 ELSE after
    BY <1>3, <1>4, <1>5, <1>8 DEF CreditScore
<1>10. rest \in Nat /\ age \in Nat /\ FraudHistory \in Nat
    BY RatesAre
<1>11. before \in Nat /\ after \in Nat /\ before <= after
    <2>1. \A a, b, c \in Nat : b <= c => a + 10 * b \in Nat /\ a + 10 * c \in Nat
                                        /\ a + 10 * b <= a + 10 * c
        OBVIOUS
    <2>2. \A a, b, c, d \in Nat : a <= b /\ c <= d => a + 15 * c \in Nat /\ b + 15 * d \in Nat
                                                  /\ a + 15 * c <= b + 15 * d
        OBVIOUS
    <2>3. \A a, b, c \in Nat : a <= b => a + c \in Nat /\ b + c \in Nat /\ a + c <= b + c
        OBVIOUS
    <2> DEFINE lo == rest + 10 * Frequency
               hi == rest + 10 * Frequency'
               low == lo + age + 15 * RepaymentRate
               high == hi + age + 15 * RepaymentRate'
               clean == 10 * FraudHistory
    <2> HIDE DEF rest, age
    <2>4. lo \in Nat /\ hi \in Nat /\ lo <= hi
        BY <1>6, <1>10, <2>1
    <2> HIDE DEF lo, hi
    <2>5. lo + age \in Nat /\ hi + age \in Nat /\ lo + age <= hi + age
        BY <1>10, <2>3, <2>4
    <2>6. low \in Nat /\ high \in Nat /\ low <= high
        BY <1>7, <2>2, <2>5
    <2>7. clean \in Nat
        BY <1>10
    <2> HIDE DEF low, high, clean
    <2>8. low + clean \in Nat /\ high + clean \in Nat /\ low + clean <= high + clean
        BY <2>3, <2>6, <2>7
    <2> QED
        BY <2>8 DEF low, high, clean, lo, hi
<1> HIDE DEF before, after
<1>12. CASE Cardinality(Recent) < MinTransactions
    BY <1>9, <1>11, <1>12
<1>13. CASE ~(Cardinality(Recent) < MinTransactions)
    BY <1>2, <1>9, <1>11, <1>13, HistoryAssumption
<1> QED
    BY <1>12, <1>13

\* The score answers to conduct, for any movements, alerts, thresholds and lapses of time:
\* a confirmed alert never raises it, a repayment never lowers it (credit_scorer.py,
\* credit_extractor.py).
THEOREM ScoreAnswersToConductAlways == HistorySpec => ScoreAnswersToConduct
<1>1. CreditTypeOK /\ CreditTypeOK' =>
          [/\ (\E x \in FraudAlerts : ConfirmFraud(x)) => CreditScore' <= CreditScore
           /\ (\E m \in Moves : m[1] = "loan_repayment" /\ Transact(m[1], m[2]))
                  => CreditScore' >= CreditScore]_creditVars
    <2> SUFFICES ASSUME CreditTypeOK, CreditTypeOK'
                 PROVE  /\ (\E x \in FraudAlerts : ConfirmFraud(x)) => CreditScore' <= CreditScore
                        /\ (\E m \in Moves : m[1] = "loan_repayment" /\ Transact(m[1], m[2]))
                               => CreditScore' >= CreditScore
        OBVIOUS
    <2>1. ASSUME NEW x \in FraudAlerts, ConfirmFraud(x) PROVE CreditScore' <= CreditScore
        BY <2>1, ConfirmStep
    <2>2. ASSUME NEW m \in Moves, m[1] = "loan_repayment", Transact(m[1], m[2])
          PROVE  CreditScore' >= CreditScore
        <3>1. m[2] \in Nat \ {0}
            BY HistoryAssumption
        <3>2. Transact("loan_repayment", m[2])
            BY <2>2
        <3> QED
            BY <3>1, <3>2, RepaymentStep
    <2> QED
        BY <2>1, <2>2
<1> QED
    BY <1>1, HistoryTypeCorrect, PTL DEF ScoreAnswersToConduct

-----------------------------------------------------------------------------
(* The parts side by side                                                    *)

\* A step of the whole is a step of each part or leaves it alone.
LEMMA OfficeStep ==
    [OfficeNext]_officeVars =>
       /\ [CreditNext]_creditVars /\ [LoanNext]_loanVars /\ [GuiltNext \/ RingNext]_graphVars
       /\ [WatchlistNext]_watchlistVars /\ [FilingNext]_filingVars /\ [RecordNext]_recordVars
       /\ [ImportNext]_importVars /\ UNCHANGED part
BY DEF OfficeNext, officeVars

\* The composition implements every part: what holds of a part by itself holds of it here.
THEOREM OfficeIsItsParts ==
    OfficeSpec => /\ HistorySpec /\ LoanSpec /\ GraphSpec /\ WatchlistSpec /\ FilingSpec
                  /\ RecordSpec /\ ImportSpec
<1>1. OfficeInit => /\ CreditInit /\ LoanInit /\ GraphInit /\ WatchlistInit /\ FilingInit
                    /\ RecordInit /\ ImportInit
    BY DEF OfficeInit
<1> QED
    BY <1>1, OfficeStep, PTL DEF OfficeSpec, HistorySpec, LoanSpec, GraphSpec, WatchlistSpec,
                                 FilingSpec, RecordSpec, ImportSpec

\* The state keeps its types, whichever part is running.
THEOREM OfficeTypeCorrect == OfficeSpec => []BackOfficeTypeOK
<1>1. OfficeInit => part \in Part
    BY DEF OfficeInit
<1>2. part \in Part /\ [OfficeNext]_officeVars => (part \in Part)'
    BY OfficeStep
<1>3. (/\ part \in Part /\ CreditTypeOK /\ LoanTypeOK /\ GraphTypeOK /\ WatchlistTypeOK
       /\ FilingTypeOK /\ RecordTypeOK /\ ImportTypeOK) => BackOfficeTypeOK
    <2> SUFFICES ASSUME part \in Part, CreditTypeOK, LoanTypeOK, GraphTypeOK, WatchlistTypeOK,
                        FilingTypeOK, RecordTypeOK, ImportTypeOK
                 PROVE  BackOfficeTypeOK
        OBVIOUS
    <2>1. CASE part = "history"
        BY <2>1 DEF BackOfficeTypeOK
    <2>2. CASE part = "loan"
        BY <2>2 DEF BackOfficeTypeOK
    <2>3. CASE part = "guilt"
        BY <2>3 DEF BackOfficeTypeOK
    <2>4. CASE part = "rings"
        BY <2>4 DEF BackOfficeTypeOK
    <2>5. CASE part = "watchlist"
        BY <2>5 DEF BackOfficeTypeOK
    <2>6. CASE part = "filing"
        BY <2>6 DEF BackOfficeTypeOK
    <2>7. CASE part = "record"
        BY <2>7 DEF BackOfficeTypeOK
    <2>8. CASE part = "import"
        BY <2>8 DEF BackOfficeTypeOK
    <2> QED
        BY <2>1, <2>2, <2>3, <2>4, <2>5, <2>6, <2>7, <2>8 DEF Part
<1> QED
    BY <1>1, <1>2, <1>3, OfficeIsItsParts, HistoryTypeCorrect, LoanVerdictIsKeptAlways,
       RingIsRaisedOnceHolds, ListHasNoGapEver, FilingIsDated, IdentityIsKeptAlways,
       LabelsAreSoundAlways, PTL DEF OfficeSpec

\* Every part keeps what it promises, in the composition that is model-checked.
THEOREM OfficeKeepsPromises ==
    OfficeSpec => /\ [](/\ LoanVerdictIsKept /\ RingIsRaisedOnce /\ ListHasNoGap /\ FiledIsDated
                        /\ IdentityIsKept /\ LabelsAreSound)
                  /\ ScoreAnswersToConduct
BY OfficeIsItsParts, LoanVerdictIsKeptAlways, RingIsRaisedOnceHolds, ListHasNoGapEver,
   FilingIsDated, IdentityIsKeptAlways, LabelsAreSoundAlways, ScoreAnswersToConductAlways, PTL

\* The guilt of a counterparty is seen in the composition as well, with the two or three hops
\* that the settings allow for.
THEOREM OfficeSeesGuilt ==
    ASSUME Hops \in 2 .. 3
    PROVE  OfficeSpec => []GuiltIsSeen
BY OfficeIsItsParts, GuiltIsSeenHolds, PTL

================================================================================
