------------------------------ MODULE LedgerProofs ------------------------------
(***************************************************************************)
(* Theorems about FraudLedger, for all payloads, deployments, thresholds, clocks   *)
(* and orders of arrival and analysis.                                         *)
(***************************************************************************)
EXTENDS FraudLedger, SumTheorems, FiniteSetTheorems, TLAPS

-----------------------------------------------------------------------------
(* Volumes and scores as such sums                                           *)

Amount == [u \in Entry |-> u.amount]

\* The volume of a history is the sum of its amounts.
LEMMA VolumeIs ==
    ASSUME NEW S, IsFiniteSet(S), S \subseteq Entry, NEW it, SumsOf(it, Amount, S),
           NEW T \in SUBSET S
    PROVE  Volume(T) = it[T]
<1> DEFINE step(vt) == [s \in SUBSET T |-> IF s = {} THEN 0
                                           ELSE Next1(s).amount + vt[s \ {Next1(s)}]]
<1> DEFINE vol == CHOOSE vt : vt = step(vt)
<1>1. Volume(T) = vol[T]
    BY DEF Volume, MapThenSumSet, MapThenFoldSet, Next1
<1>2. \A s \in SUBSET T : s # {} => Next1(s).amount = Amount[Next1(s)]
    <2>1. \A s \in SUBSET T : s # {} => Next1(s) \in s
        BY DEF Next1
    <2> QED
        BY <2>1 DEF Amount
<1>3. ASSUME NEW vt PROVE vt = step(vt) <=> SumsOf(vt, Amount, T)
    <2>1. step(vt) = [s \in SUBSET T |-> IF s = {} THEN 0
                                         ELSE Amount[Next1(s)] + vt[s \ {Next1(s)}]]
        BY <1>2
    <2> QED
        BY <2>1 DEF SumsOf
<1> HIDE DEF step
<1>4. \E vt : vt = step(vt)
    BY <1>3, SumsExist, FS_Subset
<1>5. vol = step(vol)
    BY <1>4
<1>6. SumsOf(vol, Amount, T)
    BY <1>3, <1>5
<1>7. it[T] = vol[T]
    <2> HIDE DEF vol
    <2>1. \A V \in SUBSET (S \cap T) : it[V] = vol[V]
        BY <1>6, SumsAgree
    <2> QED
        BY <2>1
<1> QED
    BY <1>1, <1>7

\* Volumes are natural numbers and grow with the history.
LEMMA VolumeGrows ==
    ASSUME NEW S, IsFiniteSet(S), S \subseteq Entry
    PROVE  /\ Volume(S) \in Nat
           /\ \A T \in SUBSET S : Volume(T) \in Nat /\ Volume(T) <= Volume(S)
<1>1. PICK it : SumsOf(it, Amount, S)
    BY SumsExist
<1>2. \A x \in S : Amount[x] \in Nat
    BY DEF Amount, Entry
<1>3. \A T \in SUBSET S : Volume(T) = it[T]
    BY <1>1, VolumeIs
<1>4. \A T \in SUBSET S : it[T] \in Nat
    BY <1>1, <1>2, SumsNat
<1>5. \A T \in SUBSET S : it[T] <= it[S]
    BY <1>1, <1>2, SumsGrow
<1> QED
    BY <1>3, <1>4, <1>5

Total(severity, S) == MapThenSumSet(LAMBDA r : severity[r], S)

\* Severities of thirty at least have a mean of thirty at least.
LEMMA ScoreSum ==
    ASSUME NEW severity, NEW S \in SUBSET Rule, IsFiniteSet(S),
           \A r \in S : severity[r] \in Nat /\ severity[r] >= 30
    PROVE  Total(severity, S) \in Nat /\ Total(severity, S) >= 30 * Cardinality(S)
<1> DEFINE step(vt) == [s \in SUBSET S |-> IF s = {} THEN 0
                                           ELSE severity[Next1(s)] + vt[s \ {Next1(s)}]]
<1> DEFINE total == CHOOSE vt : vt = step(vt)
<1>1. Total(severity, S) = total[S]
    BY DEF Total, MapThenSumSet, MapThenFoldSet, Next1
<1>2. \A vt : vt = step(vt) <=> SumsOf(vt, severity, S)
    BY DEF SumsOf
<1> HIDE DEF step
<1>3. \E vt : vt = step(vt)
    BY <1>2, SumsExist
<1>4. SumsOf(total, severity, S)
    BY <1>2, <1>3
<1> HIDE DEF total
<1>5. total[S] \in Nat
    BY <1>4, SumsNat
<1>6. total[S] >= 30 * Cardinality(S)
    BY <1>4, SumsMean
<1> QED
    BY <1>1, <1>5, <1>6

-----------------------------------------------------------------------------
(* What the rules say                                                        *)

\* A rule with a threshold triggers exactly when its value reaches it, and then its
\* severity is at least 30.
LEMMA ReachedIs ==
    ASSUME NEW value \in Nat, NEW threshold \in Nat \ {0}, NEW times \in {2, 3}
    PROVE  /\ Reached(value, threshold, times) \in Nat
           /\ Reached(value, threshold, times) > 0 <=> value >= threshold
           /\ Reached(value, threshold, times) > 0 => Reached(value, threshold, times) >= 30
<1>1. value >= threshold => 100 * value >= 33 * (times * threshold)
    OBVIOUS
<1>2. times * threshold \in Nat \ {0} /\ 100 * value \in Nat
    OBVIOUS
<1>3. value >= threshold => /\ (100 * value) \div (times * threshold) \in Nat
                            /\ (100 * value) \div (times * threshold) >= 33
    BY <1>1, <1>2, DivBound
<1> QED
    BY <1>3 DEF Reached, When, Cap

\* A severity that is a number, and 30 at least when it is not 0.
Severe(x) == x \in Nat /\ (x > 0 => x >= 30)

\* Whatever the histories: a rule that triggers has a severity of 30 at least.
LEMMA EvaluateIs ==
    ASSUME NEW t, t.amount \in Nat \ {0}, NEW h1, NEW day, NEW paid, NEW served,
           h1 \subseteq Entry, day \subseteq Entry, paid \subseteq Entry, served \subseteq Entry,
           IsFiniteSet(h1), IsFiniteSet(day), IsFiniteSet(paid), IsFiniteSet(served)
    PROVE  \A r \in Rule : Severe(Evaluate(t, h1, day, paid, served)[r])
<1> DEFINE h24 == IF day = {} THEN h1 ELSE day
<1>1. h24 \subseteq Entry /\ IsFiniteSet(h24)
    OBVIOUS
<1> HIDE DEF h24
<1>2. /\ MaxAmount \in Nat \ {0} /\ StructuringAmount \in Nat \ {0} /\ RapidCount \in Nat \ {0}
      /\ AgentRapidCount \in Nat \ {0} /\ AgentFloat \in Nat \ {0}
      /\ RoundAmount \in Nat \ {0}
    BY RuleAssumption
<1>3. Severe(LargeAmount(t))
    BY <1>2, ReachedIs DEF LargeAmount, Severe
<1>4. Severe(Structuring(t))
    BY DEF Structuring, When, Severe
<1>5. Severe(RapidTransactions(h1))
    BY <1>2, ReachedIs, FS_CardinalityType DEF RapidTransactions, Severe
<1>6. Severe(RoundNumber(t)) /\ Severe(UnusualHours(t))
    BY DEF RoundNumber, UnusualHours, When, Severe
<1>7. Severe(Velocity(t, h1))
    <2>1. Volume(h1) + t.amount \in Nat /\ 3 * MaxAmount \in Nat \ {0}
        BY <1>2, VolumeGrows
    <2> QED
        BY <2>1, ReachedIs DEF Velocity, Severe
<1>8. Severe(NewIp(t, h24)) /\ Severe(CircularTransfer(t, h24)) /\ Severe(NewCounterparty(t, h24))
    BY DEF NewIp, CircularTransfer, NewCounterparty, When, Severe
<1>9. Severe(RapidPair(t, h24))
    <2> PICK n : n = Cardinality(With(t.cp, Others(t, h24))) + 1
        OBVIOUS
    <2>1. n \in Nat
        BY <1>1, FS_Subset, FS_CardinalityType DEF With, Others
    <2>2. Severe(Reached(n, 3, 2))
        BY <2>1, ReachedIs DEF Severe
    <2> QED
        BY <2>2 DEF RapidPair, When, Severe
<1>10. Severe(CrossAccount(t, paid))
    BY DEF CrossAccount, When, Severe
<1>11. Severe(AgentRapid(served))
    BY <1>2, ReachedIs, FS_CardinalityType DEF AgentRapid, Severe
<1>12. Severe(AgentFloatVolume(t, served))
    <2>1. Volume(served) + t.amount \in Nat
        BY VolumeGrows
    <2> QED
        BY <1>2, <2>1, ReachedIs DEF AgentFloatVolume, Severe
<1>13. Severe(0)
    BY DEF Severe
<1> USE DEF h24
<1> QED
    BY <1>3, <1>4, <1>5, <1>6, <1>7, <1>8, <1>9, <1>10, <1>11, <1>12, <1>13
    DEF Evaluate, Rule

\* There are thirteen rules.
LEMMA RuleFinite == IsFiniteSet(Rule)
<1> DEFINE two(a, b) == {a} \cup {b}
<1>1. \A a, b : IsFiniteSet(two(a, b))
    BY FS_Singleton, FS_Union
<1> DEFINE A == two("large_amount", "structuring") \cup two("rapid_transactions", "round_number")
           B == two("unusual_hours", "high_velocity_volume") \cup two("new_ip_address", "circular_transfer")
           C == two("new_counterparty_transfer", "rapid_pair_transfers")
                \cup two("cross_account_structuring", "agent_rapid_transactions")
           D == two("agent_float_volume", "agent_float_volume")
<1>2. Rule = (A \cup B) \cup (C \cup D)
    BY DEF Rule
<1> HIDE DEF two
<1>3. IsFiniteSet(A) /\ IsFiniteSet(B) /\ IsFiniteSet(C) /\ IsFiniteSet(D)
    BY <1>1, FS_Union
<1> HIDE DEF A, B, C, D
<1>4. IsFiniteSet(A \cup B) /\ IsFiniteSet(C \cup D)
    BY <1>3, FS_Union
<1> QED
    BY <1>2, <1>4, FS_Union

\* The combined score is a number; of nothing triggered it is 0, else at least 30.
LEMMA CombinedIs ==
    ASSUME NEW severity, \A r \in Rule : Severe(severity[r])
    PROVE  /\ CombinedScore(severity) \in Nat
           /\ Triggered(severity) = {} => CombinedScore(severity) = 0
           /\ Triggered(severity) # {} => CombinedScore(severity) >= 30
<1> DEFINE T == Triggered(severity)
           n == Cardinality(T)
           sum == Total(severity, T)
<1>1. T \subseteq Rule /\ IsFiniteSet(T) /\ \A r \in T : severity[r] \in Nat /\ severity[r] >= 30
    BY RuleFinite, FS_Subset DEF Triggered, Severe
<1>2. n \in Nat /\ (n = 0 <=> T = {})
    BY <1>1, FS_CardinalityType, FS_EmptySet
<1>3. sum \in Nat /\ sum >= 30 * n
    BY <1>1, ScoreSum
<1>4. CombinedScore(severity) = IF n = 0 THEN 0 ELSE Cap(sum \div n + (IF n > 4 THEN 20 ELSE 5 * n))
    BY DEF CombinedScore, Total, MapThenSumSet, MapThenFoldSet
<1> HIDE DEF n, sum
<1>5. n # 0 => sum \div n \in Nat /\ sum \div n >= 30
    BY <1>2, <1>3, DivBound
<1> HIDE DEF T
<1>6. (IF n > 4 THEN 20 ELSE 5 * n) \in Nat
    BY <1>2
<1> QED
    BY <1>2, <1>4, <1>5, <1>6 DEF Cap, T

-----------------------------------------------------------------------------
(* Typing                                                                    *)

\* What an analysis of row i writes.
Judged(i, f) ==
    \E anomaly, ml, graph \in Opinion :
        LET severity == PipelineSeverity(book[i]) IN
        f = [rules |-> Triggered(severity),
             level |-> RiskLevel(Blend(PipelineScore(CombinedScore(severity), anomaly, ml), graph)),
             at |-> now, rows |-> Len(book)]

\* A payload becomes a row with its identifier and its date.
LEMMA DatedIs ==
    \A p \in Entry : \A i \in Nat : \A d \in Int : Dated(p, i, d) \in Entry /\ Dated(p, i, d).id = i
BY DEF Dated, Entry

\* Dated(p, i, d) is dated d.
LEMMA DatedWhen == \A p \in Entry : \A i \in Nat : \A d \in Int : Dated(p, i, d).date = d
BY DEF Dated, Entry

\* Every operation keeps the table and the findings well-typed: rows are numbered as
\* they come, no row is dated ahead of the clock, and a finding was made when its row
\* was there.
THEOREM LedgerTypeCorrect == LedgerSpec => []LedgerTypeOK
<1>1. LedgerInit => LedgerTypeOK
    BY LedgerAssumption DEF LedgerInit, LedgerTypeOK, Ids
<1>2. LedgerTypeOK /\ [LedgerNext]_ledgerVars => LedgerTypeOK'
    <2> SUFFICES ASSUME LedgerTypeOK, [LedgerNext]_ledgerVars PROVE LedgerTypeOK'
        OBVIOUS
    <2> USE DEF LedgerTypeOK
    <2>0. case.rows \in Nat /\ case.lateness \subseteq 0 .. Day /\ case.payloads \subseteq Entry
          /\ Day \in Nat /\ MaxNow \in Nat
        BY LedgerAssumption, RuleAssumption DEF Payloads
    <2>1. ASSUME NEW p \in case.payloads, NEW age \in case.lateness, Record(p, age)
          PROVE  LedgerTypeOK'
        <3> DEFINE row == Dated(p, Len(book) + 1, now - age)
        <3>1. /\ row \in Entry /\ row.id = Len(book) + 1 /\ row.date = now - age
              /\ now - age \in -Day .. now
            <4>1. p \in Entry /\ age \in 0 .. Day /\ Len(book) + 1 \in Nat /\ now \in Nat
                BY <2>0
            <4>2. now - age \in Int /\ now - age \in -Day .. now
                BY <2>0, <4>1
            <4> PICK n \in Nat : n = Len(book) + 1
                BY <4>1
            <4> PICK d \in Int : d = now - age
                BY <4>2
            <4>3. Dated(p, n, d) \in Entry
                BY <4>1, DatedIs
            <4>4. Dated(p, n, d).id = n
                BY <4>1, DatedIs
            <4>5. Dated(p, n, d).date = d
                BY <4>1, DatedWhen
            <4>6. row = Dated(p, n, d)
                OBVIOUS
            <4> HIDE DEF row
            <4> QED
                BY <4>2, <4>3, <4>4, <4>5, <4>6
        <3> HIDE DEF row
        <3>2. /\ case' = case /\ now' = now /\ book' = Append(book, row)
              /\ analysis' = Append(analysis, None) /\ Len(book) < case.rows
            BY <2>1 DEF Record, row
        <3>3. /\ book' \in Seq(Entry) /\ Len(book') = Len(book) + 1
              /\ analysis' \in Seq(Finding \cup {None}) /\ Len(analysis') = Len(analysis) + 1
            BY <3>1, <3>2
        <3>4. /\ \A i \in Ids : book'[i] = book[i] /\ analysis'[i] = analysis[i]
              /\ book'[Len(book) + 1] = row /\ analysis'[Len(book) + 1] = None
            BY <3>1, <3>2 DEF Ids
        <3>5. Ids' = Ids \cup {Len(book) + 1}
            BY <3>3 DEF Ids
        <3>6. \A i \in Ids' : book'[i].id = i /\ book'[i].date \in -Day .. now'
            <4>1. ASSUME NEW i \in Ids
                  PROVE  book'[i].id = i /\ book'[i].date \in -Day .. now'
                BY <3>2, <3>4
            <4>2. book'[Len(book) + 1].id = Len(book) + 1 /\ book'[Len(book) + 1].date \in -Day .. now'
                BY <3>1, <3>2, <3>4
            <4> QED
                BY <3>5, <4>1, <4>2
        <3>7. \A i \in Ids' : analysis'[i] # None =>
                  /\ analysis'[i] \in Finding
                  /\ analysis'[i].at <= now' /\ analysis'[i].rows \in i .. Len(book')
            <4>1. ASSUME NEW i \in Ids, analysis'[i] # None
                  PROVE  /\ analysis'[i] \in Finding /\ analysis'[i].at <= now'
                         /\ analysis'[i].rows \in i .. Len(book)
                BY <4>1, <3>2, <3>4
            <4>2. \A i \in Ids : i .. Len(book) \subseteq i .. Len(book')
                BY <3>3 DEF Ids
            <4>3. \A i \in Ids' : analysis'[i] # None => i \in Ids
                BY <3>4, <3>5
            <4> QED
                BY <4>1, <4>2, <4>3
        <3>8. case' \in Cases /\ now' \in 0 .. MaxNow
            BY <3>2
        <3>9. Len(book') <= case'.rows /\ Len(analysis') = Len(book')
            BY <2>0, <3>2, <3>3
        <3> QED
            BY <3>3, <3>6, <3>7, <3>8, <3>9
    <2>2. ASSUME NEW i \in Ids, NEW anomaly \in Opinion, NEW ml \in Opinion, NEW graph \in Opinion,
                 Analyse(i, anomaly, ml, graph)
          PROVE  LedgerTypeOK'
        <3>1. PICK f : /\ analysis' = [analysis EXCEPT ![i] = f]
                       /\ f.rules \subseteq Rule /\ f.level \in Level /\ f.at = now
                       /\ f.rows = Len(book) /\ f \in Finding
            <4> DEFINE severity == PipelineSeverity(book[i])
                       score == Blend(PipelineScore(CombinedScore(severity), anomaly, ml), graph)
                       f == [rules |-> Triggered(severity), level |-> RiskLevel(score),
                             at |-> now, rows |-> Len(book)]
            <4>1. analysis' = [analysis EXCEPT ![i] = f]
                BY <2>2 DEF Analyse
            <4>2. Triggered(severity) \subseteq Rule /\ RiskLevel(score) \in Level
                BY DEF Triggered, RiskLevel, Level
            <4>3. now \in Nat /\ Len(book) \in Nat
                BY <2>0
            <4> HIDE DEF severity, score
            <4>4. /\ f.rules \subseteq Rule /\ f.level \in Level /\ f.at = now
                  /\ f.rows = Len(book) /\ f \in Finding
                BY <4>2, <4>3 DEF Finding
            <4> HIDE DEF f
            <4> QED
                BY <4>1, <4>4
        <3>2. case' = case /\ now' = now /\ book' = book
            BY <2>2 DEF Analyse
        <3>3. Ids' = Ids /\ Ids = 1 .. Len(analysis)
            BY <3>2 DEF Ids
        <3>4. analysis' \in Seq(Finding \cup {None}) /\ Len(analysis') = Len(analysis)
            BY <3>1, <3>3
        <3>5. \A j \in Ids : analysis'[j] = IF j = i THEN f ELSE analysis[j]
            BY <3>1, <3>3
        <3>6. i <= Len(book) /\ i \in Nat /\ Len(book) \in Nat /\ now \in Nat
            BY <2>0 DEF Ids
        <3> QED
            BY <3>1, <3>2, <3>3, <3>4, <3>5, <3>6
    <2>3. CASE Tick
        <3>1. now' \in 0 .. MaxNow /\ now <= now' /\ UNCHANGED <<case, book, analysis>>
            BY <2>0, <2>3 DEF Tick
        <3>2. \A i \in Ids : book[i].date \in -Day .. now'
            BY <2>0, <3>1
        <3>3. \A i \in Ids : analysis[i] # None => analysis[i].at <= now'
            BY <2>0, <3>1 DEF Finding
        <3> QED
            BY <3>1, <3>2, <3>3 DEF Ids
    <2>4. CASE UNCHANGED ledgerVars
        BY <2>4 DEF ledgerVars, Ids
    <2> QED
        BY <2>1, <2>2, <2>3, <2>4 DEF LedgerNext
<1> QED
    BY <1>1, <1>2, PTL DEF LedgerSpec

\* A step adds rows without a finding, or writes the finding of one row, and changes
\* neither a row nor a finding that is there.
LEMMA LedgerStep ==
    ASSUME LedgerTypeOK, [LedgerNext]_ledgerVars
    PROVE  /\ case' = case
           /\ \A i \in Ids : i \in Ids' /\ book'[i] = book[i]
           /\ \A i \in Ids' : analysis'[i] # None =>
                  /\ i \in Ids
                  /\ analysis'[i] = analysis[i] \/ (book' = book /\ Judged(i, analysis'[i]))
<1> USE DEF LedgerTypeOK
<1>1. ASSUME NEW p \in case.payloads, NEW age \in case.lateness, Record(p, age)
      PROVE  /\ case' = case
             /\ \A i \in Ids : i \in Ids' /\ book'[i] = book[i]
             /\ \A i \in Ids' : analysis'[i] # None => i \in Ids /\ analysis'[i] = analysis[i]
    <2>1. /\ case' = case /\ \E row : book' = Append(book, row)
          /\ analysis' = Append(analysis, None)
        BY <1>1 DEF Record
    <2>2. Ids' = Ids \cup {Len(book) + 1} /\ \A i \in Ids : book'[i] = book[i]
        BY <2>1 DEF Ids
    <2>3. analysis'[Len(book) + 1] = None /\ \A i \in Ids : analysis'[i] = analysis[i]
        BY <2>1 DEF Ids
    <2> QED
        BY <2>1, <2>2, <2>3
<1>2. ASSUME NEW i \in Ids, NEW anomaly \in Opinion, NEW ml \in Opinion, NEW graph \in Opinion,
             Analyse(i, anomaly, ml, graph)
      PROVE  /\ case' = case /\ book' = book /\ Ids' = Ids
             /\ \A j \in Ids : analysis'[j] = analysis[j] \/ Judged(j, analysis'[j])
    <2> DEFINE severity == PipelineSeverity(book[i])
               f == [rules |-> Triggered(severity),
                     level |-> RiskLevel(Blend(PipelineScore(CombinedScore(severity), anomaly, ml), graph)),
                     at |-> now, rows |-> Len(book)]
    <2>1. analysis' = [analysis EXCEPT ![i] = f] /\ case' = case /\ book' = book
        BY <1>2 DEF Analyse
    <2>2. Judged(i, f)
        BY DEF Judged
    <2> HIDE DEF f
    <2>3. \A j \in Ids : analysis'[j] = IF j = i THEN f ELSE analysis[j]
        BY <2>1 DEF Ids
    <2> QED
        BY <2>1, <2>2, <2>3 DEF Ids
<1>3. CASE UNCHANGED <<case, book, analysis>>
    BY <1>3 DEF Ids
<1>4. Tick => UNCHANGED <<case, book, analysis>>
    BY DEF Tick
<1> QED
    BY <1>1, <1>2, <1>3, <1>4 DEF LedgerNext, ledgerVars

-----------------------------------------------------------------------------
(* Rows and histories                                                         *)

\* As many rows as identifiers: no two rows are equal.
LEMMA RowsAre ==
    ASSUME LedgerTypeOK, NEW S \in SUBSET Ids
    PROVE  /\ IsFiniteSet(S) /\ IsFiniteSet({book[i] : i \in S}) /\ {book[i] : i \in S} \subseteq Entry
           /\ Cardinality({book[i] : i \in S}) = Cardinality(S)
<1>1. IsFiniteSet(Ids)
    BY FS_Interval DEF Ids, LedgerTypeOK
<1>2. IsFiniteSet(S)
    BY <1>1, FS_Subset
<1> DEFINE f == [i \in S |-> book[i]]
           T == {book[i] : i \in S}
<1>3. \A i, j \in S : book[i] = book[j] => i = j
    BY DEF LedgerTypeOK
<1>4. f \in Injection(S, T)
    BY <1>3 DEF Injection, IsInjective
<1>5. f \in Surjection(S, T)
    BY DEF Surjection
<1>6. T \subseteq Entry
    BY DEF LedgerTypeOK, Ids
<1> HIDE DEF f, T
<1>7. IsFiniteSet(T) /\ Cardinality(T) = Cardinality(S)
    BY <1>2, <1>4, <1>5, FS_Surjection
<1> QED
    BY <1>2, <1>6, <1>7 DEF T

\* Every history is a finite set of rows.
LEMMA HistoriesAre ==
    ASSUME LedgerTypeOK
    PROVE  /\ IsFiniteSet(Rows) /\ Rows \subseteq Entry
           /\ \A S \in SUBSET Rows : S \subseteq Entry /\ IsFiniteSet(S)
<1>1. IsFiniteSet(Rows) /\ Rows \subseteq Entry
    BY RowsAre DEF Rows
<1> QED
    BY <1>1, FS_Subset

\* A worker's severities are 0 or 30 at least.
LEMMA SeverityIs ==
    ASSUME LedgerTypeOK, NEW i \in Ids
    PROVE  \A r \in Rule : Severe(PipelineSeverity(book[i])[r])
<1> DEFINE t == book[i]
<1>1. t.amount \in Nat \ {0}
    <2>1. book[i] \in Entry
        BY DEF LedgerTypeOK, Ids
    <2> QED
        BY <2>1 DEF Entry
<1>2. /\ History(Rows, now, t, Hour) \in SUBSET Rows /\ History(Rows, now, t, Day) \in SUBSET Rows
      /\ PaidTo(Rows, t) \in SUBSET Rows /\ Served(Rows, now, t) \in SUBSET Rows
    BY DEF History, PaidTo, Served
<1> HIDE DEF t
<1>3. \A r \in Rule : Severe(PipelineSeverity(t)[r])
    BY <1>1, <1>2, HistoriesAre, EvaluateIs DEF PipelineSeverity
<1> QED
    BY <1>3 DEF t

\* A finding lists the rules with a severity.
LEMMA JudgedIs ==
    ASSUME NEW i, NEW f, Judged(i, f)
    PROVE  f.rules = Triggered(PipelineSeverity(book[i])) /\ f.at = now /\ f.rows = Len(book)
<1> PICK severity : severity = PipelineSeverity(book[i])
    OBVIOUS
<1> QED
    BY DEF Judged

-----------------------------------------------------------------------------
(* Bursts                                                                     *)

\* The last analysis of a burst sees all of it.
LEMMA BurstStep ==
    ASSUME LedgerTypeOK, [LedgerNext]_ledgerVars, BurstIsFlagged
    PROVE  BurstIsFlagged'
<1> SUFFICES ASSUME NEW S \in SUBSET Ids', Cardinality(S) = RapidCount,
                    \A i, j \in S : /\ book'[i].account = book'[j].account
                                    /\ analysis'[i] # None
                                    /\ analysis'[i].at <= book'[j].date + Hour
             PROVE  \E i \in S : "rapid_transactions" \in analysis'[i].rules
    BY DEF BurstIsFlagged, kSubset, Found
<1>1. S \subseteq Ids /\ \A i \in S : book'[i] = book[i]
    BY LedgerStep
<1>2. CASE \A i \in S : analysis'[i] = analysis[i]
    <2>1. S \in kSubset(RapidCount, Ids)
        BY <1>1 DEF kSubset
    <2>2. \A i, j \in S : /\ book[i].account = book[j].account
                          /\ analysis[i] # None /\ analysis[i].at <= book[j].date + Hour
        BY <1>1, <1>2
    <2> QED
        BY <1>2, <2>1, <2>2 DEF BurstIsFlagged, Found
<1>3. CASE \E i \in S : analysis'[i] # analysis[i]
    <2>1. PICK i \in S : book' = book /\ Judged(i, analysis'[i])
        BY <1>3, LedgerStep
    <2>2. analysis'[i].rules = Triggered(PipelineSeverity(book[i])) /\ analysis'[i].at = now
        BY <2>1, JudgedIs
    <2> DEFINE h1 == History(Rows, now, book[i], Hour)
               rows == {book[j] : j \in S}
    <2>3. \A j \in S : book[j].account = book[i].account /\ book[j].date >= now - Hour
        <3>1. \A j \in S : now <= book[j].date + Hour
            BY <1>1, <2>2
        <3>2. \A j \in S : book[j].date \in Int
            BY <1>1 DEF LedgerTypeOK
        <3>3. now \in Int /\ Hour \in Int
            BY LedgerAssumption DEF LedgerTypeOK
        <3>4. \A j \in S : book[j].date >= now - Hour
            BY <3>1, <3>2, <3>3
        <3> QED
            BY <1>1, <3>4
    <2>4. rows \subseteq h1
        BY <1>1, <2>3 DEF History, Rows
    <2>5. Cardinality(rows) = RapidCount
        BY <1>1, RowsAre
    <2>6. IsFiniteSet(h1)
        BY HistoriesAre DEF History
    <2>7. Cardinality(h1) \in Nat /\ Cardinality(h1) >= RapidCount /\ RapidCount \in Nat \ {0}
        <3> HIDE DEF h1, rows
        <3>1. Cardinality(rows) <= Cardinality(h1)
            BY <2>4, <2>6, FS_Subset
        <3>2. Cardinality(h1) \in Nat
            BY <2>6, FS_CardinalityType
        <3>3. RapidCount \in Nat \ {0}
            BY RuleAssumption
        <3> QED
            BY <2>5, <3>1, <3>2, <3>3
    <2>8. RapidTransactions(h1) > 0
        BY <2>7, ReachedIs DEF RapidTransactions
    <2>9. PipelineSeverity(book[i]).rapid_transactions = RapidTransactions(h1)
        BY DEF PipelineSeverity, Evaluate
    <2>10. "rapid_transactions" \in Triggered(PipelineSeverity(book[i]))
        BY <2>8, <2>9 DEF Triggered, Rule
    <2> QED
        BY <2>2, <2>10
<1> QED
    BY <1>2, <1>3

\* RapidCount rows of one account, each analysed while all are in the window, leave a
\* mark on one of them, whatever the order in which they arrive and are analysed.
THEOREM BurstIsFlaggedHolds == LedgerSpec => []BurstIsFlagged
<1>1. LedgerInit => BurstIsFlagged
    <2> SUFFICES ASSUME LedgerInit, NEW S \in kSubset(RapidCount, Ids) PROVE FALSE
        BY DEF BurstIsFlagged
    <2>1. Ids = {}
        BY DEF LedgerInit, Ids
    <2>2. Cardinality(S) = RapidCount /\ RapidCount # 0 /\ S \subseteq Ids
        BY RuleAssumption DEF kSubset
    <2> QED
        BY <2>1, <2>2, FS_EmptySet
<1>2. LedgerTypeOK /\ BurstIsFlagged /\ [LedgerNext]_ledgerVars => BurstIsFlagged'
    BY BurstStep
<1> QED
    BY <1>1, <1>2, LedgerTypeCorrect, PTL DEF LedgerSpec

-----------------------------------------------------------------------------
(* Money that comes back                                                      *)

\* The analysis of the incoming row finds the outgoing one in the day's history.
LEMMA RoundTripStep ==
    ASSUME LedgerTypeOK, [LedgerNext]_ledgerVars, RoundTripIsFlagged
    PROVE  RoundTripIsFlagged'
<1> SUFFICES ASSUME NEW i \in Ids', NEW j \in Ids',
                    book'[i].kind = "deposit", book'[j].kind \in {"withdrawal", "transfer"},
                    book'[i].account = book'[j].account, book'[i].cp = book'[j].cp,
                    book'[i].cp # None, book'[i].amount = book'[j].amount,
                    book'[i].date >= book'[j].date, book'[i].date - book'[j].date < Day,
                    analysis'[i] # None, analysis'[i].rows >= j,
                    analysis'[i].at <= book'[j].date + Day
             PROVE  "circular_transfer" \in analysis'[i].rules
    BY DEF RoundTripIsFlagged, Found
<1>1. i \in Ids /\ book'[i] = book[i]
    BY LedgerStep
<1>2. CASE analysis'[i] = analysis[i]
    <2>1. analysis[i].rows \in Nat /\ analysis[i].rows <= Len(book)
        BY <1>1, <1>2 DEF LedgerTypeOK, Finding
    <2>2. j \in Ids
        BY <1>2, <2>1 DEF Ids, LedgerTypeOK
    <2>3. book'[j] = book[j]
        BY <2>2, LedgerStep
    <2> QED
        BY <1>1, <1>2, <2>2, <2>3 DEF RoundTripIsFlagged, Found
<1>3. CASE book' = book /\ Judged(i, analysis'[i])
    <2>1. /\ analysis'[i].rules = Triggered(PipelineSeverity(book[i]))
          /\ analysis'[i].at = now
        BY <1>3, JudgedIs
    <2>2. j \in Ids /\ book[j] \in Rows /\ book[i] \in Entry /\ book[j] \in Entry
        BY <1>1, <1>3 DEF Ids, Rows, LedgerTypeOK
    <2> DEFINE t == book[i]
               u == book[j]
               h1 == History(Rows, now, t, Hour)
               day == History(Rows, now, t, Day)
    <2>3. u.date \in Int /\ t.date \in Int /\ u.amount \in Nat \ {0} /\ now \in Int /\ Day \in Nat \ {0}
        <3>1. now \in Int /\ Day \in Nat \ {0}
            BY RuleAssumption DEF LedgerTypeOK
        <3>2. \A e \in Entry : e.date \in Int /\ e.amount \in Nat \ {0}
            BY DEF Entry
        <3> QED
            BY <2>2, <3>1, <3>2
    <2>4. u \in day
        <3>1. u.date >= now - Day
            BY <1>3, <2>1, <2>3
        <3> QED
            BY <1>3, <2>2, <3>1 DEF History
    <2>5. u.id # t.id
        BY <1>1, <1>3, <2>2 DEF LedgerTypeOK
    <2>6. u \in With(t.cp, Others(t, day))
        BY <1>3, <2>4, <2>5 DEF With, Others
    <2>7. /\ t.date - u.date < Day /\ u.date - t.date < Day
          /\ 5 * (u.amount - t.amount) < t.amount /\ 5 * (t.amount - u.amount) < t.amount
        BY <1>3, <2>3
    <2>8. CircularTransfer(t, day) > 0
        <3> HIDE DEF t, u, day
        <3>1. t.kind = "deposit" /\ t.cp # None /\ u.kind \in {"withdrawal", "transfer"}
            BY <1>3 DEF t, u
        <3> QED
            BY <2>6, <2>7, <3>1 DEF CircularTransfer, When
    <2>9. PipelineSeverity(t).circular_transfer = CircularTransfer(t, day)
        BY <2>4 DEF PipelineSeverity, Evaluate
    <2> QED
        BY <2>1, <2>8, <2>9 DEF Triggered, Rule
<1> QED
    BY <1>2, <1>3, LedgerStep

\* A deposit of what the account sent to the same party within the day is marked as
\* circular by every analysis that could see the outgoing row.
THEOREM RoundTripIsFlaggedHolds == LedgerSpec => []RoundTripIsFlagged
<1>1. LedgerInit => RoundTripIsFlagged
    BY DEF LedgerInit, RoundTripIsFlagged, Ids
<1>2. LedgerTypeOK /\ RoundTripIsFlagged /\ [LedgerNext]_ledgerVars => RoundTripIsFlagged'
    BY RoundTripStep
<1> QED
    BY <1>1, <1>2, LedgerTypeCorrect, PTL DEF LedgerSpec

-----------------------------------------------------------------------------
(* Smurfing                                                                   *)

\* The last of four analyses sees the other three accounts.
LEMMA SmurfStep ==
    ASSUME LedgerTypeOK, [LedgerNext]_ledgerVars, SmurfsAreFlagged
    PROVE  SmurfsAreFlagged'
<1> SUFFICES ASSUME NEW S \in SUBSET Ids', Cardinality(S) = 4,
                    \A i, j \in S : /\ book'[i].cp = book'[j].cp /\ book'[i].cp # None
                                    /\ i # j => book'[i].account # book'[j].account
                                    /\ analysis'[i] # None
                                    /\ book'[j].date >= book'[i].date - Day,
                    Volume({book'[i] : i \in S}) > 2 * StructuringAmount
             PROVE  \E i \in S : "cross_account_structuring" \in analysis'[i].rules
    BY DEF SmurfsAreFlagged, kSubset, Found
<1>1. S \subseteq Ids /\ \A i \in S : book'[i] = book[i]
    BY LedgerStep
<1> DEFINE rows == {book[i] : i \in S}
<1>2. rows = {book'[i] : i \in S}
    BY <1>1
<1>3. Volume(rows) > 2 * StructuringAmount
    BY <1>2
<1>4. CASE \A i \in S : analysis'[i] = analysis[i]
    <2>1. S \in kSubset(4, Ids)
        BY <1>1 DEF kSubset
    <2>2. \A i, j \in S : /\ book[i].cp = book[j].cp /\ book[i].cp # None
                          /\ i # j => book[i].account # book[j].account
                          /\ analysis[i] # None /\ book[j].date >= book[i].date - Day
        BY <1>1, <1>4
    <2> QED
        BY <1>3, <1>4, <2>1, <2>2 DEF SmurfsAreFlagged, Found
<1>5. CASE \E i \in S : analysis'[i] # analysis[i]
    <2>1. PICK i \in S : book' = book /\ Judged(i, analysis'[i])
        BY <1>5, LedgerStep
    <2>2. analysis'[i].rules = Triggered(PipelineSeverity(book[i]))
        BY <2>1, JudgedIs
    <2> DEFINE t == book[i]
               paid == PaidTo(Rows, t)
               senders == {u.account : u \in paid} \ {t.account}
    <2>3. rows \subseteq paid
        BY <1>1, <2>1 DEF PaidTo, Rows
    <2>4. paid \subseteq Entry /\ IsFiniteSet(paid)
        BY HistoriesAre DEF PaidTo
    <2>5. Cardinality(rows) = 4 /\ IsFiniteSet(S)
        BY <1>1, RowsAre
    <2>6. Cardinality(paid) >= 3
        <3> HIDE DEF rows, paid
        <3>1. Cardinality(rows) <= Cardinality(paid) /\ Cardinality(paid) \in Nat
            BY <2>3, <2>4, FS_Subset, FS_CardinalityType
        <3> QED
            BY <2>5, <3>1
    <2>7. Cardinality(senders) >= 3
        <3> DEFINE f == [j \in S \ {i} |-> book[j].account]
        <3>1. f \in Injection(S \ {i}, senders)
            <4>1. \A j \in S \ {i} : book[j].account \in senders
                BY <2>1, <2>3
            <4>2. \A j, k \in S \ {i} : book[j].account = book[k].account => j = k
                BY <2>1
            <4> QED
                BY <4>1, <4>2 DEF Injection, IsInjective
        <3>2. IsFiniteSet({u.account : u \in paid})
            <4> DEFINE g == [u \in paid |-> u.account]
            <4>1. g \in Surjection(paid, {u.account : u \in paid})
                BY DEF Surjection
            <4> HIDE DEF g, paid
            <4> QED
                BY <2>4, <4>1, FS_Surjection
        <3>3. IsFiniteSet(senders)
            BY <3>2, FS_Difference
        <3>4. Cardinality(S \ {i}) = 3
            <4>1. Cardinality(S \ {i}) = Cardinality(S) - 1
                BY <2>1, <2>5, FS_RemoveElement
            <4> QED
                BY <4>1
        <3> HIDE DEF f, senders
        <3>5. Cardinality(S \ {i}) <= Cardinality(senders) /\ Cardinality(senders) \in Nat
            BY <3>1, <3>3, FS_Injection, FS_CardinalityType
        <3> QED
            BY <3>4, <3>5
    <2>8. Volume(paid) > 2 * StructuringAmount
        <3> HIDE DEF rows, paid
        <3>1. /\ Volume(rows) \in Nat /\ Volume(paid) \in Nat
              /\ Volume(rows) <= Volume(paid)
            BY <2>3, <2>4, VolumeGrows
        <3>2. 2 * StructuringAmount \in Nat
            BY RuleAssumption
        <3> QED
            BY <1>3, <3>1, <3>2
    <2>9. CrossAccount(t, paid) > 0
        <3> HIDE DEF paid, t
        <3> QED
            BY <2>6, <2>7, <2>8 DEF CrossAccount, When
    <2>10. PipelineSeverity(t).cross_account_structuring = CrossAccount(t, paid)
        BY DEF PipelineSeverity, Evaluate
    <2> QED
        BY <2>2, <2>9, <2>10 DEF Triggered, Rule
<1> QED
    BY <1>4, <1>5

\* Four accounts that pay the same party within a day, together more than twice the
\* reporting threshold, leave a mark once all four rows are analysed.
THEOREM SmurfsAreFlaggedHolds == LedgerSpec => []SmurfsAreFlagged
<1>1. LedgerInit => SmurfsAreFlagged
    <2> SUFFICES ASSUME LedgerInit, NEW S \in kSubset(4, Ids) PROVE FALSE
        BY DEF SmurfsAreFlagged
    <2>1. Ids = {}
        BY DEF LedgerInit, Ids
    <2>2. Cardinality(S) = 4 /\ S \subseteq Ids
        BY DEF kSubset
    <2> QED
        BY <2>1, <2>2, FS_EmptySet
<1>2. LedgerTypeOK /\ SmurfsAreFlagged /\ [LedgerNext]_ledgerVars => SmurfsAreFlagged'
    BY SmurfStep
<1> QED
    BY <1>1, <1>2, LedgerTypeCorrect, PTL DEF LedgerSpec

-----------------------------------------------------------------------------
(* A match raises the level                                                   *)

\* On rules alone a level is low only when nothing is triggered.
LEMMA MatchedStep ==
    ASSUME LedgerTypeOK, [LedgerNext]_ledgerVars, MatchedIsNotLow
    PROVE  MatchedIsNotLow'
<1> SUFFICES ASSUME NEW i \in Ids', case'.models = "none", ~case'.graphOn,
                    analysis'[i] # None, analysis'[i].rules # {}
             PROVE  analysis'[i].level # "low"
    BY DEF MatchedIsNotLow
<1>1. i \in Ids /\ case' = case
    BY LedgerStep
<1>2. CASE analysis'[i] = analysis[i]
    BY <1>1, <1>2 DEF MatchedIsNotLow
<1>3. CASE Judged(i, analysis'[i])
    <2> DEFINE severity == PipelineSeverity(book[i])
               score == CombinedScore(severity)
    <2>1. \A r \in Rule : Severe(severity[r])
        BY <1>1, SeverityIs
    <2>2. Triggered(severity) # {}
        BY <1>3, JudgedIs
    <2> HIDE DEF severity
    <2>3. score \in Nat /\ score >= 30
        BY <2>1, <2>2, CombinedIs
    <2> HIDE DEF score
    <2>4. \A anomaly, ml, graph : Blend(PipelineScore(score, anomaly, ml), graph) = score
        BY <1>1 DEF Blend, PipelineScore
    <2>5. RiskLevel(score) # "low"
        BY <2>3 DEF RiskLevel
    <2>6. \E anomaly, ml, graph :
              analysis'[i].level = RiskLevel(Blend(PipelineScore(score, anomaly, ml), graph))
        BY <1>3 DEF Judged, severity, score
    <2> QED
        BY <2>4, <2>5, <2>6
<1> QED
    BY <1>2, <1>3, LedgerStep

\* As long as no model is trained and the graph is off, a row that any rule marks gets
\* a level that raises an alert.
THEOREM MatchedIsNotLowHolds == LedgerSpec => []MatchedIsNotLow
<1>1. LedgerInit => MatchedIsNotLow
    BY DEF LedgerInit, MatchedIsNotLow, Ids
<1>2. LedgerTypeOK /\ MatchedIsNotLow /\ [LedgerNext]_ledgerVars => MatchedIsNotLow'
    BY MatchedStep
<1> QED
    BY <1>1, <1>2, LedgerTypeCorrect, PTL DEF LedgerSpec

-----------------------------------------------------------------------------
(* What the live endpoint finds                                               *)

\* A rule with a threshold that triggers on a value triggers on a larger one.
LEMMA ReachedGrows ==
    ASSUME NEW v \in Nat, NEW w \in Nat, v <= w, NEW threshold \in Nat \ {0}, NEW times \in {2, 3},
           Reached(v, threshold, times) > 0
    PROVE  Reached(w, threshold, times) > 0
<1>1. v >= threshold
    BY ReachedIs
<1>2. w >= threshold
    BY <1>1
<1> QED
    BY <1>2, ReachedIs

\* What a payload t without address triggers on smaller histories, the row b of the same
\* transaction triggers on those of the worker.
LEMMA EvaluateGrows ==
    ASSUME NEW b \in Entry, NEW t,
           t.amount = b.amount, t.night = b.night, t.kind = b.kind, t.cp = b.cp, t.date = b.date,
           t.ip = None, t.agent = None \/ t.agent = b.agent,
           NEW h1, NEW day, NEW served, NEW bh1, NEW bday, NEW paid, NEW bserved,
           h1 \subseteq bh1, h1 \subseteq day, day \subseteq Others(b, bday), served \subseteq bserved,
           bh1 \subseteq Entry, bday \subseteq Entry, bserved \subseteq Entry,
           IsFiniteSet(bh1), IsFiniteSet(bday), IsFiniteSet(bserved), bday # {},
           Others(t, day) = day, day = {} \/ day = Others(b, bday)
    PROVE  \A r \in Rule : Evaluate(t, h1, day, {}, served)[r] > 0
                              => Evaluate(b, bh1, bday, paid, bserved)[r] > 0
<1> DEFINE live == Evaluate(t, h1, day, {}, served)
           row == Evaluate(b, bh1, bday, paid, bserved)
<1>1. /\ MaxAmount \in Nat \ {0} /\ StructuringAmount \in Nat \ {0} /\ RapidCount \in Nat \ {0}
      /\ AgentRapidCount \in Nat \ {0} /\ AgentFloat \in Nat \ {0}
      /\ RoundAmount \in Nat \ {0} /\ 3 * MaxAmount \in Nat \ {0}
    BY RuleAssumption
<1>2. b.amount \in Nat \ {0}
    BY DEF Entry
<1>3. (IF day = {} THEN h1 ELSE day) = day
    OBVIOUS
<1>4. LargeAmount(t) = LargeAmount(b) /\ Structuring(t) = Structuring(b)
      /\ RoundNumber(t) = RoundNumber(b) /\ UnusualHours(t) = UnusualHours(b)
    BY DEF LargeAmount, Structuring, RoundNumber, UnusualHours
<1>5. RapidTransactions(h1) > 0 => RapidTransactions(bh1) > 0
    <2>1. /\ Cardinality(h1) \in Nat /\ Cardinality(bh1) \in Nat
          /\ Cardinality(h1) <= Cardinality(bh1)
        BY FS_Subset, FS_CardinalityType
    <2> QED
        BY <1>1, <2>1, ReachedGrows DEF RapidTransactions
<1>6. Velocity(t, h1) > 0 => Velocity(b, bh1) > 0
    <2>1. Volume(h1) \in Nat /\ Volume(bh1) \in Nat /\ Volume(h1) <= Volume(bh1)
        BY VolumeGrows
    <2>2. /\ Volume(h1) + t.amount \in Nat /\ Volume(bh1) + b.amount \in Nat
          /\ Volume(h1) + t.amount <= Volume(bh1) + b.amount
        BY <1>2, <2>1
    <2> QED
        BY <1>1, <2>2, ReachedGrows DEF Velocity
<1>7. ~(NewIp(t, day) > 0)
    BY DEF NewIp, When
<1>8. CircularTransfer(t, day) > 0 => CircularTransfer(b, bday) > 0
    <2> SUFFICES ASSUME CircularTransfer(t, day) > 0 PROVE CircularTransfer(b, bday) > 0
        OBVIOUS
    <2>1. /\ t.kind \in {"deposit", "transfer"} /\ t.cp # None
          /\ \E u \in With(t.cp, Others(t, day)) :
                /\ u.kind \in {"withdrawal", "transfer"}
                /\ t.date - u.date < Day /\ u.date - t.date < Day
                /\ 5 * (u.amount - t.amount) < t.amount /\ 5 * (t.amount - u.amount) < t.amount
        BY DEF CircularTransfer, When
    <2>2. With(t.cp, Others(t, day)) \subseteq With(b.cp, Others(b, bday))
        BY DEF With
    <2> QED
        BY <2>1, <2>2 DEF CircularTransfer, When
<1>9. NewCounterparty(t, day) > 0 => NewCounterparty(b, bday) > 0
    <2>1. CASE day = {}
        BY <2>1 DEF NewCounterparty, When
    <2>2. CASE day = Others(b, bday)
        BY <2>2 DEF NewCounterparty
    <2> QED
        BY <2>1, <2>2
<1>10. RapidPair(t, day) > 0 => RapidPair(b, bday) > 0
    <2> DEFINE L == With(t.cp, Others(t, day))
               R == With(b.cp, Others(b, bday))
    <2>1. L \subseteq R
        BY DEF With
    <2>2. IsFiniteSet(R)
        BY FS_Subset DEF With, Others
    <2> HIDE DEF L, R
    <2>3. /\ Cardinality(L) \in Nat /\ Cardinality(R) \in Nat /\ Cardinality(L) <= Cardinality(R)
        BY <2>1, <2>2, FS_Subset, FS_CardinalityType
    <2>4. Cardinality(L) + 1 \in Nat /\ Cardinality(R) + 1 \in Nat
          /\ Cardinality(L) + 1 <= Cardinality(R) + 1
        BY <2>3
    <2>5. Reached(Cardinality(L) + 1, 3, 2) > 0 => Reached(Cardinality(R) + 1, 3, 2) > 0
        BY <2>4, ReachedGrows
    <2>6. /\ RapidPair(t, day) = When(t.kind = "transfer" /\ t.cp # None, Reached(Cardinality(L) + 1, 3, 2))
          /\ RapidPair(b, bday) = When(b.kind = "transfer" /\ b.cp # None, Reached(Cardinality(R) + 1, 3, 2))
        BY DEF RapidPair, L, R
    <2> QED
        BY <2>5, <2>6 DEF When
<1>11. ~(CrossAccount(t, {}) > 0)
    BY FS_EmptySet DEF CrossAccount, When
<1>12. AgentRapid(served) > 0 => AgentRapid(bserved) > 0
    <2>1. /\ Cardinality(served) \in Nat /\ Cardinality(bserved) \in Nat
          /\ Cardinality(served) <= Cardinality(bserved)
        BY FS_Subset, FS_CardinalityType
    <2> QED
        BY <1>1, <2>1, ReachedGrows DEF AgentRapid
<1>13. AgentFloatVolume(t, served) > 0 => AgentFloatVolume(b, bserved) > 0
    <2>1. Volume(served) \in Nat /\ Volume(bserved) \in Nat /\ Volume(served) <= Volume(bserved)
        BY VolumeGrows
    <2>2. /\ Volume(served) + t.amount \in Nat /\ Volume(bserved) + b.amount \in Nat
          /\ Volume(served) + t.amount <= Volume(bserved) + b.amount
        BY <1>2, <2>1
    <2> QED
        BY <1>1, <2>2, ReachedGrows DEF AgentFloatVolume
<1>14. live = [large_amount |-> LargeAmount(t),
               structuring |-> Structuring(t),
               rapid_transactions |-> RapidTransactions(h1),
               round_number |-> RoundNumber(t),
               unusual_hours |-> UnusualHours(t),
               high_velocity_volume |-> Velocity(t, h1),
               new_ip_address |-> NewIp(t, day),
               circular_transfer |-> CircularTransfer(t, day),
               new_counterparty_transfer |-> NewCounterparty(t, day),
               rapid_pair_transfers |-> RapidPair(t, day),
               cross_account_structuring |-> CrossAccount(t, {}),
               agent_rapid_transactions |-> IF t.agent = None THEN 0 ELSE AgentRapid(served),
               agent_float_volume |-> IF t.agent = None THEN 0 ELSE AgentFloatVolume(t, served)]
    BY <1>3 DEF Evaluate
<1>15. row = [large_amount |-> LargeAmount(b),
              structuring |-> Structuring(b),
              rapid_transactions |-> RapidTransactions(bh1),
              round_number |-> RoundNumber(b),
              unusual_hours |-> UnusualHours(b),
              high_velocity_volume |-> Velocity(b, bh1),
              new_ip_address |-> NewIp(b, bday),
              circular_transfer |-> CircularTransfer(b, bday),
              new_counterparty_transfer |-> NewCounterparty(b, bday),
              rapid_pair_transfers |-> RapidPair(b, bday),
              cross_account_structuring |-> CrossAccount(b, paid),
              agent_rapid_transactions |-> IF b.agent = None THEN 0 ELSE AgentRapid(bserved),
              agent_float_volume |-> IF b.agent = None THEN 0 ELSE AgentFloatVolume(b, bserved)]
    BY DEF Evaluate
<1> HIDE DEF live, row
<1>16. \A r \in Rule : live[r] > 0 => row[r] > 0
    BY <1>4, <1>5, <1>6, <1>7, <1>8, <1>9, <1>10, <1>11, <1>12, <1>13, <1>14, <1>15 DEF Rule
<1> QED
    BY <1>16 DEF live, row

\* Analysed at once, a row triggers every rule that the endpoint reported just before it.
LEMMA FoundAgain ==
    ASSUME LedgerTypeOK, NEW i \in Ids, Len(book) = i, now = book[i].date, NEW degraded \in BOOLEAN
    PROVE  Triggered(LiveSeverity(book[i], {book[j] : j \in 1 .. i - 1}, now, degraded))
               \subseteq Triggered(PipelineSeverity(book[i]))
<1> DEFINE b == book[i]
           rows == {book[j] : j \in 1 .. i - 1}
           seen == IF degraded THEN {} ELSE rows
           served == Served(seen, now, b)
           t == [b EXCEPT !.ip = None, !.id = 0, !.date = now,
                          !.agent = IF served = {} THEN None ELSE @]
           h1 == History(seen, now, t, Hour)
           day == History(seen, now, t, Day)
           bh1 == History(Rows, now, b, Hour)
           bday == History(Rows, now, b, Day)
           bserved == Served(Rows, now, b)
<1>1. b \in Entry /\ b.id = i /\ i \in Nat \ {0} /\ b.date = now /\ now \in Int
      /\ Hour \in Nat /\ Day \in Nat /\ Hour <= Day
    BY RuleAssumption, LedgerAssumption DEF LedgerTypeOK, Ids
<1>2. /\ t.amount = b.amount /\ t.night = b.night /\ t.kind = b.kind /\ t.cp = b.cp
      /\ t.date = b.date /\ t.ip = None
      /\ t.agent = None \/ t.agent = b.agent
      /\ t.account = b.account /\ t.id = 0
    BY <1>1 DEF Entry
<1> HIDE DEF t
<1>3. Rows = rows \cup {b}
    BY <1>1 DEF Rows, Ids
<1>4. /\ \A u \in rows : u.id # b.id /\ u.id # 0 /\ u \in Entry /\ u.date \in Int
      /\ rows \subseteq Rows /\ seen \subseteq rows
    <2>1. ASSUME NEW j \in 1 .. i - 1
          PROVE  book[j].id = j /\ j # i /\ j # 0 /\ book[j] \in Entry
        BY <1>1 DEF LedgerTypeOK, Ids
    <2>2. \A u \in Entry : u.date \in Int
        BY DEF Entry
    <2> QED
        BY <1>1, <1>3, <2>1, <2>2
<1> HIDE DEF seen, rows, b
<1>5. /\ h1 \subseteq bh1 /\ served \subseteq bserved
    BY <1>2, <1>4 DEF History, Served
<1>6. h1 \subseteq day
    <2>1. \A d \in Int : d >= now - Hour => d >= now - Day
        BY <1>1
    <2> QED
        BY <1>4, <2>1 DEF History
<1>7. Others(t, day) = day /\ day \subseteq Others(b, bday)
    BY <1>2, <1>4 DEF History, Others
<1>8. day = {} \/ day = Others(b, bday)
    <2>1. CASE degraded
        BY <2>1 DEF seen, History
    <2>2. CASE ~degraded
        <3>1. seen = rows
            BY <2>2 DEF seen
        <3> QED
            BY <1>2, <1>3, <1>4, <3>1 DEF History, Others
    <2> QED
        BY <2>1, <2>2
<1>9. bday # {}
    <2>1. b.date >= now - Day
        BY <1>1
    <2> QED
        BY <1>3, <2>1 DEF History
<1>10. /\ bh1 \subseteq Rows /\ bday \subseteq Rows /\ bserved \subseteq Rows
    BY DEF History, Served
<1>11. /\ bh1 \subseteq Entry /\ bday \subseteq Entry /\ bserved \subseteq Entry
       /\ IsFiniteSet(bh1) /\ IsFiniteSet(bday) /\ IsFiniteSet(bserved)
    BY <1>10, HistoriesAre
<1>12. LiveSeverity(b, rows, now, degraded) = Evaluate(t, h1, day, {}, served)
    BY DEF LiveSeverity, t, seen
<1>13. PipelineSeverity(b) = Evaluate(b, bh1, bday, PaidTo(Rows, b), bserved)
    BY DEF PipelineSeverity
<1> HIDE DEF h1, day, served, bh1, bday, bserved
<1>14. \A paid : \A r \in Rule : Evaluate(t, h1, day, {}, served)[r] > 0
                                      => Evaluate(b, bh1, bday, paid, bserved)[r] > 0
    BY <1>1, <1>2, <1>5, <1>6, <1>7, <1>8, <1>9, <1>11, EvaluateGrows
<1>15. \A r \in Rule : LiveSeverity(b, rows, now, degraded)[r] > 0 => PipelineSeverity(b)[r] > 0
    BY <1>12, <1>13, <1>14
<1> QED
    BY <1>15 DEF Triggered, b, rows

\* The endpoint passes what triggers nothing.
LEMMA PassedIs ==
    ASSUME NEW severity, case.models = "none", ~case.graphOn,
           LiveRecommendation(severity, 0, 0, 0) # "pass"
    PROVE  Triggered(severity) # {}
<1> SUFFICES ASSUME Triggered(severity) = {} PROVE LiveRecommendation(severity, 0, 0, 0) = "pass"
    OBVIOUS
<1>1. CombinedScore(severity) = 0
    BY FS_EmptySet DEF CombinedScore
<1>2. Blend(LiveScore(0, 0, 0), 0) = 0
    BY DEF Blend, LiveScore
<1>3. RiskLevel(0) = "low"
    BY DEF RiskLevel
<1> QED
    BY <1>1, <1>2, <1>3 DEF LiveRecommendation, Recommendation

\* The rules of the endpoint's answer, without its level.
RulesAgain ==
    \A i \in Ids, degraded \in BOOLEAN :
        analysis[i] # None /\ analysis[i].rows = i /\ analysis[i].at = book[i].date =>
            Triggered(LiveSeverity(book[i], {book[j] : j \in 1 .. i - 1}, book[i].date, degraded))
                \subseteq analysis[i].rules

\* A row analysed at once has before it the rows that the endpoint read.
LEMMA RulesAgainStep ==
    ASSUME LedgerTypeOK, [LedgerNext]_ledgerVars, RulesAgain
    PROVE  RulesAgain'
<1> SUFFICES ASSUME NEW i \in Ids', NEW degraded \in BOOLEAN,
                    analysis'[i] # None, analysis'[i].rows = i, analysis'[i].at = book'[i].date
             PROVE  Triggered(LiveSeverity(book'[i], {book'[j] : j \in 1 .. i - 1}, book'[i].date, degraded))
                        \subseteq analysis'[i].rules
    BY DEF RulesAgain
<1>1. i \in Ids /\ book'[i] = book[i]
    BY LedgerStep
<1>2. {book'[j] : j \in 1 .. i - 1} = {book[j] : j \in 1 .. i - 1}
    <2>1. \A j \in 1 .. i - 1 : j \in Ids
        BY <1>1 DEF Ids, LedgerTypeOK
    <2>2. \A j \in 1 .. i - 1 : book'[j] = book[j]
        BY <2>1, LedgerStep
    <2> QED
        BY <2>2
<1>3. CASE analysis'[i] = analysis[i]
    BY <1>1, <1>2, <1>3 DEF RulesAgain
<1>4. CASE Judged(i, analysis'[i])
    <2>1. /\ analysis'[i].rules = Triggered(PipelineSeverity(book[i]))
          /\ now = book[i].date /\ Len(book) = i
        BY <1>1, <1>4, JudgedIs
    <2>2. Triggered(LiveSeverity(book[i], {book[j] : j \in 1 .. i - 1}, now, degraded))
              \subseteq Triggered(PipelineSeverity(book[i]))
        BY <1>1, <2>1, FoundAgain
    <2> QED
        BY <1>1, <1>2, <2>1, <2>2
<1> QED
    BY <1>3, <1>4, LedgerStep

\* The level of the endpoint's answer follows from the rules.
LEMMA LevelAgain ==
    ASSUME RulesAgain, MatchedIsNotLow
    PROVE  LiveIsFoundAgain
<1> SUFFICES ASSUME NEW i \in Ids, NEW degraded \in BOOLEAN, analysis[i] # None,
                    analysis[i].rows = i, analysis[i].at = book[i].date,
                    NEW severity,
                    severity = LiveSeverity(book[i], {book[j] : j \in 1 .. i - 1}, book[i].date, degraded)
             PROVE  /\ Triggered(severity) \subseteq analysis[i].rules
                    /\ case.models = "none" /\ ~case.graphOn
                       /\ LiveRecommendation(severity, 0, 0, 0) # "pass" => analysis[i].level # "low"
    BY DEF LiveIsFoundAgain
<1>1. Triggered(severity) \subseteq analysis[i].rules
    BY DEF RulesAgain
<1>2. ASSUME case.models = "none", ~case.graphOn, LiveRecommendation(severity, 0, 0, 0) # "pass"
      PROVE  analysis[i].level # "low"
    <2>1. Triggered(severity) # {}
        BY <1>2, PassedIs
    <2> QED
        BY <1>1, <1>2, <2>1 DEF MatchedIsNotLow
<1> QED
    BY <1>1, <1>2

\* Every rule that POST /score would report just before a transaction is recorded, its
\* histories read or timed out, is found again when the row is analysed at once; on
\* rules alone, what the endpoint does not pass gets a level that raises an alert.
THEOREM LiveIsFoundAgainHolds == LedgerSpec => []LiveIsFoundAgain
<1>1. LedgerInit => RulesAgain
    BY DEF LedgerInit, RulesAgain, Ids
<1>2. LedgerTypeOK /\ RulesAgain /\ [LedgerNext]_ledgerVars => RulesAgain'
    BY RulesAgainStep
<1>3. RulesAgain /\ MatchedIsNotLow => LiveIsFoundAgain
    BY LevelAgain
<1> QED
    BY <1>1, <1>2, <1>3, LedgerTypeCorrect, MatchedIsNotLowHolds, PTL DEF LedgerSpec

================================================================================
