------------------------------ MODULE DatasetImport -----------------------------
(***************************************************************************)
(* The importer of labelled data sets: one pass over the file for the accounts    *)
(* and the number of fraud rows, a second that inserts fraud rows in batches as     *)
(* they come and keeps a sample of the others for the end, in one session that     *)
(* commits once.  A file may be imported again, and two files may number their rows   *)
(* alike.                                                                    *)
(*                                                                         *)
(* A row is [id, account, label, stamp], or Bad when no pass can parse it.  The agent, *)
(* branch, country and amount that a row is given are functions of the row alone and    *)
(* left out; the KYC level is a function of the file.                            *)
(***************************************************************************)
EXTENDS Integers, Sequences, FiniteSets, FiniteSetsExt, Absent

CONSTANTS
    Files,          \* files that may be imported, sequences of rows
    Sample,         \* --sample-legit; None: three for each fraud row
    BatchSize,
    MaxImports,     \* bound: runs of the importer
    Bad             \* a row that does not parse

VARIABLES
    file,           \* the file being imported, or None
    at,             \* rows read in the second pass
    batch,          \* fraud rows not yet inserted
    reservoir,      \* the sample of the other rows
    legit,          \* other rows seen
    stats,          \* [fraud, legit, skipped]
    written,        \* what the session has inserted: [txs, alerts]
    imported,       \* committed: [txs, alerts]; an alert is [tx, label, nr]
    repeated,       \* ids that a batch held more than once
    imports

importVars ==
    <<file, at, batch, reservoir, legit, stats, written, imported, repeated, imports>>

Rows == {r \in UNION {{f[i] : i \in DOMAIN f} : f \in Files} : r # Bad}

ASSUME ImportAssumption ==
    /\ \A f \in Files : /\ f \in Seq(Rows \cup {Bad})
                        /\ \A i \in DOMAIN f : f[i] # Bad => f[i].label \in {0, 1}
    /\ Sample \in Nat \cup {None} /\ BatchSize \in Nat \ {0} /\ MaxImports \in Nat

Imported ==
    [txs : SUBSET [id : {r.id : r \in Rows}, kyc : 1 .. 4],
     alerts : SUBSET [tx : {r.id : r \in Rows}, label : {0, 1}, nr : Nat]]

ImportTypeOK ==
    /\ file \in Files \cup {None} /\ at \in Nat
    /\ batch \in Seq(Rows) /\ reservoir \in Seq(Rows) /\ legit \in Nat
    /\ stats \in [fraud : Nat, legit : Nat, skipped : Nat]
    /\ written \in Imported /\ imported \in Imported
    /\ imports \in 0 .. MaxImports

Nothing == [txs |-> {}, alerts |-> {}]
NoStats == [fraud |-> 0, legit |-> 0, skipped |-> 0]

ImportInit ==
    /\ file = None /\ at = 0
    /\ batch = <<>> /\ reservoir = <<>> /\ legit = 0
    /\ stats = NoStats
    /\ written = Nothing /\ imported = Nothing /\ repeated = {}
    /\ imports = 0

-----------------------------------------------------------------------------
(* The first pass                                                            *)

Good(f) == {i \in DOMAIN f : f[i] # Bad}
FraudCount(f) == Cardinality({i \in Good(f) : f[i].label = 1})

\* An account's first row of the file, which need not be its earliest.
FirstSeen(f, account) ==
    f[Min({i \in Good(f) : f[i].account = account})].stamp

\* Mutant: the account itself is among those seen before.
KycLevelInclusive(f, account) ==
    LET accounts == {f[i].account : i \in Good(f)}
        before == {a \in accounts : FirstSeen(f, a) <= FirstSeen(f, account)}
    IN  4 - (4 * Cardinality(before)) \div Cardinality(accounts)

\* The quarter of the accounts seen before this one: the earlier, the higher the level.
KycLevel(f, account) ==
    LET accounts == {f[i].account : i \in Good(f)}
        before == {a \in accounts : FirstSeen(f, a) < FirstSeen(f, account)}
        quarters == 4 * Cardinality(before)
        n == Cardinality(accounts)
    IN  IF quarters <= n THEN 4 ELSE IF quarters <= 2 * n THEN 3
        ELSE IF quarters <= 3 * n THEN 2 ELSE 1

SampleSize(f) == IF Sample = None THEN 3 * FraudCount(f) ELSE Sample

-----------------------------------------------------------------------------
(* The database                                                              *)

Known(id) == \E x \in imported.txs \cup written.txs : x.id = id

Tx(row) == [id |-> row.id, kyc |-> KycLevel(file, row.account)]

\* Mutant: an alert for each row of the batch, inserted or not.
AlertedAll(rows) == DOMAIN rows

\* Rows whose id was inserted by this batch: a second row with it counts too.
Alerted(rows) == {i \in DOMAIN rows : ~Known(rows[i].id)}

\* _batch_insert: of rows with one id only the first is inserted, and only if it is new.
Inserted(rows) ==
    {i \in DOMAIN rows : ~Known(rows[i].id) /\ \A j \in 1 .. i - 1 : rows[j].id # rows[i].id}

Insert(rows) ==
    written' = [txs |-> written.txs \cup {Tx(rows[i]) : i \in Inserted(rows)},
                alerts |-> written.alerts \cup
                   {[tx |-> rows[i].id, label |-> rows[i].label, nr |-> at + i] : i \in Alerted(rows)}]

Repeats(rows) ==
    {rows[i].id : i \in {k \in DOMAIN rows : \E j \in 1 .. k - 1 : rows[j].id = rows[k].id}}

Counted(kind, rows) ==
    [stats EXCEPT ![kind] = @ + Cardinality(Inserted(rows)),
                  !.skipped = @ + Len(rows) - Cardinality(Inserted(rows))]

-----------------------------------------------------------------------------
(* The second pass                                                           *)

Start(f) ==
    /\ file = None /\ imports < MaxImports
    /\ file' = f /\ imports' = imports + 1
    /\ at' = 0 /\ batch' = <<>> /\ reservoir' = <<>> /\ legit' = 0 /\ stats' = NoStats
    /\ UNCHANGED <<written, imported, repeated>>

SkipRow ==
    /\ file # None /\ at < Len(file) /\ file[at + 1] = Bad
    /\ at' = at + 1 /\ stats' = [stats EXCEPT !.skipped = @ + 1]
    /\ UNCHANGED <<file, batch, reservoir, legit, written, imported, repeated, imports>>

\* A fraud row joins the batch, which is inserted when it is full.
FraudRow ==
    /\ file # None /\ at < Len(file) /\ file[at + 1] # Bad /\ file[at + 1].label = 1
    /\ at' = at + 1
    /\ LET rows == Append(batch, file[at + 1])
       IN  IF Len(rows) >= BatchSize
           THEN /\ Insert(rows) /\ stats' = Counted("fraud", rows) /\ batch' = <<>>
                /\ repeated' = repeated \cup Repeats(rows)
           ELSE batch' = rows /\ UNCHANGED <<written, stats, repeated>>
    /\ UNCHANGED <<file, reservoir, legit, imported, imports>>

\* Algorithm R: the sample is filled, then a row may take the place of any other.
LegitRow ==
    /\ file # None /\ at < Len(file) /\ file[at + 1] # Bad /\ file[at + 1].label = 0
    /\ at' = at + 1 /\ legit' = legit + 1
    /\ IF legit < SampleSize(file) THEN reservoir' = Append(reservoir, file[at + 1])
       ELSE \E j \in 1 .. legit + 1 :
              reservoir' = IF j <= SampleSize(file) THEN [reservoir EXCEPT ![j] = file[at + 1]]
                           ELSE reservoir
    /\ UNCHANGED <<file, batch, stats, written, imported, repeated, imports>>

Counts == stats.fraud + stats.legit + stats.skipped

SampledOut == IF legit > SampleSize(file) THEN legit - SampleSize(file) ELSE 0

AtEnd == file # None /\ at = Len(file)

FlushFraud ==
    /\ AtEnd /\ batch # <<>>
    /\ Insert(batch) /\ stats' = Counted("fraud", batch) /\ batch' = <<>>
    /\ repeated' = repeated \cup Repeats(batch)
    /\ UNCHANGED <<file, at, reservoir, legit, imported, imports>>

FlushLegit ==
    LET n == IF Len(reservoir) < BatchSize THEN Len(reservoir) ELSE BatchSize
        rows == SubSeq(reservoir, 1, n)
    IN  /\ AtEnd /\ batch = <<>> /\ reservoir # <<>>
        /\ Insert(rows) /\ stats' = Counted("legit", rows)
        /\ reservoir' = SubSeq(reservoir, n + 1, Len(reservoir))
        /\ repeated' = repeated \cup Repeats(rows)
        /\ UNCHANGED <<file, at, batch, legit, imported, imports>>

CommitImport ==
    /\ AtEnd /\ batch = <<>> /\ reservoir = <<>>
    /\ imported' = [txs |-> imported.txs \cup written.txs,
                    alerts |-> imported.alerts \cup written.alerts]
    /\ written' = Nothing /\ file' = None
    /\ UNCHANGED <<at, batch, reservoir, legit, stats, repeated, imports>>

\* The importer is stopped: nothing of this file stays.
ImportFails ==
    /\ file # None
    /\ file' = None /\ written' = Nothing /\ batch' = <<>> /\ reservoir' = <<>>
    /\ stats' = NoStats
    /\ UNCHANGED <<at, legit, imported, repeated, imports>>

ImportNext ==
    \/ \E f \in Files : Start(f)
    \/ SkipRow \/ FraudRow \/ LegitRow \/ FlushFraud \/ FlushLegit \/ CommitImport \/ ImportFails

ImportSpec == ImportInit /\ [][ImportNext]_importVars

-----------------------------------------------------------------------------
(* Properties                                                                *)

\* Training labels are sound: every imported transaction carries exactly one label and no
\* label stands without its transaction, though files overlap, are imported twice or are
\* broken off; only an id that one batch held twice has more.  A finished run accounts for
\* every row: sampled out, skipped or imported (import_ibm_aml_data.py:222-312, 467-518).
LabelsAreSound ==
    /\ {x.tx : x \in imported.alerts} = {t.id : t \in imported.txs}
    /\ \A t, u \in imported.txs : t.id = u.id => t = u
    /\ \A x, y \in imported.alerts : (x.tx = y.tx /\ x # y) => x.tx \in repeated
    /\ (AtEnd /\ batch = <<>> /\ reservoir = <<>>) =>
          Counts = Len(file) - SampledOut

\* Inductive strengthening of LabelsAreSound: what the session has inserted agrees with
\* what is committed, and every row that was read is counted, held or sampled out.
ImportInv ==
    /\ {x.tx : x \in imported.alerts} = {t.id : t \in imported.txs}
    /\ {x.tx : x \in written.alerts} = {t.id : t \in written.txs}
    /\ \A t, u \in imported.txs \cup written.txs : t.id = u.id => t = u
    /\ \A x, y \in imported.alerts \cup written.alerts : (x.tx = y.tx /\ x # y) => x.tx \in repeated
    /\ file # None =>
          /\ at <= Len(file)
          /\ Counts + Len(batch) + Len(reservoir) + SampledOut = at

================================================================================
