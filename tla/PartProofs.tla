------------------------------ MODULE PartProofs ------------------------------
(*****************************************************************************)
(* Theorems about four parts of the back office: GraphLayer, CustomerRecords,  *)
(* WatchlistSync and ReportFiling, for all transactions, detectors, requests,  *)
(* identities, clients, names, syncs, screenings, officers and bounds.         *)
(*****************************************************************************)
EXTENDS GraphLayer, CustomerRecords, WatchlistSync, ReportFiling, FiniteSetTheorems,
        WellFoundedInduction, TLAPS

-----------------------------------------------------------------------------
(* The graph: guilt                                                           *)

GraphInv == GraphTypeOK /\ GuiltInv /\ RingInv /\ RingIsRaisedOnce

\* A transaction that was upserted has its edges.
LEMMA UpsertWrites ==
    ASSUME GraphTypeOK, NEW t \in Transactions, Upsert(t)
    PROVE  /\ shares \subseteq shares' /\ pays \subseteq pays'
           /\ Written(t)'
           /\ shares' \subseteq Accounts \X Devices /\ pays' \subseteq Accounts \X Accounts
           /\ \A e \in shares' : e \in shares \/ (e[1] = t.account /\ e[2] = t.device)
<1>1. t.account \in Accounts /\ (t.device # None => t.device \in Devices)
      /\ (t.to # None => t.to \in Accounts)
    BY DEF Accounts, Devices
<1>2. shares' = shares \cup {e \in {<<t.account, t.device>>} : t.device # None}
      /\ pays' = pays \cup {e \in {<<t.account, t.to>>} : t.to # None}
    BY DEF Upsert
<1>3. shares' \subseteq Accounts \X Devices /\ pays' \subseteq Accounts \X Accounts
    BY <1>1, <1>2 DEF GraphTypeOK
<1> QED
    BY <1>2, <1>3 DEF Written

\* Edges, flags and rows only come.
LEMMA GraphGrows ==
    ASSUME GraphTypeOK, [GuiltNext \/ RingNext]_graphVars
    PROVE  /\ stored \subseteq stored' /\ stored' \subseteq Transactions
           /\ shares \subseteq shares' /\ pays \subseteq pays' /\ bad \subseteq bad'
<1> USE DEF GraphTypeOK
<1>1. ASSUME NEW t \in Transactions, Store(t) \/ Analysed(t) \/ Decide(t) \/ BackfillUpserts(t)
      PROVE  /\ stored \subseteq stored' /\ stored' \subseteq Transactions
             /\ shares \subseteq shares' /\ pays \subseteq pays' /\ bad \subseteq bad'
    BY <1>1, UpsertWrites DEF Store, Analysed, Decide, BackfillUpserts
<1>2. ASSUME NEW a \in Accounts, BackfillFlags(a)
      PROVE  bad \subseteq bad' /\ UNCHANGED <<stored, shares, pays>>
    BY <1>2 DEF BackfillFlags
<1>3. ASSUME \/ BackfillReads \/ BackfillEnds \/ BackfillFails
             \/ \E d \in Detectors :
                   \/ Scan(d) \/ CommitRings(d) \/ DetectorFails(d)
                   \/ \E c \in detector[d].todo : Judge(d, c)
             \/ \E x \in rings : ReviewRing(x) \/ \E confirmed \in BOOLEAN : CloseRing(x, confirmed)
      PROVE  UNCHANGED <<stored, shares, pays, bad>>
    BY <1>3 DEF BackfillReads, BackfillEnds, BackfillFails, Scan, CommitRings, DetectorFails, Judge,
                ReviewRing, CloseRing
<1>4. CASE UNCHANGED graphVars
    BY <1>4 DEF graphVars
<1> QED
    BY <1>1, <1>2, <1>3, <1>4 DEF GuiltNext, RingNext

\* A backfill writes what it has read, edges before flags.
LEMMA GuiltStep ==
    ASSUME GraphTypeOK, GuiltInv, [GuiltNext \/ RingNext]_graphVars
    PROVE  GuiltInv'
<1>1. /\ \A t : Written(t) => Written(t)'
      /\ bad \subseteq bad'
    BY GraphGrows DEF Written
<1>2. CASE UNCHANGED <<backfill, filled>>
    BY <1>1, <1>2 DEF GuiltInv
<1>3. ASSUME NEW t \in Transactions, BackfillUpserts(t) PROVE GuiltInv'
    <2>1. /\ backfill' = [backfill EXCEPT !.todo = backfill.todo \ {t}] /\ Upsert(t)
          /\ filled' = filled
        BY <1>3 DEF BackfillUpserts
    <2>2. backfill'.todo = backfill.todo \ {t} /\ backfill'.read = backfill.read
          /\ backfill'.flags = backfill.flags /\ backfill'.confirmed = backfill.confirmed
          /\ backfill'.step = backfill.step
        BY <2>1 DEF GraphTypeOK
    <2>3. Written(t)'
        BY <2>1, UpsertWrites
    <2> QED
        BY <1>1, <2>1, <2>2, <2>3 DEF GuiltInv
<1>4. ASSUME NEW a \in Accounts, BackfillFlags(a) PROVE GuiltInv'
    <2>1. /\ backfill' = [backfill EXCEPT !.flags = backfill.flags \ {a}] /\ bad' = bad \cup {a}
          /\ filled' = filled
        BY <1>4 DEF BackfillFlags
    <2>2. backfill'.todo = backfill.todo /\ backfill'.read = backfill.read
          /\ backfill'.flags = backfill.flags \ {a} /\ backfill'.confirmed = backfill.confirmed
          /\ backfill'.step = backfill.step
        BY <2>1 DEF GraphTypeOK
    <2> QED
        BY <1>1, <2>1, <2>2 DEF GuiltInv
<1>5. CASE BackfillReads
    <2>1. /\ backfill'.step = "write" /\ backfill'.todo = backfill'.read
          /\ backfill'.flags = backfill'.confirmed /\ filled' = filled
        BY <1>5 DEF BackfillReads
    <2> QED
        BY <1>1, <2>1 DEF GuiltInv
<1>6. CASE BackfillEnds
    BY <1>1, <1>6 DEF BackfillEnds, GuiltInv
<1>7. CASE BackfillFails
    BY <1>1, <1>7 DEF BackfillFails, GuiltInv
<1>8. ASSUME \/ \E t \in Transactions : Store(t) \/ Analysed(t) \/ Decide(t)
             \/ RingNext \/ UNCHANGED graphVars
      PROVE  UNCHANGED <<backfill, filled>>
    BY <1>8 DEF Store, Analysed, Decide, RingNext, Scan, CommitRings, DetectorFails, Judge, ReviewRing,
                CloseRing, graphVars
<1> QED
    BY <1>2, <1>3, <1>4, <1>5, <1>6, <1>7, <1>8 DEF GuiltNext

\* What is a hop away, what is two hops away by a device, and that more hops lose nothing.
LEMMA BallIs ==
    ASSUME NEW a, Hops \in 2 .. 3
    PROVE  /\ Adjacent(a) \subseteq Ball(a, 1) /\ Ball(a, 1) \subseteq Ball(a, Hops)
           /\ Ball(a, 2) \subseteq Ball(a, Hops)
           /\ \A d \in Adjacent(a) : Adjacent(d) \subseteq Ball(a, 2)
<1> DEFINE once == Adjacent(a)
           twice == once \cup UNION {Adjacent(x) : x \in once}
           thrice == twice \cup UNION {Adjacent(x) : x \in twice}
<1>1. Ball(a, 1) = once /\ Ball(a, 2) = twice /\ Ball(a, 3) = thrice
    BY DEF Ball
<1> HIDE DEF once
<1>2. once \subseteq twice /\ twice \subseteq thrice /\ \A d \in once : Adjacent(d) \subseteq twice
    OBVIOUS
<1> HIDE DEF twice, thrice
<1>3. Hops = 2 \/ Hops = 3
    OBVIOUS
<1> QED
    BY <1>1, <1>2, <1>3 DEF once

\* The accounts are finitely many.
LEMMA AccountsFinite == IsFiniteSet(Accounts)
<1> DEFINE f == [t \in Transactions |-> t.account]
           g == [t \in Transactions |-> t.to]
           A == {t.account : t \in Transactions}
           B == {t.to : t \in Transactions}
<1>1. f \in Surjection(Transactions, A) /\ g \in Surjection(Transactions, B)
    BY DEF Surjection
<1>2. Accounts = A \cup (B \ {None})
    BY DEF Accounts
<1> HIDE DEF f, g, A, B
<1>3. IsFiniteSet(A) /\ IsFiniteSet(B)
    BY <1>1, GraphAssumption, FS_Surjection
<1>4. IsFiniteSet(B \ {None})
    BY <1>3, FS_Difference
<1> QED
    BY <1>2, <1>3, <1>4, FS_Union

\* A bad account within two hops makes the score more than 30.
LEMMA ScoreIs ==
    ASSUME NEW a, Hops \in 2 .. 3, BadWithin(a, 1) \/ BadWithin(a, 2)
    PROVE  GraphScore(a) > 30
<1>1. BadWithin(a, Hops)
    BY BallIs DEF BadWithin
<1>2. Fan(a) \subseteq Accounts
    BY DEF Fan
<1>3. Cardinality(Fan(a)) \in Nat
    BY <1>2, AccountsFinite, FS_Subset, FS_CardinalityType
<1> DEFINE distance == IF BadWithin(a, 1) THEN 1 ELSE IF BadWithin(a, 2) THEN 2 ELSE 3
           shared == IF Cardinality(Fan(a)) >= 10 THEN 30 ELSE 3 * Cardinality(Fan(a))
<1>4. distance = 1 \/ distance = 2
    OBVIOUS
<1>5. GraphScore(a) = (70 - (70 * (distance - 1)) \div Hops) + shared
    BY <1>1 DEF GraphScore
<1>6. shared \in Nat
    BY <1>3
<1> HIDE DEF distance, shared
<1>7. (70 * (distance - 1)) \div Hops \in 0 .. 35
    <2>1. CASE distance = 1 /\ Hops = 2
        <3>1. 0 \div 2 = 0
            OBVIOUS
        <3> QED
            BY <2>1, <3>1
    <2>2. CASE distance = 1 /\ Hops = 3
        <3>1. 0 \div 3 = 0
            OBVIOUS
        <3> QED
            BY <2>2, <3>1
    <2>3. CASE distance = 2 /\ Hops = 2
        <3>1. 70 \div 2 = 35
            OBVIOUS
        <3> QED
            BY <2>3, <3>1
    <2>4. CASE distance = 2 /\ Hops = 3
        <3>1. 70 \div 3 = 23
            OBVIOUS
        <3> QED
            BY <2>4, <3>1
    <2> QED
        BY <1>4, <2>1, <2>2, <2>3, <2>4
<1> QED
    BY <1>5, <1>6, <1>7

\* With edges and flags written, the neighbour of a bad account is two hops away at most.
LEMMA GuiltFollows ==
    ASSUME GuiltInv, GraphTypeOK, Hops \in 2 .. 3
    PROVE  GuiltIsSeen
<1> SUFFICES ASSUME NEW t \in filled.read, NEW u \in filled.read, t.account # u.account,
                    u.account \in filled.confirmed,
                    t.to = u.account \/ u.to = t.account \/ (t.device = u.device /\ t.device # None)
             PROVE  GraphScore(t.account) > 30
    BY DEF GuiltIsSeen
<1> DEFINE a == t.account
           b == u.account
<1>1. b \in bad /\ Written(t) /\ Written(u) /\ a \in Accounts /\ b \in Accounts
    BY DEF GuiltInv, GraphTypeOK, Accounts
<1>2. CASE t.to = b /\ b # None
    <2>1. <<a, b>> \in pays
        BY <1>1, <1>2 DEF Written
    <2>2. b \in Adjacent(a)
        BY <2>1 DEF Adjacent
    <2>3. BadWithin(a, 1)
        BY <1>1, <2>2, BallIs DEF BadWithin
    <2> QED
        BY <2>3, ScoreIs
<1>3. CASE u.to = a /\ a # None
    <2>1. <<b, a>> \in pays
        BY <1>1, <1>3 DEF Written
    <2>2. b \in Adjacent(a)
        BY <2>1 DEF Adjacent
    <2>3. BadWithin(a, 1)
        BY <1>1, <2>2, BallIs DEF BadWithin
    <2> QED
        BY <2>3, ScoreIs
<1>4. CASE t.device = u.device /\ t.device # None
    <2>1. <<a, t.device>> \in shares /\ <<b, t.device>> \in shares
        BY <1>1, <1>4 DEF Written
    <2>2. t.device \in Adjacent(a) /\ b \in Adjacent(t.device)
        BY <2>1 DEF Adjacent
    <2>3. BadWithin(a, 2)
        BY <1>1, <2>2, BallIs DEF BadWithin
    <2> QED
        BY <2>3, ScoreIs
<1>5. b # None /\ a # None
    BY GraphAssumption DEF GraphTypeOK
<1> QED
    BY <1>2, <1>3, <1>4, <1>5

-----------------------------------------------------------------------------
(* The graph: rings                                                           *)

\* Of some transactions one is the latest: the one that the fewest follow.
LEMMA LatestExists ==
    ASSUME NEW S \in SUBSET Transactions, S # {}
    PROVE  \E t \in S : \A u \in S : u.nr <= t.nr
<1> DEFINE After(t) == {u \in S : u.nr > t.nr}
           P == {After(t) : t \in S}
<1>1. IsFiniteSet(S) /\ \A t \in S : t.nr \in Nat
    BY GraphAssumption, FS_Subset
<1>2. P # {} /\ P \subseteq SUBSET S
    OBVIOUS
<1>3. P \subseteq FiniteSubsetsOf(S)
    BY <1>1, <1>2, FS_Subset DEF FiniteSubsetsOf
<1>4. PICK x \in P : \A y \in P : ~(<<y, x>> \in StrictSubsetOrdering(S))
    <2> HIDE DEF P
    <2> QED
        BY <1>2, <1>3, FS_StrictSubsetOrderingWellFounded, WFMin
<1>5. PICK t \in S : x = After(t)
    OBVIOUS
<1>6. SUFFICES ASSUME NEW u \in S, ~(u.nr <= t.nr) PROVE FALSE
    BY <1>5
<1>7. After(u) \subseteq After(t) /\ u \in After(t) /\ u \notin After(u)
    BY <1>1, <1>6
<1>8. <<After(u), x>> \in StrictSubsetOrdering(S)
    BY <1>5, <1>7 DEF StrictSubsetOrdering
<1> QED
    BY <1>4, <1>8

\* The accounts that used a device are finitely many, and with the rows they only grow.
LEMMA UsersFinite ==
    ASSUME stored \subseteq Transactions, NEW d
    PROVE  IsFiniteSet(Users(d)) /\ Cardinality(Users(d)) \in Nat
<1>1. Users(d) \subseteq Accounts
    BY DEF Users, Accounts
<1> QED
    BY <1>1, AccountsFinite, FS_Subset, FS_CardinalityType

\* With the rows the accounts of a device only grow, and so does their number.
LEMMA UsersGrow ==
    ASSUME stored \subseteq stored', stored' \subseteq Transactions, NEW d
    PROVE  /\ Users(d) \subseteq Users(d)'
           /\ Cardinality(Users(d)) \in Nat /\ Cardinality(Users(d))' \in Nat
           /\ Cardinality(Users(d)) <= Cardinality(Users(d))'
<1>1. Users(d) \subseteq Users(d)'
    BY DEF Users
<1>2. Users(d)' \subseteq Accounts
    BY DEF Users, Accounts
<1>3. IsFiniteSet(Users(d)')
    BY <1>2, AccountsFinite, FS_Subset
<1> QED
    BY <1>1, <1>3, FS_Subset, FS_CardinalityType

\* A cluster's accounts used its device in committed transactions.
LEMMA ClusterIs ==
    ASSUME GraphTypeOK, RingInv, NEW c \in Clusters
    PROVE  /\ c \in Cluster /\ c.accounts = Holders(c.device)
           /\ c.accounts \subseteq Users(c.device) /\ Cardinality(c.accounts) >= MinRing
<1>1. PICK d \in Devices : c = [device |-> d, accounts |-> Holders(d)] /\ Cardinality(Holders(d)) >= MinRing
    BY DEF Clusters
<1>2. Holders(d) \subseteq Users(d) /\ Holders(d) \subseteq Accounts
    BY DEF RingInv, Holders
<1> QED
    BY <1>1, <1>2 DEF Cluster

\* A cluster that is to be judged has a fan of its own size and a transaction to point at.
LEMMA JudgeFinds ==
    ASSUME GraphTypeOK, RingInv, NEW d \in Detectors, NEW c \in detector[d].todo
    PROVE  /\ Cardinality(c.accounts) \in MinRing .. Cardinality(Users(c.device))
           /\ Cardinality(c.accounts) \in Nat /\ c.device \in Devices
           /\ (CHOOSE t \in stored : /\ t.account \in c.accounts
                     /\ \A u \in stored : u.account \in c.accounts => u.nr <= t.nr) \in stored
<1>1. /\ c \in Cluster /\ c.accounts \subseteq Users(c.device)
      /\ Cardinality(c.accounts) >= MinRing
    BY DEF GraphTypeOK, Run, RingInv, DetectorInv
<1>2. IsFiniteSet(Users(c.device)) /\ Cardinality(Users(c.device)) \in Nat
    BY UsersFinite DEF GraphTypeOK
<1>3. /\ IsFiniteSet(c.accounts) /\ Cardinality(c.accounts) \in Nat
      /\ Cardinality(c.accounts) <= Cardinality(Users(c.device))
    BY <1>1, <1>2, FS_Subset, FS_CardinalityType
<1>4. c.accounts # {}
    BY <1>1, <1>3, GraphAssumption, FS_EmptySet
<1> DEFINE S == {t \in stored : t.account \in c.accounts}
<1>5. S # {} /\ S \in SUBSET Transactions
    BY <1>1, <1>4 DEF Users, GraphTypeOK
<1>6. PICK t \in S : \A u \in S : u.nr <= t.nr
    BY <1>5, LatestExists
<1>7. t \in stored /\ t.account \in c.accounts /\ \A u \in stored : u.account \in c.accounts => u.nr <= t.nr
    BY <1>6
<1>8. c.device \in Devices
    BY <1>1 DEF Cluster
<1>9. Cardinality(c.accounts) \in MinRing .. Cardinality(Users(c.device))
    BY <1>1, <1>2, <1>3, GraphAssumption
<1> QED
    BY <1>3, <1>7, <1>8, <1>9

\* What is raised at once can be numbered.
LEMMA NumbersExist ==
    ASSUME NEW S, IsFiniteSet(S), NEW n \in Nat
    PROVE  \E f \in [S -> n + 1 .. n + Cardinality(S)] : \A x, y \in S : f[x] = f[y] => x = y
<1> DEFINE k == Cardinality(S)
           first == n + 1
           last == n + k
           T == first .. last
<1>1. k \in Nat
    BY FS_CardinalityType
<1>2. IsFiniteSet(T) /\ Cardinality(T) = k
    <2> HIDE DEF k
    <2>1. first \in Int /\ last \in Int /\ (IF first > last THEN 0 ELSE last - first + 1) = k
        BY <1>1
    <2> HIDE DEF first, last
    <2> QED
        BY <2>1, FS_Interval
<1>3. ExistsBijection(S, T)
    BY <1>2, FS_SameCardinalityBij
<1>4. PICK f : f \in Bijection(S, T)
    BY <1>3 DEF ExistsBijection
<1> QED
    BY <1>4 DEF Bijection, Injection, IsInjective

\* What rows, edges and the other task do leaves the rings as they were.
LEMMA RingsKept ==
    ASSUME GraphTypeOK, RingInv, RingIsRaisedOnce, UNCHANGED <<rings, detector>>,
           stored \subseteq stored', stored' \subseteq Transactions,
           \A e \in shares' : e \in shares \/ e[1] \in Users(e[2])'
    PROVE  RingInv' /\ RingIsRaisedOnce'
<1>1. ASSUME NEW d
      PROVE  /\ Users(d) \subseteq Users(d)'
             /\ Cardinality(Users(d)) \in Nat /\ Cardinality(Users(d))' \in Nat
             /\ Cardinality(Users(d)) <= Cardinality(Users(d))'
    BY UsersGrow
<1>2. RingIsRaisedOnce'
    <2>1. ASSUME NEW x \in rings PROVE (x.fan \in MinRing .. Cardinality(Users(x.device)))'
        BY <1>1 DEF RingIsRaisedOnce
    <2> QED
        BY <2>1 DEF RingIsRaisedOnce
<1>3. ASSUME NEW d \in Detectors PROVE DetectorInv(d)'
    <2>1. DetectorInv(d)
        BY DEF RingInv
    <2>2. ASSUME NEW c \in detector[d].todo PROVE (c.accounts \subseteq Users(c.device))'
        BY <1>1, <2>1 DEF DetectorInv
    <2>3. ASSUME NEW n \in detector[d].new
          PROVE  (n.fan \in MinRing .. Cardinality(Users(n.device)) /\ n.tx \in stored)'
        <3>1. n.fan \in MinRing .. Cardinality(Users(n.device)) /\ n.tx \in stored
            BY <2>1 DEF DetectorInv
        <3> QED
            BY <1>1, <3>1
    <2> QED
        BY <2>1, <2>2, <2>3 DEF DetectorInv
<1>4. \A e \in shares' : (e[1] \in Users(e[2]))'
    BY <1>1 DEF RingInv
<1> QED
    BY <1>2, <1>3, <1>4 DEF RingInv

\* A step of one run is about what that run holds.
LEMMA RunKept ==
    ASSUME RingInv, RingIsRaisedOnce, UNCHANGED <<stored, shares, rings>>,
           NEW d \in Detectors, NEW run, detector' = [detector EXCEPT ![d] = run],
           DetectorInv(d)'
    PROVE  RingInv' /\ RingIsRaisedOnce'
<1>1. ASSUME NEW o \in Detectors, o # d PROVE DetectorInv(o)'
    <2>1. detector'[o] = detector[o]
        BY <1>1
    <2>2. DetectorInv(o) /\ \A x : Users(x)' = Users(x)
        BY DEF RingInv, Users
    <2> QED
        BY <2>1, <2>2 DEF DetectorInv
<1>2. \A x : Users(x)' = Users(x)
    BY DEF Users
<1> QED
    BY <1>1, <1>2 DEF RingInv, RingIsRaisedOnce

\* A run that has ended holds nothing.
LEMMA RunEnds ==
    ASSUME NEW d \in Detectors, detector'[d] = Idle
    PROVE  DetectorInv(d)'
<1>1. detector'[d].todo = {} /\ detector'[d].new = {}
    BY DEF Idle
<1>2. IsFiniteSet({})
    BY FS_EmptySet
<1> QED
    BY <1>1, <1>2 DEF DetectorInv

\* A run starts with clusters of committed edges, one for each device.
LEMMA ScanStep ==
    ASSUME GraphTypeOK, RingInv, RingIsRaisedOnce, NEW d \in Detectors, Scan(d)
    PROVE  RingInv' /\ RingIsRaisedOnce'
<1> DEFINE run == [step |-> "judge", todo |-> Clusters, new |-> {}, late |-> FALSE]
<1>1. detector' = [detector EXCEPT ![d] = run] /\ UNCHANGED <<stored, shares, rings>>
    BY DEF Scan
<1>2. detector'[d] = run
    BY <1>1 DEF GraphTypeOK
<1>3. /\ detector'[d].step = "judge" /\ detector'[d].todo = Clusters /\ detector'[d].new = {}
    BY <1>2
<1>4. \A c \in Clusters : /\ c.accounts = Holders(c.device)
                          /\ c.accounts \subseteq Users(c.device) /\ Cardinality(c.accounts) >= MinRing
    BY ClusterIs
<1>5. \A c, e \in Clusters : c.device = e.device => c = e
    BY DEF Clusters
<1>6. \A x : Users(x)' = Users(x)
    BY <1>1 DEF Users
<1>7. IsFiniteSet({})
    BY FS_EmptySet
<1> HIDE DEF run
<1>8. DetectorInv(d)'
    BY <1>3, <1>4, <1>5, <1>6, <1>7 DEF DetectorInv
<1> QED
    BY <1>1, <1>8, RunKept

\* A judged cluster without an open alert becomes a new one, in the place of the cluster.
LEMMA JudgeStep ==
    ASSUME GraphTypeOK, RingInv, RingIsRaisedOnce, NEW d \in Detectors, NEW c \in detector[d].todo,
           Judge(d, c)
    PROVE  RingInv' /\ RingIsRaisedOnce'
<1> DEFINE latest == CHOOSE t \in stored : /\ t.account \in c.accounts
                     /\ \A u \in stored : u.account \in c.accounts => u.nr <= t.nr
           new == [device |-> c.device, fan |-> Cardinality(c.accounts), tx |-> latest]
           held == IF Open(c) THEN detector[d].new ELSE detector[d].new \cup {new}
           run == [detector[d] EXCEPT !.todo = detector[d].todo \ {c}, !.new = held]
<1>1. detector' = [detector EXCEPT ![d] = run] /\ UNCHANGED <<stored, shares, rings>>
      /\ detector[d].step = "judge"
    BY DEF Judge
<1>2. /\ Cardinality(c.accounts) \in MinRing .. Cardinality(Users(c.device)) /\ latest \in stored
    BY JudgeFinds
<1>3. new.device = c.device /\ new.fan = Cardinality(c.accounts) /\ new.tx = latest
    OBVIOUS
<1>4. detector'[d] = run /\ detector[d] \in Run
    BY <1>1 DEF GraphTypeOK
<1>5. /\ detector'[d].step = "judge" /\ detector'[d].late = detector[d].late
      /\ detector'[d].todo = detector[d].todo \ {c} /\ detector'[d].new = held
    <2> DEFINE r == detector[d]
               left == detector[d].todo \ {c}
               n == [r EXCEPT !.todo = left, !.new = held]
    <2>1. r \in Run /\ run = n
        BY <1>4
    <2> HIDE DEF r, left, held
    <2>2. n.step = r.step /\ n.late = r.late /\ n.todo = left /\ n.new = held
        BY <2>1 DEF Run
    <2> HIDE DEF n, run
    <2> QED
        BY <1>1, <1>4, <2>1, <2>2 DEF r, left
<1>6. DetectorInv(d)
    BY DEF RingInv
<1> HIDE DEF latest, new, run
<1>7. IsFiniteSet(held)
    BY <1>6, FS_AddElement DEF DetectorInv
<1>8. held \subseteq detector[d].new \cup {new} /\ (new \in held => new \in detector[d].new \/ ~Open(c))
    OBVIOUS
<1>9. \A x : Users(x)' = Users(x)
    BY <1>1 DEF Users
<1> HIDE DEF held
<1>10. \A n \in held : n.fan \in MinRing .. Cardinality(Users(n.device)) /\ n.tx \in stored
    BY <1>2, <1>3, <1>6, <1>8 DEF DetectorInv
<1>11. \A n, m \in held : n.device = m.device => n = m
    BY <1>3, <1>6, <1>8 DEF DetectorInv
<1>12. \A n \in held, e \in detector[d].todo \ {c} : n.device # e.device
    BY <1>3, <1>6, <1>8 DEF DetectorInv
<1>13. ASSUME ~detector[d].late, NEW n \in held, NEW x \in rings,
              x.device = n.device, x.fan = n.fan
       PROVE  x.status = "closed"
    <2>1. CASE n \in detector[d].new
        BY <1>6, <1>13, <2>1 DEF DetectorInv
    <2>2. CASE n = new /\ ~Open(c)
        BY <1>3, <1>13, <2>2 DEF Open, GraphTypeOK, Ring
    <2> QED
        BY <1>8, <2>1, <2>2
<1>14. DetectorInv(d)'
    BY <1>1, <1>5, <1>6, <1>7, <1>9, <1>10, <1>11, <1>12, <1>13 DEF DetectorInv
<1> QED
    BY <1>1, <1>14, RunKept

\* A commit numbers what it adds from the count on, so the numbers stay distinct, and
\* what it adds is open beside an equal title only if another run crossed this one.
LEMMA CommitRingsStep ==
    ASSUME GraphTypeOK, RingInv, RingIsRaisedOnce, NEW d \in Detectors, CommitRings(d)
    PROVE  RingInv' /\ RingIsRaisedOnce' /\ rings' \subseteq Ring
           /\ (\A x \in rings' : x.tx \in stored) /\ detector' \in [Detectors -> Run]
<1> DEFINE n == Cardinality(rings)
           new == detector[d].new
           last == n + Cardinality(new)
           f == CHOOSE g \in [new -> n + 1 .. last] : \A x, y \in new : g[x] = g[y] => x = y
           row(x) == [nr |-> f[x], device |-> x.device, fan |-> x.fan, tx |-> x.tx,
                      status |-> "pending", late |-> detector[d].late]
           added == {row(x) : x \in new}
<1>1. /\ rings' = rings \cup added /\ last <= MaxRings
      /\ detector' = [o \in Detectors |->
               IF o = d THEN Idle
               ELSE [detector[o] EXCEPT !.late = detector[o].late \/ (detector[o].step = "judge" /\ detector[d].new # {})]]
      /\ UNCHANGED <<stored, shares>>
    BY DEF CommitRings
<1>2. DetectorInv(d) /\ detector[d] \in Run /\ IsFiniteSet(rings) /\ IsFiniteSet(new)
    BY DEF RingInv, GraphTypeOK, DetectorInv
<1>3. n \in Nat /\ Cardinality(new) \in Nat
    BY <1>2, FS_CardinalityType
<1>4. f \in [new -> n + 1 .. last] /\ \A x, y \in new : f[x] = f[y] => x = y
    <2>1. \E g \in [new -> n + 1 .. last] : \A x, y \in new : g[x] = g[y] => x = y
        BY <1>2, <1>3, NumbersExist
    <2> HIDE DEF last, new
    <2> QED
        BY <2>1
<1> HIDE DEF f
<1>5. \A x \in new : f[x] \in Nat /\ f[x] > n /\ f[x] <= last
    BY <1>3, <1>4
<1>6. \A x \in new : /\ x \in NewRing /\ x.tx \in stored
                     /\ x.fan \in MinRing .. Cardinality(Users(x.device))
    BY <1>2 DEF DetectorInv, Run
<1>7. \A x \in new : /\ row(x).nr = f[x] /\ row(x).device = x.device /\ row(x).fan = x.fan
                     /\ row(x).tx = x.tx /\ row(x).status = "pending" /\ row(x).late = detector[d].late
    OBVIOUS
<1>8. \A x \in new : row(x) \in Ring
    <2> SUFFICES ASSUME NEW x \in new PROVE row(x) \in Ring
        OBVIOUS
    <2>1. f[x] \in 1 .. MaxRings
        BY <1>1, <1>3, <1>5, GraphAssumption
    <2>2. detector[d].late \in BOOLEAN
        BY <1>2 DEF Run
    <2> QED
        BY <1>6, <2>1, <2>2 DEF Ring, NewRing
<1>9. IsFiniteSet(added) /\ Cardinality(added) = Cardinality(new)
    <2> DEFINE b == [x \in new |-> row(x)]
    <2>1. \A x, y \in new : row(x) = row(y) => x = y
        BY <1>4, <1>7
    <2> HIDE DEF row, new
    <2>2. b \in Bijection(new, added)
        BY <2>1 DEF Bijection, Injection, Surjection, IsInjective
    <2> QED
        BY <1>2, <2>2, FS_Bijection DEF ExistsBijection
<1> HIDE DEF row
<1>10. \A y \in added : \E x \in new : /\ y.nr = f[x] /\ y.device = x.device /\ y.fan = x.fan
             /\ y.tx = x.tx /\ y.status = "pending" /\ y.late = detector[d].late /\ y \in Ring
    BY <1>7, <1>8
<1>11. \A x, y \in added : x.nr = y.nr \/ x.device = y.device => x = y
    <2> SUFFICES ASSUME NEW x \in new, NEW y \in new,
                        f[x] = f[y] \/ x.device = y.device PROVE x = y
        BY <1>7
    <2> QED
        BY <1>2, <1>4 DEF DetectorInv
<1>12. \A x \in rings : x.nr <= n /\ x \in Ring /\ x.nr \in Nat
    BY DEF RingInv, GraphTypeOK, Ring
<1> HIDE DEF added
<1>13. \A y \in added : y.nr \in Nat /\ y.nr > n /\ y.nr <= last
    BY <1>5, <1>10
<1>14. IsFiniteSet(rings') /\ Cardinality(rings') = last
    <2>1. rings \cap added = {}
        BY <1>3, <1>12, <1>13
    <2>2. Cardinality(rings \cap added) = 0
        BY <2>1, FS_EmptySet, Zenon
    <2>3. IsFiniteSet(rings \cup added)
          /\ Cardinality(rings \cup added) = n + Cardinality(added) - Cardinality(rings \cap added)
        BY <1>2, <1>9, FS_Union
    <2>4. Cardinality(rings \cup added) = last
        <3> HIDE DEF n, new
        <3> QED
            BY <1>3, <1>9, <2>2, <2>3
    <2>5. rings' = rings \cup added
        BY <1>1
    <2> HIDE DEF last
    <2> QED
        BY <2>3, <2>4, <2>5, Zenon
<1>15. \A x : Users(x)' = Users(x)
    BY <1>1 DEF Users
<1>16. /\ \A x \in rings' : x.nr <= Cardinality(rings')
       /\ \A x, y \in rings' : x.nr = y.nr => x = y
    <2>1. \A x \in rings' : x.nr <= last
        BY <1>1, <1>3, <1>12, <1>13
    <2>2. \A x, y \in rings : x.nr = y.nr => x = y
        BY DEF RingInv
    <2>3. \A x, y \in rings' : x.nr = y.nr => x = y
        BY <1>1, <1>3, <1>11, <1>12, <1>13, <2>2
    <2> QED
        BY <1>14, <2>1, <2>3
<1>17. ASSUME NEW o \in Detectors PROVE DetectorInv(o)'
    <2>1. CASE o = d
        BY <1>1, <2>1, RunEnds
    <2>2. CASE o # d
        <3>1. detector'[o] = [detector[o] EXCEPT !.late = detector[o].late \/ (detector[o].step = "judge" /\ new # {})]
            BY <1>1, <2>2
        <3>2. DetectorInv(o) /\ detector[o] \in Run
            BY DEF RingInv, GraphTypeOK
        <3>3. /\ detector'[o].step = detector[o].step /\ detector'[o].todo = detector[o].todo
              /\ detector'[o].new = detector[o].new
              /\ detector'[o].late = (detector[o].late \/ (detector[o].step = "judge" /\ new # {}))
            BY <3>1, <3>2 DEF Run
        <3>4. detector[o].step = "idle" \/ detector[o].step = "judge"
            BY <3>2 DEF Run
        <3>5. ASSUME ~detector'[o].late, NEW m \in detector'[o].new, NEW x \in rings',
                     x.device = m.device, x.fan = m.fan
              PROVE  x.status = "closed"
            <4>1. detector[o].step = "judge" /\ ~detector[o].late /\ m \in detector[o].new
                BY <3>2, <3>3, <3>4, <3>5 DEF DetectorInv
            <4>2. new = {}
                BY <3>3, <3>5, <4>1
            <4>3. x \in rings
                BY <1>1, <1>10, <4>2
            <4> QED
                BY <3>2, <3>5, <4>1, <4>3 DEF DetectorInv
        <3> QED
            BY <1>1, <1>15, <3>2, <3>3, <3>5 DEF DetectorInv
    <2> QED
        BY <2>1, <2>2
<1>18. RingInv'
    BY <1>1, <1>14, <1>15, <1>16, <1>17 DEF RingInv
<1>19. ASSUME NEW x \in rings', NEW y \in rings', x.nr < y.nr, x.status # "closed",
              y.status # "closed", x.device = y.device, x.fan = y.fan
       PROVE  y.late
    <2>1. CASE x \in rings /\ y \in rings
        BY <1>19, <2>1 DEF RingIsRaisedOnce
    <2>2. CASE x \in added /\ y \in rings
        BY <1>3, <1>12, <1>13, <1>19, <2>2
    <2>3. CASE x \in added /\ y \in added
        BY <1>11, <1>13, <1>19, <2>3
    <2>4. CASE x \in rings /\ y \in added
        <3>1. PICK m \in new : m.device = y.device /\ m.fan = y.fan /\ y.late = detector[d].late
            BY <1>10, <2>4
        <3> QED
            BY <1>2, <1>19, <2>4, <3>1 DEF DetectorInv
    <2> QED
        BY <1>1, <2>1, <2>2, <2>3, <2>4
<1>20. RingIsRaisedOnce'
    <2>1. ASSUME NEW x \in rings' PROVE x.fan \in MinRing .. Cardinality(Users(x.device)')
        BY <1>1, <1>6, <1>10, <1>15 DEF RingIsRaisedOnce
    <2> QED
        BY <1>19, <2>1 DEF RingIsRaisedOnce
<1>21. rings' \subseteq Ring /\ \A x \in rings' : x.tx \in stored
    BY <1>1, <1>6, <1>10 DEF GraphTypeOK
<1>22. detector' \in [Detectors -> Run]
    <2> SUFFICES ASSUME NEW o \in Detectors PROVE detector'[o] \in Run
        BY <1>1
    <2>1. Idle \in Run
        BY DEF Idle, Run
    <2>2. detector[o] \in Run
        BY DEF GraphTypeOK
    <2>3. [detector[o] EXCEPT !.late = detector[o].late \/ (detector[o].step = "judge" /\ detector[d].new # {})] \in Run
        BY <2>2 DEF Run
    <2> QED
        BY <1>1, <2>1, <2>3
<1> QED
    BY <1>18, <1>20, <1>21, <1>22

\* An analyst's step keeps an alert's number and title.
LEMMA RingAdvances ==
    ASSUME GraphTypeOK, RingInv, RingIsRaisedOnce, UNCHANGED <<stored, shares, detector>>,
           NEW x \in rings, x.status # "closed", NEW status \in {"under_review", "closed"},
           rings' = (rings \ {x}) \cup {[x EXCEPT !.status = status]}
    PROVE  RingInv' /\ RingIsRaisedOnce' /\ rings' \subseteq Ring /\ \A y \in rings' : y.tx \in stored
<1> DEFINE z == [x EXCEPT !.status = status]
<1>1. /\ z \in Ring /\ z.nr = x.nr /\ z.device = x.device /\ z.fan = x.fan /\ z.tx = x.tx
      /\ z.late = x.late /\ z.status = status
    BY DEF GraphTypeOK, Ring
<1>2. rings' = (rings \ {x}) \cup {z}
    OBVIOUS
<1> HIDE DEF z
<1>3. \A y \in rings' : \E o \in rings :
         /\ o.nr = y.nr /\ o.device = y.device /\ o.fan = y.fan /\ o.tx = y.tx /\ o.late = y.late
         /\ y.status # "closed" => o.status # "closed"
    BY <1>1, <1>2
<1>4. \A w : Users(w)' = Users(w)
    BY DEF Users
<1>5. \A y, w \in rings' : y.nr = w.nr => y = w
    BY <1>1, <1>2 DEF RingInv
<1>6. IsFiniteSet(rings') /\ Cardinality(rings') = Cardinality(rings)
    <2>1. z \notin rings \ {x}
        BY <1>1 DEF RingInv
    <2>2. IsFiniteSet(rings) /\ Cardinality(rings) \in Nat
        BY FS_CardinalityType DEF RingInv
    <2>3. IsFiniteSet(rings \ {x}) /\ Cardinality(rings \ {x}) = Cardinality(rings) - 1
        BY <2>2, FS_RemoveElement
    <2>4. IsFiniteSet((rings \ {x}) \cup {z})
          /\ Cardinality((rings \ {x}) \cup {z}) = Cardinality(rings \ {x}) + 1
        BY <2>1, <2>3, FS_AddElement
    <2>5. Cardinality((rings \ {x}) \cup {z}) = Cardinality(rings)
        BY <2>2, <2>3, <2>4
    <2> QED
        BY <1>2, <2>4, <2>5, Zenon
<1>7. ASSUME NEW d \in Detectors PROVE DetectorInv(d)'
    <2>1. DetectorInv(d)
        BY DEF RingInv
    <2>2. ASSUME ~detector[d].late, NEW n \in detector[d].new, NEW y \in rings',
                 y.device = n.device, y.fan = n.fan
          PROVE  y.status = "closed"
        BY <1>3, <2>1, <2>2 DEF DetectorInv
    <2> QED
        BY <1>4, <2>1, <2>2 DEF DetectorInv
<1>8. RingInv'
    BY <1>3, <1>4, <1>5, <1>6, <1>7 DEF RingInv
<1>9. RingIsRaisedOnce'
    <2>1. ASSUME NEW y \in rings', NEW w \in rings', y.nr < w.nr, y.status # "closed",
                 w.status # "closed", y.device = w.device, y.fan = w.fan
          PROVE  w.late
        <3>1. PICK p \in rings : p.nr = y.nr /\ p.device = y.device /\ p.fan = y.fan /\ p.status # "closed"
            BY <1>3, <2>1
        <3>2. PICK q \in rings : q.nr = w.nr /\ q.device = w.device /\ q.fan = w.fan
                                 /\ q.status # "closed" /\ q.late = w.late
            BY <1>3, <2>1
        <3> QED
            BY <2>1, <3>1, <3>2 DEF RingIsRaisedOnce
    <2>2. ASSUME NEW y \in rings' PROVE y.fan \in MinRing .. Cardinality(Users(y.device)')
        BY <1>3, <1>4 DEF RingIsRaisedOnce
    <2> QED
        BY <2>1, <2>2 DEF RingIsRaisedOnce
<1> QED
    BY <1>1, <1>2, <1>8, <1>9 DEF GraphTypeOK

\* Every step keeps the rings' invariant and raises no ring twice.
LEMMA RingStep ==
    ASSUME GraphTypeOK, RingInv, RingIsRaisedOnce, [GuiltNext \/ RingNext]_graphVars
    PROVE  RingInv' /\ RingIsRaisedOnce'
<1>1. ASSUME NEW t \in Transactions, Analysed(t) \/ BackfillUpserts(t)
      PROVE  RingInv' /\ RingIsRaisedOnce'
    <2>1. /\ t \in stored /\ Upsert(t) /\ UNCHANGED <<stored, rings, detector>>
        BY <1>1 DEF Analysed, BackfillUpserts, GraphTypeOK
    <2>2. \A e \in shares' : e \in shares \/ (e[1] = t.account /\ e[2] = t.device)
        BY <2>1, UpsertWrites
    <2>3. \A e \in shares' : e \in shares \/ e[1] \in Users(e[2])'
        BY <2>1, <2>2 DEF Users
    <2> QED
        BY <2>1, <2>3, RingsKept DEF GraphTypeOK
<1>2. CASE UNCHANGED <<shares, rings, detector>>
    BY <1>2, GraphGrows, RingsKept
<1>3. ASSUME NEW d \in Detectors, Scan(d) PROVE RingInv' /\ RingIsRaisedOnce'
    BY <1>3, ScanStep
<1>4. ASSUME NEW d \in Detectors, CommitRings(d) PROVE RingInv' /\ RingIsRaisedOnce'
    BY <1>4, CommitRingsStep
<1>5. ASSUME NEW d \in Detectors, DetectorFails(d) PROVE RingInv' /\ RingIsRaisedOnce'
    <2>1. detector' = [detector EXCEPT ![d] = Idle] /\ UNCHANGED <<stored, shares, rings>>
        BY <1>5 DEF DetectorFails
    <2>2. DetectorInv(d)'
        BY <2>1, RunEnds DEF GraphTypeOK
    <2> QED
        BY <2>1, <2>2, RunKept
<1>6. ASSUME NEW d \in Detectors, NEW c \in detector[d].todo, Judge(d, c)
      PROVE  RingInv' /\ RingIsRaisedOnce'
    BY <1>6, JudgeStep
<1>7. ASSUME NEW x \in rings, ReviewRing(x) \/ \E confirmed \in BOOLEAN : CloseRing(x, confirmed)
      PROVE  RingInv' /\ RingIsRaisedOnce'
    <2>1. PICK status \in {"under_review", "closed"} :
             rings' = (rings \ {x}) \cup {[x EXCEPT !.status = status]}
        BY <1>7 DEF ReviewRing, CloseRing
    <2>2. x.status # "closed" /\ UNCHANGED <<stored, shares, detector>>
        BY <1>7 DEF ReviewRing, CloseRing
    <2> QED
        BY <2>1, <2>2, RingAdvances
<1>8. ASSUME \/ \E t \in Transactions : Store(t) \/ Decide(t)
             \/ \E a \in Accounts : BackfillFlags(a)
             \/ BackfillReads \/ BackfillEnds \/ BackfillFails \/ UNCHANGED graphVars
      PROVE  UNCHANGED <<shares, rings, detector>>
    BY <1>8 DEF Store, Decide, BackfillFlags, BackfillReads, BackfillEnds, BackfillFails, graphVars
<1> QED
    BY <1>1, <1>2, <1>3, <1>4, <1>5, <1>6, <1>7, <1>8 DEF GuiltNext, RingNext

\* Every step keeps the types: what a detector raises points at a committed row.
LEMMA GraphTypeStep ==
    ASSUME GraphTypeOK, RingInv, RingIsRaisedOnce, [GuiltNext \/ RingNext]_graphVars
    PROVE  GraphTypeOK'
<1>1. ASSUME NEW t \in Transactions, Store(t) PROVE GraphTypeOK'
    BY <1>1 DEF Store, GraphTypeOK
<1>2. ASSUME NEW t \in Transactions, Analysed(t) PROVE GraphTypeOK'
    <2>1. Upsert(t) /\ UNCHANGED <<stored, fraud, bad, backfill, filled, detector, rings>>
        BY <1>2 DEF Analysed
    <2>2. shares' \subseteq Accounts \X Devices /\ pays' \subseteq Accounts \X Accounts
        BY <2>1, UpsertWrites
    <2> QED
        BY <2>1, <2>2 DEF GraphTypeOK
<1>3. ASSUME NEW t \in Transactions, Decide(t) PROVE GraphTypeOK'
    BY <1>3 DEF Decide, GraphTypeOK
<1>4. ASSUME NEW t \in Transactions, BackfillUpserts(t) PROVE GraphTypeOK'
    <2>1. /\ Upsert(t) /\ UNCHANGED <<stored, fraud, bad, filled, detector, rings>>
          /\ backfill' = [backfill EXCEPT !.todo = backfill.todo \ {t}]
        BY <1>4 DEF BackfillUpserts
    <2>2. shares' \subseteq Accounts \X Devices /\ pays' \subseteq Accounts \X Accounts
        BY <2>1, UpsertWrites
    <2> QED
        BY <2>1, <2>2 DEF GraphTypeOK
<1>5. ASSUME NEW a \in Accounts, BackfillFlags(a) PROVE GraphTypeOK'
    BY <1>5 DEF BackfillFlags, GraphTypeOK
<1>6. CASE BackfillReads
    <2>1. {t.account : t \in fraud} \subseteq Accounts
        BY DEF GraphTypeOK, Accounts
    <2> QED
        BY <1>6, <2>1 DEF BackfillReads, GraphTypeOK
<1>7. CASE BackfillEnds \/ BackfillFails
    BY <1>7 DEF BackfillEnds, BackfillFails, GraphTypeOK
<1>8. ASSUME NEW d \in Detectors, Scan(d) PROVE GraphTypeOK'
    <2>1. [step |-> "judge", todo |-> Clusters, new |-> {}, late |-> FALSE] \in Run
        BY ClusterIs DEF Run
    <2> QED
        BY <1>8, <2>1 DEF Scan, GraphTypeOK
<1>9. ASSUME NEW d \in Detectors, CommitRings(d) PROVE GraphTypeOK'
    <2>1. rings' \subseteq Ring /\ (\A x \in rings' : x.tx \in stored) /\ detector' \in [Detectors -> Run]
        BY <1>9, CommitRingsStep
    <2> QED
        BY <1>9, <2>1 DEF CommitRings, GraphTypeOK
<1>10. ASSUME NEW d \in Detectors, DetectorFails(d) PROVE GraphTypeOK'
    <2>1. Idle \in Run
        BY DEF Idle, Run
    <2> QED
        BY <1>10, <2>1 DEF DetectorFails, GraphTypeOK
<1>11. ASSUME NEW d \in Detectors, NEW c \in detector[d].todo, Judge(d, c) PROVE GraphTypeOK'
    <2> DEFINE latest == CHOOSE t \in stored : /\ t.account \in c.accounts
                             /\ \A u \in stored : u.account \in c.accounts => u.nr <= t.nr
               new == [device |-> c.device, fan |-> Cardinality(c.accounts), tx |-> latest]
    <2>1. new \in NewRing
        BY JudgeFinds DEF NewRing, GraphTypeOK
    <2> DEFINE held == IF Open(c) THEN detector[d].new ELSE detector[d].new \cup {new}
    <2>2. held \in SUBSET NewRing
        BY <2>1 DEF GraphTypeOK, Run
    <2>3. detector' = [detector EXCEPT ![d] =
                          [detector[d] EXCEPT !.todo = detector[d].todo \ {c}, !.new = held]]
        BY <1>11 DEF Judge
    <2> HIDE DEF held
    <2>4. detector' \in [Detectors -> Run]
        <3>1. detector[d] \in Run /\ detector[d].todo \ {c} \in SUBSET Cluster
            BY DEF GraphTypeOK, Run
        <3>2. [detector[d] EXCEPT !.todo = detector[d].todo \ {c}, !.new = held] \in Run
            BY <2>2, <3>1 DEF Run
        <3> QED
            BY <2>3, <3>2 DEF GraphTypeOK
    <2> QED
        BY <1>11, <2>4 DEF Judge, GraphTypeOK
<1>12. ASSUME NEW x \in rings, ReviewRing(x) \/ \E confirmed \in BOOLEAN : CloseRing(x, confirmed)
       PROVE  GraphTypeOK'
    <2>1. PICK status \in {"under_review", "closed"} :
             rings' = (rings \ {x}) \cup {[x EXCEPT !.status = status]}
        BY <1>12 DEF ReviewRing, CloseRing
    <2>2. x.status # "closed" /\ UNCHANGED <<stored, shares, pays, bad, backfill, filled, detector>>
          /\ (fraud' = fraud \/ fraud' = fraud \cup {x.tx})
        BY <1>12 DEF ReviewRing, CloseRing
    <2>3. rings' \subseteq Ring /\ \A y \in rings' : y.tx \in stored
        BY <2>1, <2>2, RingAdvances
    <2> QED
        BY <2>2, <2>3 DEF GraphTypeOK
<1>13. CASE UNCHANGED graphVars
    BY <1>13 DEF graphVars, GraphTypeOK
<1> QED
    BY <1>1, <1>2, <1>3, <1>4, <1>5, <1>6, <1>7, <1>8, <1>9, <1>10, <1>11, <1>12, <1>13
       DEF GuiltNext, RingNext

\* At the start nothing is stored.
LEMMA GraphStart == GraphInit => GraphInv
<1> SUFFICES ASSUME GraphInit PROVE GraphInv
    OBVIOUS
<1> USE DEF GraphInit
<1>1. GraphTypeOK
    BY DEF GraphTypeOK, Idle, Run
<1>2. GuiltInv
    BY DEF GuiltInv
<1>3. RingIsRaisedOnce
    BY DEF RingIsRaisedOnce
<1>4. RingInv
    <2>1. IsFiniteSet({}) /\ Cardinality({}) = 0
        BY FS_EmptySet
    <2>2. IsFiniteSet(rings) /\ Cardinality(rings) <= MaxRings
        BY <2>1, GraphAssumption
    <2>3. ASSUME NEW d \in Detectors PROVE DetectorInv(d)
        BY <2>1 DEF DetectorInv, Idle
    <2> QED
        BY <2>2, <2>3 DEF RingInv
<1> QED
    BY <1>1, <1>2, <1>3, <1>4 DEF GraphInv

\* Every step keeps the invariant of the graph.
LEMMA GraphStep == GraphInv /\ [GuiltNext \/ RingNext]_graphVars => GraphInv'
BY GuiltStep, RingStep, GraphTypeStep DEF GraphInv

\* The rings are raised once, for any transactions, size of a ring and runs of the detector
\* (graph_backfill.py:144-227); and the graph's rows and edges keep their types.
THEOREM RingIsRaisedOnceHolds == GraphSpec => [](GraphTypeOK /\ RingIsRaisedOnce)
<1>1. GraphInv => GraphTypeOK /\ RingIsRaisedOnce
    BY DEF GraphInv
<1> QED
    BY <1>1, GraphStart, GraphStep, PTL DEF GraphSpec

\* Guilt is seen, for a horizon of two hops or three (graph_k_hops is 2 and at
\* most 3): a device is a hop of its own, so with one hop only payments would be seen
\* (config.py:150, client.py:181-219).
THEOREM GuiltIsSeenHolds ==
    ASSUME Hops \in 2 .. 3
    PROVE  GraphSpec => []GuiltIsSeen
<1>1. GraphInv => GuiltIsSeen
    BY GuiltFollows DEF GraphInv
<1> QED
    BY <1>1, GraphStart, GraphStep, PTL DEF GraphSpec

-----------------------------------------------------------------------------
(* The client records                                                        *)

\* A row whose risk and due diligence are those of its data.
IsAssessed(r) == r.risk = RiskOf(r.country, r.entity) /\ r.edd = NeedsEdd(r.country, r.entity)

\* What a session under way holds: the row it loaded, if any, and the row it leaves.
Held(c) ==
    /\ call[c].step \in {"missing", "fetched", "filled"} =>
          ((call[c].op = "kyc-sync") <=> (call[c].person # None))
    /\ call[c].step = "filled" =>
          /\ call[c].row \in Record
          /\ ~crossed => IsAssessed(call[c].row)
          /\ call[c].copy = None => call[c].row.person = None
          /\ call[c].copy # None =>
                /\ record # None
                /\ call[c].row.person = call[c].copy.person
                /\ call[c].copy.person \in answered \cup {None}
                /\ ~crossed => IsAssessed(call[c].copy)

RecordInv ==
    /\ RecordTypeOK
    /\ record = None => answered = {}
    /\ record # None =>
          /\ record.person \in answered \/ (answered = {} /\ record.person = None)
          /\ ~crossed => IsAssessed(record)
    /\ \A c \in Calls : Held(c)

\* An assessment leaves a row with the risk of its data, and its identity.
LEMMA AssessmentFits ==
    ASSUME NEW r \in Record
    PROVE  /\ Assessed(r) \in Record /\ IsAssessed(Assessed(r))
           /\ Assessed(r).person = r.person
BY DEF Assessed, IsAssessed, Record, RiskOf, NeedsEdd, Risk

\* Fineract's data fills the columns of a row and no other.
LEMMA MappingFits ==
    ASSUME NEW r \in Record, NEW data \in Clients
    PROVE  Mapped(r, data) \in Record /\ Mapped(r, data).person = r.person
BY RecordAssumption DEF Mapped, Record

\* A stub is a record without an identity.
LEMMA StubFits == Stub \in Record /\ Stub.person = None
BY DEF Stub, Record, Risk

\* A session that does not commit touches only its own request.
LEMMA OthersHeld ==
    ASSUME RecordInv, client' \in Clients, NEW c \in Calls, NEW new \in Call,
           call' = [call EXCEPT ![c] = new], UNCHANGED <<record, answered, crossed>>, Held(c)'
    PROVE  RecordInv'
<1>1. call' \in [Calls -> Call]
    BY DEF RecordInv, RecordTypeOK
<1>2. ASSUME NEW d \in Calls PROVE Held(d)'
    <2>1. CASE d = c
        BY <2>1
    <2>2. CASE d # c
        <3>1. call'[d] = call[d]
            BY <2>2 DEF RecordInv, RecordTypeOK
        <3> QED
            BY <3>1 DEF RecordInv, Held
    <2> QED
        BY <2>1, <2>2
<1> QED
    BY <1>1, <1>2 DEF RecordInv, RecordTypeOK, IsAssessed

\* At the start there is no record and no session holds one.
LEMMA RecordStart == RecordInit => RecordInv
<1> SUFFICES ASSUME RecordInit PROVE RecordInv
    OBVIOUS
<1>1. Ended("new") \in Call
    BY DEF Ended, Call
<1>2. call \in [Calls -> Call] /\ \A c \in Calls : call[c].step = "new"
    BY <1>1 DEF RecordInit, Ended
<1> QED
    BY <1>2 DEF RecordInit, RecordInv, RecordTypeOK, Held

\* A request that arrives holds the row that it read, or goes to Fineract.
LEMMA ArriveStep ==
    ASSUME RecordInv, NEW c \in Calls, NEW op \in {"kyc-sync", "aml-status"},
           NEW person \in Persons \cup {None}, Arrive(c, op, person)
    PROVE  RecordInv'
<1> DEFINE new == [op |-> op, person |-> person, data |-> None, copy |-> record, row |-> record,
                   step |-> IF record = None THEN "missing" ELSE "filled"]
<1>1. new \in Call /\ client' \in Clients /\ (op = "kyc-sync" <=> person # None)
    BY DEF Arrive, Call, RecordInv, RecordTypeOK
<1>2. call' = [call EXCEPT ![c] = new] /\ UNCHANGED <<record, answered, crossed>>
    BY DEF Arrive
<1>3. call'[c] = new
    BY <1>2 DEF RecordInv, RecordTypeOK
<1>4. Held(c)'
    BY <1>1, <1>2, <1>3 DEF Held, RecordInv, RecordTypeOK, IsAssessed
<1> QED
    BY <1>1, <1>2, <1>4, OthersHeld

\* What Fineract answers is data of some client, or nothing.
LEMMA FetchStep ==
    ASSUME RecordInv, NEW c \in Calls, Fetch(c)
    PROVE  RecordInv'
<1>1. PICK data \in {client, None} : call' = [call EXCEPT ![c].step = "fetched", ![c].data = data]
    BY DEF Fetch
<1> DEFINE new == [call[c] EXCEPT !.step = "fetched", !.data = data]
<1>2. call[c] \in Call /\ data \in Clients \cup {None} /\ client' \in Clients
    BY DEF Fetch, RecordInv, RecordTypeOK
<1>3. new \in Call /\ new.step = "fetched" /\ new.op = call[c].op /\ new.person = call[c].person
    BY <1>2 DEF Call
<1>4. call' = [call EXCEPT ![c] = new] /\ UNCHANGED <<record, answered, crossed>>
    BY <1>1 DEF Fetch, RecordInv, RecordTypeOK
<1>5. call'[c] = new
    BY <1>4 DEF RecordInv, RecordTypeOK
<1>6. Held(c)'
    <2>1. (call[c].op = "kyc-sync") <=> (call[c].person # None)
        BY DEF Held, RecordInv, Fetch
    <2>2. /\ call'[c].step = "fetched" /\ call'[c].op = call[c].op
          /\ call'[c].person = call[c].person
        BY <1>3, <1>5
    <2> QED
        BY <2>1, <2>2 DEF Held
<1> QED
    BY <1>2, <1>3, <1>4, <1>6, OthersHeld

\* A request fills the row that it loaded, or a stub, and assesses it.
LEMMA FillStep ==
    ASSUME RecordInv, NEW c \in Calls, Fill(c)
    PROVE  RecordInv'
<1> DEFINE data == call[c].data
           base == IF record = None THEN Stub ELSE record
           fresh == IF data = None THEN base ELSE Mapped(base, data)
           row == Assessed(fresh)
           new == [call[c] EXCEPT !.step = "filled", !.copy = record, !.row = row]
<1>1. /\ call[c] \in Call /\ data \in Clients \cup {None}
      /\ record \in Record \cup {None} /\ client' \in Clients
    BY DEF RecordInv, RecordTypeOK, Call, Fill
<1>2. base \in Record /\ base.person = IF record = None THEN None ELSE record.person
    BY <1>1, StubFits
<1>3. fresh \in Record /\ fresh.person = base.person
    BY <1>1, <1>2, MappingFits
<1>4. row \in Record /\ IsAssessed(row) /\ row.person = base.person
    BY <1>3, AssessmentFits
<1>5. /\ new \in Call /\ new.step = "filled" /\ new.copy = record /\ new.row = row
      /\ new.op = call[c].op /\ new.person = call[c].person
    BY <1>1, <1>4 DEF Call
<1>6. call' = [call EXCEPT ![c] = new] /\ UNCHANGED <<record, answered, crossed>>
    BY DEF Fill, RecordInv, RecordTypeOK
<1>7. call'[c] = new
    BY <1>6 DEF RecordInv, RecordTypeOK
<1>8. (call[c].op = "kyc-sync") <=> (call[c].person # None)
    BY DEF Fill, RecordInv, Held
<1>9. record = None => row.person = None
    BY <1>2, <1>4
<1>10. record # None =>
          /\ row.person = record.person
          /\ record.person \in answered \cup {None}
          /\ ~crossed => IsAssessed(record)
    BY <1>2, <1>4 DEF RecordInv
<1>11. Held(c)'
    <2> HIDE DEF row, new
    <2> QED
        BY <1>4, <1>5, <1>6, <1>7, <1>8, <1>9, <1>10 DEF Held, IsAssessed
<1> QED
    BY <1>1, <1>5, <1>6, <1>11, OthersHeld

\* An insert that collides, or an exception: the request ends and leaves nothing.
LEMMA FailStep ==
    ASSUME RecordInv, NEW c \in Calls, client' = client,
           call' = [call EXCEPT ![c] = Ended("error")], UNCHANGED <<record, answered, crossed>>
    PROVE  RecordInv'
<1>1. Ended("error") \in Call /\ client' \in Clients
    BY DEF Ended, Call, RecordInv, RecordTypeOK
<1>2. call'[c] = Ended("error")
    BY DEF RecordInv, RecordTypeOK
<1>3. Held(c)'
    BY <1>2 DEF Held, Ended
<1> QED
    BY <1>1, <1>3, OthersHeld

\* What a session leaves on the row: its data, and the identity of a kyc-sync.
LEMMA LeftFits ==
    ASSUME RecordInv, NEW c \in Calls, call[c].step = "filled"
    PROVE  /\ Left(c) \in Record
           /\ ~crossed => IsAssessed(Left(c))
           /\ Left(c).person = IF call[c].person # None THEN call[c].person
                               ELSE call[c].row.person
<1>1. call[c] \in Call /\ call[c].row \in Record /\ (~crossed => IsAssessed(call[c].row))
    BY DEF RecordInv, RecordTypeOK, Held
<1>2. (call[c].op = "kyc-sync") <=> (call[c].person # None)
    BY DEF RecordInv, Held
<1>3. CASE call[c].op = "kyc-sync"
    <2>1. call[c].person \in Persons
        BY <1>1, <1>2, <1>3 DEF Call
    <2>2. Left(c) = [call[c].row EXCEPT !.person = call[c].person]
        BY <1>3 DEF Left
    <2> QED
        BY <1>1, <1>2, <1>3, <2>1, <2>2 DEF Record, IsAssessed
<1>4. CASE call[c].op # "kyc-sync"
    BY <1>1, <1>2, <1>4 DEF Left
<1> QED
    BY <1>3, <1>4

\* A column-wise update of a record is a record.
LEMMA MergedIsRecord ==
    ASSUME NEW old \in Record, NEW copy \in Record, NEW row \in Record
    PROVE  LET new == [f \in DOMAIN old |-> IF row[f] = copy[f] THEN old[f] ELSE row[f]]
           IN  /\ new \in Record
               /\ new.country = IF row.country = copy.country THEN old.country ELSE row.country
               /\ new.entity = IF row.entity = copy.entity THEN old.entity ELSE row.entity
               /\ new.risk = IF row.risk = copy.risk THEN old.risk ELSE row.risk
               /\ new.edd = IF row.edd = copy.edd THEN old.edd ELSE row.edd
               /\ new.person = IF row.person = copy.person THEN old.person ELSE row.person
BY DEF Record

\* The commit of a session that made the row.
LEMMA CreateStep ==
    ASSUME RecordInv, NEW c \in Calls, Commit(c), record = None, call[c].copy = None
    PROVE  /\ record' \in Record /\ crossed' = crossed /\ (~crossed => IsAssessed(record'))
           /\ record'.person \in answered' \/ (answered' = {} /\ record'.person = None)
<1>1. record' = Left(c) /\ crossed' = crossed
      /\ answered' = answered \cup ({call[c].person} \ {None}) /\ call[c].step = "filled"
    BY DEF Commit
<1>2. answered = {} /\ call[c].row.person = None
    BY <1>1 DEF RecordInv, Held
<1> QED
    BY <1>1, <1>2, LeftFits

\* The commit of a session that loaded the row.
LEMMA UpdateStep ==
    ASSUME RecordInv, NEW c \in Calls, Commit(c), call[c].copy # None
    PROVE  /\ record' \in Record /\ (crossed => crossed')
           /\ ~crossed' => IsAssessed(record')
           /\ record'.person \in answered' \/ (answered' = {} /\ record'.person = None)
<1> DEFINE copy == call[c].copy
           row == Left(c)
<1>1. /\ call[c].step = "filled" /\ record # None
      /\ answered' = answered \cup ({call[c].person} \ {None})
    BY DEF Commit, RecordInv, Held
<1>2. /\ copy \in Record /\ record \in Record
      /\ call[c].person \in Persons \cup {None} /\ crossed \in BOOLEAN
    BY <1>1 DEF RecordInv, RecordTypeOK, Call
<1>3. /\ row \in Record
      /\ row.person = IF call[c].person # None THEN call[c].person ELSE copy.person
      /\ ~crossed => IsAssessed(row)
    BY <1>1, LeftFits DEF RecordInv, Held
<1>4. /\ copy.person \in answered \cup {None}
      /\ ~crossed => IsAssessed(copy) /\ IsAssessed(record)
      /\ record.person \in answered \/ (answered = {} /\ record.person = None)
    BY <1>1 DEF RecordInv, Held
<1>5. record' = [f \in DOMAIN record |-> IF row[f] = copy[f] THEN record[f] ELSE row[f]]
    BY <1>1 DEF Commit, Update
<1>6. crossed' = (crossed \/ (/\ <<row.country, row.entity>> # <<copy.country, copy.entity>>
                              /\ <<copy.country, copy.entity>>
                                     # <<record.country, record.entity>>))
    BY <1>1 DEF Commit, Update
<1> HIDE DEF copy, row
<1>7. /\ record' \in Record
      /\ record'.country = IF row.country = copy.country THEN record.country ELSE row.country
      /\ record'.entity = IF row.entity = copy.entity THEN record.entity ELSE row.entity
      /\ record'.risk = IF row.risk = copy.risk THEN record.risk ELSE row.risk
      /\ record'.edd = IF row.edd = copy.edd THEN record.edd ELSE row.edd
      /\ record'.person = IF row.person = copy.person THEN record.person ELSE row.person
    BY <1>2, <1>3, <1>5, MergedIsRecord
<1>8. ~crossed' => IsAssessed(record')
    <2> SUFFICES ASSUME ~crossed' PROVE IsAssessed(record')
        OBVIOUS
    <2>1. IsAssessed(row) /\ IsAssessed(copy) /\ IsAssessed(record)
        BY <1>3, <1>4, <1>6
    <2>2. CASE row.country = copy.country /\ row.entity = copy.entity
        BY <2>1, <2>2, <1>7 DEF IsAssessed
    <2>3. CASE copy.country = record.country /\ copy.entity = record.entity
        BY <2>1, <2>3, <1>7 DEF IsAssessed
    <2> QED
        BY <2>2, <2>3, <1>6
<1>9. record'.person \in answered' \/ (answered' = {} /\ record'.person = None)
    BY <1>1, <1>2, <1>3, <1>4, <1>7, RecordAssumption
<1> QED
    BY <1>6, <1>7, <1>8, <1>9

\* A commit makes the row, collides, or writes the columns that changed.
LEMMA RecordCommitStep ==
    ASSUME RecordInv, NEW c \in Calls, Commit(c)
    PROVE  RecordInv'
<1>1. CASE call[c].copy = None /\ record # None
    BY <1>1, FailStep DEF Commit
<1>2. CASE ~(call[c].copy = None /\ record # None)
    <2>1. /\ record' \in Record /\ (crossed => crossed')
          /\ ~crossed' => IsAssessed(record')
          /\ record'.person \in answered' \/ (answered' = {} /\ record'.person = None)
        <3>1. CASE record = None /\ call[c].copy = None
            BY <3>1, CreateStep
        <3>2. CASE call[c].copy # None
            BY <3>2, UpdateStep
        <3> QED
            BY <1>2, <3>1, <3>2
    <2>2. call' = [call EXCEPT ![c] = Ended("done")] /\ client' = client
        BY <1>2 DEF Commit
    <2>3. /\ answered \subseteq answered' /\ answered' \subseteq Persons
          /\ crossed' \in BOOLEAN
        <3>1. call[c].person \in Persons \cup {None}
            BY DEF RecordInv, RecordTypeOK, Call
        <3> QED
            BY <1>2, <3>1 DEF Commit, Update, RecordInv, RecordTypeOK
    <2>4. Ended("done") \in Call
        BY DEF Ended, Call
    <2>5. call' \in [Calls -> Call] /\ record' # None
        BY <2>1, <2>2, <2>4, RecordAssumption DEF RecordInv, RecordTypeOK
    <2>6. ASSUME NEW d \in Calls PROVE Held(d)'
        <3>1. CASE d = c
            <4>1. call'[d] = Ended("done")
                BY <2>2, <3>1 DEF RecordInv, RecordTypeOK
            <4> QED
                BY <4>1 DEF Held, Ended
        <3>2. CASE d # c
            <4>1. call'[d] = call[d]
                BY <2>2, <3>2 DEF RecordInv, RecordTypeOK
            <4> QED
                BY <2>1, <2>3, <2>5, <4>1 DEF Held, RecordInv, IsAssessed
        <3> QED
            BY <3>1, <3>2
    <2> QED
        BY <2>1, <2>2, <2>3, <2>5, <2>6 DEF RecordInv, RecordTypeOK, IsAssessed
<1> QED
    BY <1>1, <1>2

\* Every step keeps the records' invariant.
LEMMA RecordSteps == RecordInv /\ [RecordNext]_recordVars => RecordInv'
<1> SUFFICES ASSUME RecordInv, [RecordNext]_recordVars PROVE RecordInv'
    OBVIOUS
<1>1. ASSUME NEW data \in Clients, ClientChanges(data) PROVE RecordInv'
    BY <1>1 DEF ClientChanges, RecordInv, RecordTypeOK, Held, IsAssessed
<1>2. ASSUME NEW c \in Calls, NEW p \in Persons, Arrive(c, "kyc-sync", p) PROVE RecordInv'
    BY <1>2, ArriveStep
<1>3. ASSUME NEW c \in Calls, Arrive(c, "aml-status", None) PROVE RecordInv'
    BY <1>3, ArriveStep
<1>4. ASSUME NEW c \in Calls, Fetch(c) PROVE RecordInv'
    BY <1>4, FetchStep
<1>5. ASSUME NEW c \in Calls, Fill(c) PROVE RecordInv'
    BY <1>5, FillStep
<1>6. ASSUME NEW c \in Calls, Commit(c) PROVE RecordInv'
    BY <1>6, RecordCommitStep
<1>7. ASSUME NEW c \in Calls, CallFails(c) PROVE RecordInv'
    BY <1>7, FailStep DEF CallFails
<1>8. CASE UNCHANGED recordVars
    BY <1>8 DEF recordVars, RecordInv, RecordTypeOK, Held, IsAssessed
<1> QED
    BY <1>1, <1>2, <1>3, <1>4, <1>5, <1>6, <1>7, <1>8 DEF RecordNext

\* Whatever two requests for one client do, an identity that was answered 200 stays until
\* another replaces it, and the risk of a row fits its data until two sessions have filled
\* it column by column (kyc_service.py:80-127, api/customers.py:164-193).
THEOREM IdentityIsKeptAlways == RecordSpec => [](RecordTypeOK /\ IdentityIsKept)
<1>1. RecordInv => IdentityIsKept
    <2> SUFFICES ASSUME RecordInv PROVE IdentityIsKept
        OBVIOUS
    <2>1. answered # {} => record # None /\ record.person \in answered
        BY DEF RecordInv
    <2>2. record # None /\ ~crossed =>
              /\ record.edd <=> record.risk # "low"
              /\ record.country = "critical" => record.risk = "high"
              /\ record.entity => record.risk # "low"
        <3> SUFFICES ASSUME record # None, ~crossed
                     PROVE  /\ record.edd <=> record.risk # "low"
                            /\ record.country = "critical" => record.risk = "high"
                            /\ record.entity => record.risk # "low"
            OBVIOUS
        <3>1. record \in Record /\ IsAssessed(record)
            BY DEF RecordInv, RecordTypeOK
        <3> QED
            BY <3>1 DEF IsAssessed, RiskOf, NeedsEdd, Record
    <2> QED
        BY <2>1, <2>2 DEF IdentityIsKept
<1>2. RecordInv => RecordTypeOK
    BY DEF RecordInv
<1> QED
    BY <1>1, <1>2, RecordStart, RecordSteps, PTL DEF RecordSpec

-----------------------------------------------------------------------------
(* The sanctions list                                                        *)

Overlap(s, t) == s \in sync[t].after \/ t \in sync[s].after

\* Typing, as far as the steps need it.
SyncShape ==
    /\ sync \in [Syncs -> Sync]
    /\ rows \subseteq Copy
    /\ published \subseteq Names

\* A name that no publication has dropped is on each list that is about to be committed.
ListInv ==
    /\ always \subseteq published
    /\ \A s \in Syncs : sync[s].step \in {"parsed", "deleted"} => always \subseteq sync[s].entries
    /\ loaded => \A n \in always : \E r \in rows : r.name = n

ScreenInv == \A r \in screenings : r.listed /\ r.status = "clear" => r.name \notin always

\* The copies of two syncs are there together, or one is there that the other's DELETE did
\* not see, only if the two overlap.
CopyInv ==
    /\ \A r \in rows : sync[r.by].step = "over"
    /\ \A s, t \in Syncs :
          s # t /\ sync[s].step = "deleted" /\ sync[t].step = "deleted" => Overlap(s, t)
    /\ \A s \in Syncs, r \in rows :
          sync[s].step = "deleted" /\ r \notin sync[s].saw => Overlap(s, r.by)
    /\ \A r, q \in rows : r.by # q.by => Overlap(r.by, q.by)

WatchInv == SyncShape /\ ListInv /\ ScreenInv /\ CopyInv

\* At the start no list is loaded and no sync is under way.
LEMMA WatchStart == WatchlistInit => WatchInv
<1> SUFFICES ASSUME WatchlistInit PROVE WatchInv
    OBVIOUS
<1>1. SyncShape
    BY DEF WatchlistInit, SyncShape, SyncStep, Sync
<1>2. ListInv /\ ScreenInv
    BY DEF WatchlistInit, ListInv, ScreenInv
<1>3. CopyInv
    BY DEF WatchlistInit, CopyInv
<1> QED
    BY <1>1, <1>2, <1>3 DEF WatchInv

\* Writing fields of a record keeps its type.
LEMMA FieldsFit ==
    ASSUME NEW A, NEW B, NEW C, NEW D,
           NEW x \in [step : A, entries : B, saw : C, after : D],
           NEW st \in A, NEW e \in B, NEW v \in C, NEW o \in D
    PROVE  /\ [x EXCEPT !.step = st] \in [step : A, entries : B, saw : C, after : D]
           /\ [x EXCEPT !.step = st, !.entries = e] \in [step : A, entries : B, saw : C, after : D]
           /\ [x EXCEPT !.step = st, !.saw = v, !.after = o]
                  \in [step : A, entries : B, saw : C, after : D]
           /\ [x EXCEPT !.step = st, !.entries = e, !.saw = v]
                  \in [step : A, entries : B, saw : C, after : D]
OBVIOUS

\* A sync that goes on is a sync.
LEMMA SyncFits ==
    ASSUME NEW x \in Sync, NEW st \in SyncStep, NEW e \in SUBSET Names,
           NEW v \in SUBSET Copy, NEW o \in SUBSET Syncs
    PROVE  /\ [x EXCEPT !.step = st] \in Sync
           /\ [x EXCEPT !.step = st, !.entries = e] \in Sync
           /\ [x EXCEPT !.step = st, !.saw = v, !.after = o] \in Sync
           /\ [x EXCEPT !.step = st, !.entries = e, !.saw = v] \in Sync
<1> DEFINE P == SUBSET Names
           Q == SUBSET Copy
           R == SUBSET Syncs
<1>1. Sync = [step : SyncStep, entries : P, saw : Q, after : R]
    BY DEF Sync
<1>2. e \in P /\ v \in Q /\ o \in R
    OBVIOUS
<1> HIDE DEF P, Q, R
<1> QED
    BY <1>1, <1>2, FieldsFit

\* A sync that ends without a list takes part in nothing any more.
LEMMA EndStep ==
    ASSUME WatchInv, NEW s \in Syncs,
           sync' = [sync EXCEPT ![s].step = "over", ![s].entries = {}, ![s].saw = {}]
                   \/ sync' = [sync EXCEPT ![s].step = "over"],
           UNCHANGED <<published, rows, screenings, years, always, loaded>>
    PROVE  WatchInv'
<1>1. SyncShape'
    <2>1. sync[s] \in Sync
        BY DEF WatchInv, SyncShape
    <2>2. /\ [sync[s] EXCEPT !.step = "over"] \in Sync
          /\ [sync[s] EXCEPT !.step = "over", !.entries = {}, !.saw = {}] \in Sync
        BY <2>1, SyncFits DEF SyncStep
    <2> QED
        BY <2>2 DEF WatchInv, SyncShape
<1>2. /\ \A t \in Syncs : sync'[t].after = sync[t].after
      /\ sync'[s].step = "over" /\ \A t \in Syncs \ {s} : sync'[t] = sync[t]
    BY DEF WatchInv, SyncShape, Sync
<1>3. ListInv' /\ ScreenInv'
    BY <1>2 DEF WatchInv, ListInv, ScreenInv
<1>4. CopyInv'
    BY <1>2 DEF WatchInv, CopyInv, Overlap, SyncShape, Copy
<1> QED
    BY <1>1, <1>3, <1>4 DEF WatchInv

\* A downloaded list has the names that every publication had.
LEMMA DownloadStep ==
    ASSUME WatchInv, NEW s \in Syncs, Download(s)
    PROVE  WatchInv'
<1>1. SyncShape'
    <2>1. sync[s] \in Sync /\ published \in SUBSET Names
        BY DEF WatchInv, SyncShape
    <2>2. [sync[s] EXCEPT !.step = "parsed", !.entries = published] \in Sync
        BY <2>1, SyncFits DEF SyncStep
    <2> QED
        BY <2>2 DEF WatchInv, SyncShape, Download
<1>2. /\ sync[s].step = "idle" /\ sync'[s].step = "parsed" /\ sync'[s].entries = published
      /\ \A t \in Syncs : sync'[t].after = sync[t].after
      /\ \A t \in Syncs \ {s} : sync'[t] = sync[t]
      /\ UNCHANGED <<published, rows, screenings, always, loaded>>
    BY DEF WatchInv, SyncShape, Sync, Download
<1>3. ListInv' /\ ScreenInv'
    BY <1>2 DEF WatchInv, ListInv, ScreenInv
<1>4. CopyInv'
    BY <1>2 DEF WatchInv, CopyInv, Overlap, SyncShape, Copy
<1> QED
    BY <1>1, <1>3, <1>4 DEF WatchInv

\* A sync that deletes what is committed overlaps those that have deleted already.
LEMMA DeleteStep ==
    ASSUME WatchInv, NEW s \in Syncs, DeleteOld(s)
    PROVE  WatchInv'
<1>1. SyncShape'
    <2>1. sync[s] \in Sync /\ rows \in SUBSET Copy
        BY DEF WatchInv, SyncShape
    <2>2. [sync[s] EXCEPT !.step = "deleted", !.saw = rows,
                          !.after = {o \in Syncs : sync[o].step = "deleted"}] \in Sync
        BY <2>1, SyncFits DEF SyncStep
    <2> QED
        BY <2>2 DEF WatchInv, SyncShape, DeleteOld
<1>2. /\ sync[s].step = "parsed" /\ sync'[s].step = "deleted" /\ sync'[s].saw = rows
      /\ sync'[s].after = {o \in Syncs : sync[o].step = "deleted"}
      /\ sync'[s].entries = sync[s].entries
      /\ \A t \in Syncs \ {s} : sync'[t] = sync[t]
      /\ UNCHANGED <<published, rows, screenings, always, loaded>>
    BY DEF WatchInv, SyncShape, Sync, DeleteOld
<1>3. ListInv' /\ ScreenInv'
    BY <1>2 DEF WatchInv, ListInv, ScreenInv
<1>4. \A r \in rows : r.by \in Syncs \ {s} /\ sync'[r.by] = sync[r.by]
    BY <1>2 DEF WatchInv, CopyInv, SyncShape, Copy
<1>5. CopyInv'
    <2>1. \A r \in rows' : sync'[r.by].step = "over"
        BY <1>2, <1>4 DEF WatchInv, CopyInv
    <2>2. \A t, u \in Syncs :
              t # u /\ sync'[t].step = "deleted" /\ sync'[u].step = "deleted" => Overlap(t, u)'
        BY <1>2 DEF WatchInv, CopyInv, Overlap
    <2>3. \A t \in Syncs, r \in rows' :
              sync'[t].step = "deleted" /\ r \notin sync'[t].saw => Overlap(t, r.by)'
        BY <1>2, <1>4 DEF WatchInv, CopyInv, Overlap
    <2>4. \A r, q \in rows' : r.by # q.by => Overlap(r.by, q.by)'
        BY <1>2, <1>4 DEF WatchInv, CopyInv, Overlap
    <2> QED
        BY <2>1, <2>2, <2>3, <2>4 DEF CopyInv
<1> QED
    BY <1>1, <1>3, <1>5 DEF WatchInv

\* A commit puts a full list in the place of the rows that the sync had deleted.
LEMMA ListCommitStep ==
    ASSUME WatchInv, NEW s \in Syncs, CommitList(s)
    PROVE  WatchInv'
<1> DEFINE new == {[name |-> n, by |-> s] : n \in sync[s].entries}
<1>1. /\ sync[s].step = "deleted" /\ sync'[s].step = "over"
      /\ \A t \in Syncs : sync'[t].after = sync[t].after
      /\ \A t \in Syncs \ {s} : sync'[t] = sync[t]
      /\ UNCHANGED <<published, screenings, always>>
      /\ rows' = (rows \ sync[s].saw) \cup new
    BY DEF WatchInv, SyncShape, Sync, CommitList
<1>2. sync[s].entries \subseteq Names
    BY DEF WatchInv, SyncShape, Sync
<1>3. SyncShape'
    <2>1. [sync[s] EXCEPT !.step = "over", !.entries = {}, !.saw = {}] \in Sync
        BY SyncFits DEF WatchInv, SyncShape, SyncStep
    <2>3. sync' \in [Syncs -> Sync]
        BY <2>1 DEF WatchInv, SyncShape, CommitList
    <2>2. rows' \subseteq Copy
        BY <1>1, <1>2 DEF WatchInv, SyncShape, Copy
    <2> QED
        BY <1>1, <2>2, <2>3 DEF WatchInv, SyncShape
<1>4. ListInv' /\ ScreenInv'
    <2>1. \A n \in always : [name |-> n, by |-> s] \in rows'
        BY <1>1 DEF WatchInv, ListInv
    <2>2. \A n \in always' : \E r \in rows' : r.name = n
        <3> SUFFICES ASSUME NEW n \in always' PROVE \E r \in rows' : r.name = n
            OBVIOUS
        <3>1. [name |-> n, by |-> s] \in rows'
            BY <1>1, <2>1
        <3> QED
            BY <3>1
    <2> QED
        BY <1>1, <2>2 DEF WatchInv, ListInv, ScreenInv
<1>5. \A r \in new : r.by = s
    OBVIOUS
<1>6. \A r \in rows : r \notin sync[s].saw => Overlap(s, r.by)
    BY <1>1 DEF WatchInv, CopyInv
<1>7. \A r \in rows' : r.by = s \/ (r \in rows /\ r \notin sync[s].saw)
    BY <1>1, <1>5
<1>8. \A t, u \in Syncs : Overlap(t, u)' <=> Overlap(t, u)
    BY <1>1 DEF Overlap
<1>9. \A r \in rows : r.by \in Syncs
    BY DEF WatchInv, SyncShape, Copy
<1>10. CopyInv'
    <2>1. \A r \in rows' : sync'[r.by].step = "over"
        BY <1>1, <1>7, <1>9 DEF WatchInv, CopyInv
    <2>2. \A t, u \in Syncs :
              t # u /\ sync'[t].step = "deleted" /\ sync'[u].step = "deleted" => Overlap(t, u)'
        BY <1>1, <1>8 DEF WatchInv, CopyInv
    <2>3. \A t \in Syncs, r \in rows' :
              sync'[t].step = "deleted" /\ r \notin sync'[t].saw => Overlap(t, r.by)'
        <3> SUFFICES ASSUME NEW t \in Syncs, NEW r \in rows',
                            sync'[t].step = "deleted", r \notin sync'[t].saw
                     PROVE  Overlap(t, r.by)'
            OBVIOUS
        <3>1. t # s /\ sync'[t] = sync[t]
            BY <1>1
        <3>2. CASE r.by = s
            BY <1>1, <1>8, <3>1, <3>2 DEF WatchInv, CopyInv
        <3>3. CASE r \in rows
            BY <1>8, <1>9, <3>1, <3>3 DEF WatchInv, CopyInv
        <3> QED
            BY <1>7, <3>2, <3>3
    <2>4. \A r, q \in rows' : r.by # q.by => Overlap(r.by, q.by)'
        <3> SUFFICES ASSUME NEW r \in rows', NEW q \in rows', r.by # q.by
                     PROVE  Overlap(r.by, q.by)'
            OBVIOUS
        <3>1. CASE r.by = s
            <4>1. q \in rows /\ q \notin sync[s].saw
                BY <1>7, <3>1
            <4> QED
                BY <1>6, <1>8, <1>9, <3>1, <4>1
        <3>2. CASE q.by = s
            <4>1. r \in rows /\ r \notin sync[s].saw
                BY <1>7, <3>2
            <4> QED
                BY <1>6, <1>8, <1>9, <3>2, <4>1 DEF Overlap
        <3>3. CASE r \in rows /\ q \in rows
            BY <1>8, <1>9, <3>3 DEF WatchInv, CopyInv
        <3> QED
            BY <1>7, <3>1, <3>2, <3>3
    <2> QED
        BY <2>1, <2>2, <2>3, <2>4 DEF CopyInv
<1> QED
    BY <1>3, <1>4, <1>10 DEF WatchInv

\* Every step keeps the list's invariant.
LEMMA WatchStep == WatchInv /\ [WatchlistNext]_watchlistVars => WatchInv'
<1> SUFFICES ASSUME WatchInv, [WatchlistNext]_watchlistVars PROVE WatchInv'
    OBVIOUS
<1>1. ASSUME NEW list \in SUBSET Names, Publish(list) PROVE WatchInv'
    BY <1>1 DEF Publish, WatchInv, SyncShape, ListInv, ScreenInv, CopyInv, Overlap
<1>2. ASSUME NEW s \in Syncs, DownloadFails(s) PROVE WatchInv'
    BY <1>2, EndStep DEF DownloadFails
<1>3. ASSUME NEW s \in Syncs, SyncFails(s) PROVE WatchInv'
    BY <1>3, EndStep DEF SyncFails
<1>4. ASSUME NEW n \in Names, Screen(n) PROVE WatchInv'
    <2>1. UNCHANGED <<published, sync, rows, always, loaded>>
        BY <1>4 DEF Screen
    <2>2. \A r \in screenings' :
              \/ r \in screenings
              \/ /\ r.name = n /\ r.listed = loaded
                 /\ r.status = "clear" => ~\E q \in rows : q.name = n
        BY <1>4 DEF Screen
    <2>3. ScreenInv'
        BY <2>1, <2>2 DEF WatchInv, ScreenInv, ListInv
    <2> QED
        BY <2>1, <2>3 DEF WatchInv, SyncShape, ListInv, CopyInv, Overlap
<1>5. CASE Purge
    BY <1>5 DEF Purge, WatchInv, SyncShape, ListInv, ScreenInv, CopyInv, Overlap
<1>6. CASE NextPeriod \/ UNCHANGED watchlistVars
    BY <1>6 DEF NextPeriod, watchlistVars, WatchInv, SyncShape, ListInv, ScreenInv, CopyInv, Overlap
<1> QED
    BY <1>1, <1>2, <1>3, <1>4, <1>5, <1>6, DownloadStep, DeleteStep, ListCommitStep DEF WatchlistNext

\* A screening can be numbered: those that are there leave a number free.
LEMMA NumberIsFree ==
    ASSUME IsFiniteSet(screenings), Cardinality(screenings) < MaxScreenings
    PROVE  \E k \in 1 .. MaxScreenings : \A r \in screenings : r.nr # k
<1> SUFFICES ASSUME 1 .. MaxScreenings \subseteq {r.nr : r \in screenings} PROVE FALSE
    OBVIOUS
<1> DEFINE taken == {r.nr : r \in screenings}
           f == [r \in screenings |-> r.nr]
<1>1. f \in Surjection(screenings, taken)
    BY DEF Surjection
<1>2. IsFiniteSet(taken) /\ Cardinality(taken) <= Cardinality(screenings)
    <2> HIDE DEF taken, f
    <2> QED
        BY <1>1, FS_Surjection
<1>3. Cardinality(1 .. MaxScreenings) = MaxScreenings
    <2>1. 1 \in Int /\ MaxScreenings \in Int
          /\ (IF 1 > MaxScreenings THEN 0 ELSE MaxScreenings - 1 + 1) = MaxScreenings
        BY WatchlistAssumption
    <2> QED
        BY <2>1, FS_Interval
<1>4. Cardinality(1 .. MaxScreenings) <= Cardinality(taken)
    BY <1>2, FS_Subset
<1>5. Cardinality(screenings) \in Nat /\ Cardinality(taken) \in Nat
    BY <1>2, FS_CardinalityType
<1> QED
    BY <1>2, <1>3, <1>4, <1>5, WatchlistAssumption

\* Every step keeps the types.
LEMMA WatchTypeStep ==
    ASSUME WatchlistTypeOK, WatchInv, [WatchlistNext]_watchlistVars
    PROVE  WatchlistTypeOK'
<1>1. SyncShape'
    BY WatchStep DEF WatchInv
<1>2. CASE UNCHANGED <<screenings, years>>
    <2>1. always' \subseteq Names /\ loaded' \in BOOLEAN
        BY DEF WatchlistNext, Publish, DownloadFails, Download, DeleteOld, CommitList, SyncFails, Screen,
               Purge, NextPeriod, watchlistVars, WatchlistTypeOK
    <2> QED
        BY <1>1, <1>2, <2>1 DEF SyncShape, WatchlistTypeOK
<1>3. ASSUME NEW n \in Names, Screen(n) PROVE WatchlistTypeOK'
    <2> DEFINE nr == CHOOSE k \in 1 .. MaxScreenings : \A r \in screenings : r.nr # k
               new == [nr |-> nr, name |-> n, at |-> years, listed |-> loaded,
                       status |-> IF \E r \in rows : r.name = n THEN "potential_match" ELSE "clear"]
    <2>1. screenings' = screenings \cup {new} /\ UNCHANGED <<published, sync, rows, years, always, loaded>>
        BY <1>3 DEF Screen
    <2>2. nr \in 1 .. MaxScreenings
        BY <1>3, NumberIsFree DEF Screen, WatchlistTypeOK
    <2>3. /\ new.nr \in 1 .. MaxScreenings /\ new.name \in Names /\ new.at \in 0 .. years
          /\ new.status \in {"clear", "potential_match"} /\ new.listed \in BOOLEAN
        BY <2>2 DEF WatchlistTypeOK
    <2>4. IsFiniteSet(screenings')
        BY <2>1, FS_AddElement DEF WatchlistTypeOK
    <2> HIDE DEF new
    <2> QED
        BY <1>1, <2>1, <2>3, <2>4 DEF SyncShape, WatchlistTypeOK
<1>4. CASE Purge
    <2>1. screenings' \subseteq screenings /\ UNCHANGED <<published, sync, rows, years, always, loaded>>
        BY <1>4 DEF Purge
    <2>2. IsFiniteSet(screenings')
        BY <2>1, FS_Subset DEF WatchlistTypeOK
    <2> QED
        BY <1>1, <2>1, <2>2 DEF SyncShape, WatchlistTypeOK
<1>5. CASE NextPeriod
    BY <1>1, <1>5, WatchlistAssumption DEF NextPeriod, SyncShape, WatchlistTypeOK
<1>6. CASE \/ \E list \in SUBSET Names : Publish(list)
           \/ \E s \in Syncs :
                 \/ DownloadFails(s) \/ Download(s) \/ DeleteOld(s) \/ CommitList(s) \/ SyncFails(s)
           \/ UNCHANGED watchlistVars
    <2>1. UNCHANGED <<screenings, years>>
        BY <1>6 DEF Publish, DownloadFails, Download, DeleteOld, CommitList, SyncFails, watchlistVars
    <2> QED
        BY <1>2, <2>1
<1> QED
    BY <1>3, <1>4, <1>5, <1>6 DEF WatchlistNext

\* The initial list is well typed.
LEMMA WatchTypeStart == WatchlistInit => WatchlistTypeOK
<1> SUFFICES ASSUME WatchlistInit PROVE WatchlistTypeOK
    OBVIOUS
<1>1. SyncShape /\ always \subseteq Names
    BY WatchStart DEF WatchInv, WatchlistInit, ListInv, SyncShape
<1>2. IsFiniteSet(screenings)
    BY FS_EmptySet DEF WatchlistInit
<1>3. screenings = {} /\ years = 0 /\ loaded = FALSE
    BY DEF WatchlistInit
<1>4. years \in 0 .. MaxAge
    BY <1>3, WatchlistAssumption
<1> QED
    BY <1>1, <1>2, <1>3, <1>4 DEF WatchlistTypeOK, SyncShape

\* A party that stays on the publications is on the list from its first load on and is never
\* screened as clear, and a list is doubled only by two syncs that overlap
\* (watchlist_sync.py:164-228).
THEOREM ListHasNoGapEver == WatchlistSpec => [](WatchlistTypeOK /\ ListHasNoGap)
<1>1. WatchInv => ListHasNoGap
    BY DEF WatchInv, ListInv, ScreenInv, CopyInv, Overlap, ListHasNoGap
<1>2. WatchlistTypeOK /\ WatchInv /\ [WatchlistNext]_watchlistVars => WatchlistTypeOK'
    BY WatchTypeStep
<1> QED
    BY <1>1, <1>2, WatchStart, WatchStep, WatchTypeStart, PTL DEF WatchlistSpec

-----------------------------------------------------------------------------
(* The reports to COBAC                                                      *)

\* At the start the report is pending and no officer holds it.
LEMMA FilingStart == FilingInit => FilingInv
BY FilingAssumption DEF FilingInit, FilingInv, FilingTypeOK, Report, FiledIsDated, Op

\* An officer who finishes holds nothing any more.
LEMMA FinishFits ==
    ASSUME FilingTypeOK, NEW u \in Officers, Finish(u)
    PROVE  /\ filing' \in [Officers -> [step : {"idle", "loaded"}, op : Op \cup {None},
                                       ref : References \cup {None}, copy : Report \cup {None}]]
           /\ filing'[u].step = "idle" /\ \A o \in Officers \ {u} : filing'[o] = filing[o]
BY DEF FilingTypeOK, Finish

\* Every step keeps the date of a filed report, on the row and under every copy of it.
LEMMA FilingStep == FilingInv /\ [FilingNext]_filingVars => FilingInv'
<1> SUFFICES ASSUME FilingInv, [FilingNext]_filingVars PROVE FilingInv'
    OBVIOUS
<1>1. ASSUME NEW u \in Officers, NEW op \in Op, NEW ref \in References \cup {None},
             LoadReport(u, op, ref)
      PROVE  FilingInv'
    <2> DEFINE new == [step |-> "loaded", op |-> op, ref |-> ref, copy |-> report]
    <2>1. /\ filing' = [filing EXCEPT ![u] = new] /\ filings' = filings + 1 /\ report' = report
          /\ filings' \in 0 .. MaxFilings /\ filings' > 0
        BY <1>1, FilingAssumption DEF LoadReport, FilingInv, FilingTypeOK
    <2>2. FilingTypeOK'
        BY <2>1 DEF FilingInv, FilingTypeOK
    <2>3. filing'[u] = new /\ \A o \in Officers \ {u} : filing'[o] = filing[o]
        BY <2>1 DEF FilingInv, FilingTypeOK
    <2>4. \A o \in Officers : filing'[o].step = "loaded" =>
             filing'[o].copy \in Report /\ (filing'[o].copy.status = "filed" => report.filedAt # None)
        BY <2>3 DEF FilingInv, FilingTypeOK, FiledIsDated
    <2> QED
        BY <2>1, <2>2, <2>4 DEF FilingInv, FiledIsDated
<1>2. ASSUME NEW u \in Officers, File(u) PROVE FilingInv'
    <2>1. /\ filings' = filings /\ Finish(u) /\ filing[u].step = "loaded"
          /\ report' = [status |-> Column(report.status, filing[u].copy.status, "filed"),
                        filedAt |-> filings, reference |-> Reference(u)]
        BY <1>2 DEF File
    <2>2. filings \in 1 .. MaxFilings
        BY <2>1, FilingAssumption DEF FilingInv, FilingTypeOK
    <2>3. report'.filedAt = filings /\ filings # None
        BY <2>1, <2>2, FilingAssumption
    <2>4. report' \in Report
        <3>1. Reference(u) \in References \cup {None}
            BY DEF Reference, Column, FilingInv, FilingTypeOK, Report
        <3>2. Column(report.status, filing[u].copy.status, "filed") \in {"pending", "filed", "acknowledged"}
            BY DEF Column, FilingInv, FilingTypeOK, Report
        <3> QED
            BY <2>1, <2>2, <3>1, <3>2 DEF Report
    <2> QED
        BY <2>1, <2>3, <2>4, FinishFits DEF FilingInv, FilingTypeOK, FiledIsDated
<1>3. ASSUME NEW u \in Officers, Acknowledge(u) PROVE FilingInv'
    <2> DEFINE status == Column(report.status, filing[u].copy.status, "acknowledged")
    <2>1. /\ filings' = filings /\ Finish(u)
          /\ report' = [report EXCEPT !.status = status, !.reference = Reference(u)]
        BY <1>3 DEF Acknowledge
    <2>2. Reference(u) \in References \cup {None}
        BY DEF Reference, Column, FilingInv, FilingTypeOK, Report
    <2>3. status \in {report.status, "acknowledged"} /\ report \in Report
        BY DEF Column, FilingInv, FilingTypeOK
    <2> HIDE DEF status
    <2>4. report' \in Report /\ report'.filedAt = report.filedAt /\ report'.status = status
        BY <2>1, <2>2, <2>3 DEF Report
    <2> QED
        BY <2>1, <2>3, <2>4, FinishFits DEF FilingInv, FilingTypeOK, FiledIsDated
<1>4. ASSUME NEW u \in Officers, FilingFails(u) PROVE FilingInv'
    BY <1>4, FinishFits DEF FilingFails, FilingInv, FilingTypeOK, FiledIsDated
<1>5. CASE UNCHANGED filingVars
    BY <1>5 DEF filingVars, FilingInv, FilingTypeOK, FiledIsDated
<1> QED
    BY <1>1, <1>2, <1>3, <1>4, <1>5 DEF FilingNext

\* A report in the state filed has its date: mark_ctr_filed and mark_ctr_acknowledged may
\* cross in any way (ctrs.py:111-121, 158-169).
THEOREM FilingIsDated == FilingSpec => [](FilingTypeOK /\ FiledIsDated)
<1>1. FilingInv => FilingTypeOK /\ FiledIsDated
    BY DEF FilingInv
<1> QED
    BY <1>1, FilingStart, FilingStep, PTL DEF FilingSpec

================================================================================
