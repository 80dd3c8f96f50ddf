------------------------------- MODULE GraphLayer -------------------------------
(***************************************************************************)
(* The graph of accounts and what they share, beside the transactions table.  A    *)
(* worker adds the edges of the transaction it analyses, and goes on without when    *)
(* the graph is down; a daily task writes the edges of every recent transaction and    *)
(* flags the accounts of confirmed fraud; another looks for rings, assets that many     *)
(* accounts share, and raises an alert for each.                              *)
(*                                                                         *)
(* Every query runs in a transaction of its own, so a task that stops has written a     *)
(* part.  Amounts and counts on the edges and the measures of centrality are left       *)
(* out: no property reads them.  A transaction is [nr, account, device, to]: a device    *)
(* stands for every kind of asset, a higher nr is more recent.                   *)
(***************************************************************************)
EXTENDS Integers, FiniteSets, FiniteSetsExt, Absent

CONSTANTS
    Transactions,   \* those that may be committed
    Detectors,      \* runs of detect_rings that may overlap
    MinRing,        \* shared_asset_clusters(min_size)
    Hops,           \* settings.graph_k_hops
    MaxRings        \* bound: ring alerts

VARIABLES
    stored,         \* committed transactions
    fraud,          \* those with an alert that stands as confirmed fraud
    shares,         \* edges account - device
    pays,           \* edges account - account
    bad,            \* accounts with the flag known_bad
    backfill,       \* the daily task: [step, todo, flags, read, confirmed]
    filled,         \* what the latest completed backfill had read: [read, confirmed]
    detector,       \* per run: [step, todo, new, late]
    rings           \* committed ring alerts, each [nr, device, fan, tx, status, late]

graphVars == <<stored, fraud, shares, pays, bad, backfill, filled, detector, rings>>

ASSUME GraphAssumption ==
    /\ IsFiniteSet(Transactions) /\ \A t \in Transactions : t.nr \in Nat /\ t.account # None
    /\ MinRing \in Nat \ {0} /\ Hops \in 1 .. 3 /\ MaxRings \in Nat

Accounts == {t.account : t \in Transactions} \cup ({t.to : t \in Transactions} \ {None})
Devices == {t.device : t \in Transactions} \ {None}

Cluster == [device : Devices, accounts : SUBSET Accounts]
NewRing == [device : Devices, fan : Nat, tx : Transactions]
Run == [step : {"idle", "judge"}, todo : SUBSET Cluster, new : SUBSET NewRing, late : BOOLEAN]
Ring ==
    [nr : 1 .. MaxRings, device : Devices, fan : Nat, tx : Transactions,
     status : {"pending", "under_review", "closed"}, late : BOOLEAN]

GraphTypeOK ==
    /\ stored \subseteq Transactions /\ fraud \subseteq stored
    /\ shares \subseteq Accounts \X Devices /\ pays \subseteq Accounts \X Accounts
    /\ bad \subseteq Accounts
    /\ backfill \in [step : {"idle", "write"}, todo : SUBSET stored, flags : SUBSET Accounts,
                     read : SUBSET stored, confirmed : SUBSET Accounts]
    /\ filled \in [read : SUBSET stored, confirmed : SUBSET Accounts]
    /\ detector \in [Detectors -> Run]
    /\ rings \subseteq Ring /\ \A x \in rings : x.tx \in stored

Idle == [step |-> "idle", todo |-> {}, new |-> {}, late |-> FALSE]

GraphInit ==
    /\ stored = {} /\ fraud = {}
    /\ shares = {} /\ pays = {} /\ bad = {}
    /\ backfill = [step |-> "idle", todo |-> {}, flags |-> {}, read |-> {}, confirmed |-> {}]
    /\ filled = [read |-> {}, confirmed |-> {}]
    /\ detector = [d \in Detectors |-> Idle]
    /\ rings = {}

-----------------------------------------------------------------------------
(* The client                                                                *)

\* upsert_transaction: merged, so a second time adds nothing.
Upsert(t) ==
    /\ shares' = shares \cup {e \in {<<t.account, t.device>>} : t.device # None}
    /\ pays' = pays \cup {e \in {<<t.account, t.to>>} : t.to # None}

\* A hop from an account or a device: along what is shared and what was paid, either way.
Adjacent(x) ==
    {e[2] : e \in {f \in shares \cup pays : f[1] = x}}
        \cup {e[1] : e \in {f \in shares \cup pays : f[2] = x}}

\* What is within so many hops, three at most.
Ball(a, hops) ==
    LET once == Adjacent(a)
        twice == once \cup UNION {Adjacent(x) : x \in once}
    IN  CASE hops = 0 -> {} [] hops = 1 -> once [] hops = 2 -> twice
          [] hops = 3 -> twice \cup UNION {Adjacent(x) : x \in twice}

\* Mutant: the horizon is not reached.
BadWithinShort(a, hops) == ((Ball(a, hops - 1) \ {a}) \cap bad) # {}

BadWithin(a, hops) == ((Ball(a, hops) \ {a}) \cap bad) # {}

Fan(a) == {b \in Accounts \ {a} : \E d \in Devices : <<a, d>> \in shares /\ <<b, d>> \in shares}

\* compute_graph_score, in hundredths: a bad account within the horizon, the nearer the
\* more, and the accounts that share something.
GraphScore(a) ==
    LET distance == IF BadWithin(a, 1) THEN 1 ELSE IF BadWithin(a, 2) THEN 2 ELSE 3
    IN  (IF BadWithin(a, Hops) THEN 70 - (70 * (distance - 1)) \div Hops ELSE 0)
        + (IF Cardinality(Fan(a)) >= 10 THEN 30 ELSE 3 * Cardinality(Fan(a)))

\* The accounts that used the device, in the table and in the graph.
Users(d) == {t.account : t \in {u \in stored : u.device = d}}
Holders(d) == {a \in Accounts : <<a, d>> \in shares}

\* shared_asset_clusters.
Clusters ==
    {[device |-> d, accounts |-> Holders(d)] : d \in {x \in Devices : Cardinality(Holders(x)) >= MinRing}}

-----------------------------------------------------------------------------
(* The tasks                                                                 *)

\* A row is committed; its analysis writes the edges later, if the graph is up.
Store(t) ==
    /\ t \notin stored /\ stored' = stored \cup {t}
    /\ UNCHANGED <<fraud, shares, pays, bad, backfill, filled, detector, rings>>

Analysed(t) ==
    /\ t \in stored /\ Upsert(t)
    /\ UNCHANGED <<stored, fraud, bad, backfill, filled, detector, rings>>

\* A compliance officer confirms the transaction's alert, or the decision is reversed.
Decide(t) ==
    /\ t \in stored
    /\ fraud' = IF t \in fraud THEN fraud \ {t} ELSE fraud \cup {t}
    /\ UNCHANGED <<stored, shares, pays, bad, backfill, filled, detector, rings>>

\* One session reads the rows and the accounts of confirmed fraud.
BackfillReads ==
    /\ backfill.step = "idle"
    /\ LET accounts == {t.account : t \in fraud}
       IN  backfill' = [step |-> "write", todo |-> stored, flags |-> accounts,
                        read |-> stored, confirmed |-> accounts]
    /\ UNCHANGED <<stored, fraud, shares, pays, bad, filled, detector, rings>>

BackfillUpserts(t) ==
    /\ backfill.step = "write" /\ t \in backfill.todo
    /\ Upsert(t)
    /\ backfill' = [backfill EXCEPT !.todo = @ \ {t}]
    /\ UNCHANGED <<stored, fraud, bad, filled, detector, rings>>

\* The flags come after the edges.
BackfillFlags(a) ==
    /\ backfill.step = "write" /\ backfill.todo = {} /\ a \in backfill.flags
    /\ bad' = bad \cup {a}
    /\ backfill' = [backfill EXCEPT !.flags = @ \ {a}]
    /\ UNCHANGED <<stored, fraud, shares, pays, filled, detector, rings>>

BackfillEnds ==
    /\ backfill.step = "write" /\ backfill.todo = {} /\ backfill.flags = {}
    /\ filled' = [read |-> backfill.read, confirmed |-> backfill.confirmed]
    /\ backfill' = [step |-> "idle", todo |-> {}, flags |-> {}, read |-> {}, confirmed |-> {}]
    /\ UNCHANGED <<stored, fraud, shares, pays, bad, detector, rings>>

\* The graph is down, or goes down, or the worker is lost.
BackfillFails ==
    /\ backfill.step = "write"
    /\ backfill' = [step |-> "idle", todo |-> {}, flags |-> {}, read |-> {}, confirmed |-> {}]
    /\ UNCHANGED <<stored, fraud, shares, pays, bad, filled, detector, rings>>

Scan(d) ==
    /\ detector[d].step = "idle" /\ Clusters # {}
    /\ detector' = [detector EXCEPT ![d] =
           [step |-> "judge", todo |-> Clusters, new |-> {}, late |-> FALSE]]
    /\ UNCHANGED <<stored, fraud, shares, pays, bad, backfill, filled, rings>>

\* Mutant: an alert that an analyst has taken up is not open.
OpenPending(c) ==
    \E x \in rings :
       x.device = c.device /\ x.fan = Cardinality(c.accounts) /\ x.status = "pending"

\* An open alert with the title of the cluster, which names the asset and the fan.
Open(c) ==
    \E x \in rings :
       /\ x.device = c.device /\ x.fan = Cardinality(c.accounts)
       /\ x.status \in {"pending", "under_review"}

\* A cluster without an open alert gets one, anchored to its accounts' latest transaction.
\* (Graph edges come from committed rows, so there is always one.)
Judge(d, c) ==
    LET latest == CHOOSE t \in stored : /\ t.account \in c.accounts
                     /\ \A u \in stored : u.account \in c.accounts => u.nr <= t.nr
        new == [device |-> c.device, fan |-> Cardinality(c.accounts), tx |-> latest]
    IN  /\ detector[d].step = "judge" /\ c \in detector[d].todo
        /\ detector' = [detector EXCEPT ![d].todo = @ \ {c},
                             ![d].new = IF Open(c) THEN @ ELSE @ \cup {new}]
        /\ UNCHANGED <<stored, fraud, shares, pays, bad, backfill, filled, rings>>

\* One commit for all; late marks what a run that was then under way could not see.
CommitRings(d) ==
    LET nr == Cardinality(rings)
        numbered == CHOOSE f \in [detector[d].new -> nr + 1 .. nr + Cardinality(detector[d].new)] :
                        \A x, y \in detector[d].new : f[x] = f[y] => x = y
    IN  /\ detector[d].step = "judge" /\ detector[d].todo = {}
        /\ nr + Cardinality(detector[d].new) <= MaxRings
        /\ rings' = rings \cup
               {[nr |-> numbered[x], device |-> x.device, fan |-> x.fan, tx |-> x.tx,
                 status |-> "pending", late |-> detector[d].late] : x \in detector[d].new}
        /\ detector' = [o \in Detectors |->
               IF o = d THEN Idle
               ELSE [detector[o] EXCEPT !.late = @ \/ (detector[o].step = "judge" /\ detector[d].new # {})]]
        /\ UNCHANGED <<stored, fraud, shares, pays, bad, backfill, filled>>

DetectorFails(d) ==
    /\ detector[d].step = "judge"
    /\ detector' = [detector EXCEPT ![d] = Idle]
    /\ UNCHANGED <<stored, fraud, shares, pays, bad, backfill, filled, rings>>

ReviewRing(x) ==
    /\ x.status = "pending"
    /\ rings' = (rings \ {x}) \cup {[x EXCEPT !.status = "under_review"]}
    /\ UNCHANGED <<stored, fraud, shares, pays, bad, backfill, filled, detector>>

\* A ring alert is decided; as confirmed fraud it marks the transaction it is anchored to.
CloseRing(x, confirmed) ==
    /\ x.status \in {"pending", "under_review"}
    /\ rings' = (rings \ {x}) \cup {[x EXCEPT !.status = "closed"]}
    /\ fraud' = IF confirmed THEN fraud \cup {x.tx} ELSE fraud
    /\ UNCHANGED <<stored, shares, pays, bad, backfill, filled, detector>>

\* The two tasks meet in the stored rows, the edges and the accounts of confirmed fraud.
GuiltNext ==
    \/ \E t \in Transactions : Store(t) \/ Analysed(t) \/ Decide(t) \/ BackfillUpserts(t)
    \/ \E a \in Accounts : BackfillFlags(a)
    \/ BackfillReads \/ BackfillEnds \/ BackfillFails

RingNext ==
    \/ \E t \in Transactions : Store(t) \/ Analysed(t)
    \/ \E d \in Detectors :
          \/ Scan(d) \/ CommitRings(d) \/ DetectorFails(d)
          \/ \E c \in detector[d].todo : Judge(d, c)
    \/ \E x \in rings : ReviewRing(x)
    \/ \E x \in rings, confirmed \in BOOLEAN : CloseRing(x, confirmed)

GraphSpec == GraphInit /\ [][GuiltNext \/ RingNext]_graphVars

-----------------------------------------------------------------------------
(* Properties                                                                *)

\* Guilt is seen: after a backfill that ran to its end, whatever failed before and whatever
\* the live path left out, an account whose device was also used by an account of
\* confirmed fraud, or that paid or was paid by one, has a score to answer for
\* (graph_backfill.py:48-107, client.py:181-219).
GuiltIsSeen ==
    \A t, u \in filled.read :
       (t.account # u.account /\ u.account \in filled.confirmed
           /\ (t.to = u.account \/ u.to = t.account \/ (t.device = u.device /\ t.device # None)))
       => GraphScore(t.account) > 30

\* Rings are raised once: two open alerts have one title only when a detector committed
\* while the other was under way, and every alert's fan is that of accounts which
\* used the device in committed transactions (graph_backfill.py:144-227).
RingIsRaisedOnce ==
    /\ \A x, y \in rings :
          (/\ x.nr < y.nr /\ x.status # "closed" /\ y.status # "closed"
           /\ x.device = y.device /\ x.fan = y.fan) => y.late
    /\ \A x \in rings :
          x.fan \in MinRing .. Cardinality(Users(x.device))

Written(t) ==
    /\ t.device # None => <<t.account, t.device>> \in shares
    /\ t.to # None => <<t.account, t.to>> \in pays

\* Inductive strengthening of GuiltIsSeen: what a backfill has read is written or still to
\* be written, and edges and flags stay.
GuiltInv ==
    /\ \A t \in filled.read : Written(t)
    /\ filled.confirmed \subseteq bad
    /\ backfill.step = "write" =>
          /\ \A t \in backfill.read \ backfill.todo : Written(t)
          /\ backfill.confirmed \ backfill.flags \subseteq bad

\* What a run of the detector holds.
DetectorInv(d) ==
    LET run == detector[d] IN
    /\ run.step = "idle" => run.todo = {} /\ run.new = {}
    /\ IsFiniteSet(run.new)
    /\ \A c, e \in run.todo : c.device = e.device => c = e
    /\ \A c \in run.todo : c.accounts \subseteq Users(c.device) /\ Cardinality(c.accounts) >= MinRing
    /\ \A n \in run.new : n.fan \in MinRing .. Cardinality(Users(n.device)) /\ n.tx \in stored
    /\ \A n, m \in run.new : n.device = m.device => n = m
    /\ \A n \in run.new, c \in run.todo : n.device # c.device
    /\ ~run.late => \A n \in run.new, x \in rings :
                       x.device = n.device /\ x.fan = n.fan => x.status = "closed"

\* Inductive strengthening of RingIsRaisedOnce: edges come from committed rows, alerts are
\* numbered as they come, and a run that no other crossed raises nothing that is open.
RingInv ==
    /\ \A e \in shares : e[1] \in Users(e[2])
    /\ IsFiniteSet(rings) /\ Cardinality(rings) <= MaxRings
    /\ \A x \in rings : x.nr <= Cardinality(rings)
    /\ \A x, y \in rings : x.nr = y.nr => x = y
    /\ \A d \in Detectors : DetectorInv(d)

================================================================================
