------------------------------ MODULE CreditProofs ------------------------------
(***************************************************************************)
(* Theorems about CreditDesk, for all clients, scores, calls, batch runs and  *)
(* reviewers.                                                                *)
(***************************************************************************)
EXTENDS CreditDesk, TLAPS

\* Every score has a tier.
LEMMA SegmentType ==
    ASSUME NEW score \in Percent
    PROVE  Segment(score) \in Tier
<1> DEFINE P(tier) ==
        /\ score >= MinScore[tier]
        /\ \A better \in Tier : score >= MinScore[better] => MinScore[better] <= MinScore[tier]
<1>1. \E tier \in Tier : P(tier)
    <2>1. CASE score >= 80
        BY <2>1 DEF Tier, MinScore, Percent
    <2>2. CASE score >= 65 /\ score < 80
        BY <2>2 DEF Tier, MinScore, Percent
    <2>3. CASE score >= 50 /\ score < 65
        BY <2>3 DEF Tier, MinScore, Percent
    <2>4. CASE score >= 35 /\ score < 50
        BY <2>4 DEF Tier, MinScore, Percent
    <2>5. CASE score < 35
        BY <2>5 DEF Tier, MinScore, Percent
    <2> QED
        BY <2>1, <2>2, <2>3, <2>4, <2>5 DEF Percent
<1> QED
    BY <1>1 DEF Segment

\* What a session computes and what an UPDATE leaves are profiles.
LEMMA ProfileType ==
    /\ \A s \in Session : fresh[s] \in Percent => Computed(s) \in Profile
    /\ \A row, seen, new \in Profile : Updated(row, seen, new) \in Profile
<1>1. \A s \in Session : fresh[s] \in Percent => Computed(s) \in Profile
    BY SegmentType DEF Computed, Profile
<1>2. ASSUME NEW row \in Profile, NEW seen \in Profile, NEW new \in Profile
      PROVE  Updated(row, seen, new) \in Profile
    BY DEF Updated, Profile
<1> QED
    BY <1>1, <1>2

\* A request that a call makes of its profile is a request, and approval is backed.
LEMMA RequestType ==
    ASSUME NEW s \in Calls, NEW flagged \in BOOLEAN,
           client[s] \in Clients, fresh[s] \in Percent, asked[s] \in Amounts
    PROVE  /\ NewRequest(s, flagged) \in Request
           /\ NewRequest(s, flagged).recommendation = "approve" =>
                 /\ ~NewRequest(s, flagged).flagged
                 /\ 2 * NewRequest(s, flagged).amount
                        <= Limit[Segment(NewRequest(s, flagged).score)]
<1>1. Penalised(fresh[s]) \in Percent
    BY DEF Penalised, Percent
<1>2. Recommend(fresh[s], Segment(fresh[s]), asked[s]) \in Recommendation
    BY DEF Recommend, Recommendation
<1>3. Recommend(fresh[s], Segment(fresh[s]), asked[s]) = "approve" =>
          2 * asked[s] <= Limit[Segment(fresh[s])]
    BY DEF Recommend
<1> QED
    BY <1>1, <1>2, <1>3 DEF NewRequest, Request, Snapshot, Computed, Recommendation

\* An upsert writes a profile of the session's client.
LEMMA UpsertWrites ==
    ASSUME TypeOK, SessionInv, NEW s \in Session, Upsert(s)
    PROVE  \E row \in Profile : draft' = [draft EXCEPT ![s][client[s]] = row]
<1> DEFINE c == client[s]
           row == IF copy[s] = None THEN Computed(s)
                                    ELSE Updated(profile[c], copy[s], Computed(s))
<1>1. c \in Clients /\ Computed(s) \in Profile
    BY ProfileType DEF Upsert, SessionInv
<1>2. row \in Profile
    <2>1. CASE copy[s] = None
        BY <1>1, <2>1
    <2>2. CASE copy[s] # None
        <3>1. copy[s] \in Profile /\ profile[c] \in Profile
            BY <1>1, <2>2 DEF TypeOK, SessionInv, Upsert
        <3> QED
            BY <1>1, <2>2, <3>1, ProfileType
    <2> QED
        BY <2>1, <2>2
<1>3. draft' = [draft EXCEPT ![s][c] = row]
    BY DEF Upsert
<1> QED
    BY <1>2, <1>3

\* A rollback keeps the types.
LEMMA RollbackType ==
    ASSUME TypeOK, NEW s \in Session, RolledBack(s),
           UNCHANGED <<profileVars, asked, requestVars>>, faults' \in Nat
    PROVE  TypeOK'
<1>1. NoDraft \in [Clients -> Profile \cup {None}]
    BY DEF NoDraft
<1> QED
    BY <1>1 DEF TypeOK, RolledBack, Forget, Goto, Step, profileVars, requestVars, Session

\* The types are preserved, given what a session at a client knows.
LEMMA TypeStep ==
    ASSUME TypeOK, SessionInv, [Next]_vars
    PROVE  TypeOK'
<1> USE CreditAssumption, NoneAssumption
<1>1. CASE UNCHANGED vars
    BY <1>1 DEF TypeOK, vars, profileVars, sessionVars, requestVars
<1>2. ASSUME NEW c \in Clients, Transact(c) PROVE TypeOK'
    BY <1>2 DEF TypeOK, Transact, sessionVars, requestVars
<1>3. ASSUME NEW s \in Calls, StartCall(s) PROVE TypeOK'
    <2>1. PICK c \in Clients : Score(s, c)
        BY <1>3 DEF StartCall
    <2>2. (IF history[c] = None THEN 0 ELSE history[c]) \in Percent
        BY DEF TypeOK, Percent
    <2> QED
        BY <1>3, <2>1, <2>2 DEF TypeOK, StartCall, Score, Goto, Step, Session, profileVars,
           requestVars
<1>4. ASSUME NEW s \in Session, LookupProfile(s) PROVE TypeOK'
    <2>1. profile[client[s]] \in Profile \cup {None}
        BY <1>4 DEF TypeOK, SessionInv, LookupProfile
    <2> QED
        BY <1>4, <2>1 DEF TypeOK, LookupProfile, Goto, Step, profileVars, requestVars
<1>5. ASSUME NEW s \in Session, Upsert(s) PROVE TypeOK'
    <2>1. PICK row \in Profile : draft' = [draft EXCEPT ![s][client[s]] = row]
        BY <1>5, UpsertWrites
    <2>2. client[s] \in Clients
        BY <1>5 DEF Upsert, SessionInv
    <2>3. draft' \in [Session -> [Clients -> Profile \cup {None}]]
        BY <2>1, <2>2 DEF TypeOK
    <2>4. step' \in [Session -> Step]
        <3>1. PICK next \in {"commit", "idle"} : step' = [step EXCEPT ![s] = next]
            BY <1>5 DEF Upsert, Processed, Goto
        <3> QED
            BY <3>1 DEF TypeOK, Step
    <2>5. done' \in [Batches -> SUBSET Clients]
        <3>1. CASE s \in Batches
            <4>1. done' = [done EXCEPT ![s] = @ \cup {client[s]}]
                BY <1>5, <3>1 DEF Upsert, Processed
            <4> QED
                BY <2>2, <3>1, <4>1 DEF TypeOK
        <3>2. CASE s \notin Batches
            BY <1>5, <3>2 DEF TypeOK, Upsert
        <3> QED
            BY <3>1, <3>2
    <2> QED
        BY <1>5, <2>3, <2>4, <2>5 DEF TypeOK, Upsert, profileVars, requestVars
<1>6. ASSUME NEW s \in Session, UpsertCollides(s) \/ BreakDeadlock(s) \/ SessionFails(s)
      PROVE  TypeOK'
    <2>1. RolledBack(s) /\ UNCHANGED <<profileVars, asked, requestVars>>
        BY <1>6 DEF UpsertCollides, BreakDeadlock, SessionFails
    <2>2. faults' \in Nat
        BY <1>6 DEF TypeOK, UpsertCollides, BreakDeadlock, SessionFails, Fault
    <2> QED
        BY <2>1, <2>2, RollbackType
<1>7. ASSUME NEW s \in Calls, CommitCall(s) PROVE TypeOK'
    <2>1. s \in Session /\ step[s] = "commit" /\ client[s] \in Clients /\ fresh[s] \in Percent
        BY <1>7 DEF CommitCall, SessionInv, Session
    <2>2. profile' \in [Clients -> Profile \cup {None}]
        BY <1>7, <2>1 DEF TypeOK, CommitCall, Committed, Holds
    <2>3. draft' \in [Session -> [Clients -> Profile \cup {None}]]
        BY <1>7, <2>1 DEF TypeOK, CommitCall, NoDraft
    <2>4. request' \in [Calls -> Request \cup {None}] /\ status' \in [Calls -> Status]
        <3>1. CASE asked[s] = None
            BY <1>7, <3>1 DEF TypeOK, CommitCall
        <3>2. CASE asked[s] # None
            <4>1. asked[s] \in Amounts
                BY <3>2 DEF TypeOK
            <4>2. PICK flagged \in BOOLEAN :
                     request' = [request EXCEPT ![s] = NewRequest(s, flagged)]
                BY <1>7, <3>2 DEF CommitCall
            <4>3. NewRequest(s, flagged) \in Request
                BY <2>1, <4>1, RequestType
            <4> QED
                BY <1>7, <3>2, <4>2, <4>3 DEF TypeOK, CommitCall, Status
        <3> QED
            BY <3>1, <3>2
    <2> QED
        BY <1>7, <2>1, <2>2, <2>3, <2>4 DEF TypeOK, CommitCall, Goto, Step
<1>8. ASSUME NEW b \in Batches, StartBatch(b) PROVE TypeOK'
    BY <1>8 DEF TypeOK, StartBatch, profileVars, requestVars
<1>9. ASSUME NEW b \in Batches, NextClient(b) PROVE TypeOK'
    <2>1. PICK c \in todo[b] : Score(b, c) /\ todo' = [todo EXCEPT ![b] = @ \ {c}]
        BY <1>9 DEF NextClient
    <2>2. c \in Clients /\ (IF history[c] = None THEN 0 ELSE history[c]) \in Percent
        BY <2>1 DEF TypeOK, Percent
    <2> QED
        BY <1>9, <2>1, <2>2 DEF TypeOK, NextClient, Score, Goto, Step, Session, profileVars,
           requestVars
<1>10. ASSUME NEW b \in Batches, SkipClient(b) PROVE TypeOK'
    <2>1. b \in Session /\ client[b] \in Clients
        BY <1>10 DEF SkipClient, SessionInv, Session
    <2> QED
        BY <1>10, <2>1 DEF TypeOK, SkipClient, Fault, Processed, Goto, Step, profileVars, requestVars
<1>11. ASSUME NEW b \in Batches, CommitBatch(b) PROVE TypeOK'
    <2>1. b \in Session
        BY DEF Session
    <2>2. profile' \in [Clients -> Profile \cup {None}]
        BY <1>11, <2>1 DEF TypeOK, CommitBatch, Committed, Holds
    <2>3. draft' \in [Session -> [Clients -> Profile \cup {None}]]
        BY <1>11, <2>1 DEF TypeOK, CommitBatch, NoDraft
    <2> QED
        BY <1>11, <2>1, <2>2, <2>3 DEF TypeOK, CommitBatch, Forget, Goto, Step, requestVars
<1>12. ASSUME NEW u \in Reviewers, ReadForReview(u) PROVE TypeOK'
    BY <1>12 DEF TypeOK, ReadForReview, profileVars, sessionVars
<1>13. ASSUME NEW u \in Reviewers, WriteReview(u) PROVE TypeOK'
    <2>1. review[u].of \in Calls /\ review[u].verdict \in Status
        BY <1>13 DEF TypeOK, WriteReview, Status
    <2> QED
        BY <1>13, <2>1 DEF TypeOK, WriteReview, profileVars, sessionVars
<1> QED
    BY <1>1, <1>2, <1>3, <1>4, <1>5, <1>6, <1>7, <1>8, <1>9, <1>10, <1>11, <1>12, <1>13
       DEF Next, CallStep, BatchStep, Refresh, Session

\* A profile stays.
LEMMA ProfileStays ==
    ASSUME TypeOK, [Next]_vars, NEW c \in Clients, profile[c] # None
    PROVE  profile'[c] # None
<1>1. CASE UNCHANGED profile
    BY <1>1
<1>2. ASSUME NEW s \in Session, profile' = Committed(s) PROVE profile'[c] # None
    BY <1>2 DEF Committed, Holds
<1> QED
    BY <1>1, <1>2 DEF Next, vars, Transact, StartCall, CallStep, CommitCall, BatchStep,
       StartBatch, NextClient, SkipClient, CommitBatch, Refresh, LookupProfile, Upsert,
       UpsertCollides, BreakDeadlock, SessionFails, ReadForReview, WriteReview, profileVars,
       Session

\* What a session knows stays right when another one steps.
LEMMA SessionFrame ==
    ASSUME TypeOK, SessionInv, [Next]_vars, NEW s \in Session,
           UNCHANGED <<step[s], client[s], fresh[s], copy[s], draft[s]>>
    PROVE  /\ step'[s] \in {"lookup", "write", "commit"} =>
                 client'[s] \in Clients /\ fresh'[s] \in Percent
           /\ step'[s] = "write" /\ copy'[s] # None => profile'[client'[s]] # None
           /\ s \in Calls =>
                 /\ step'[s] = "commit" => Holds(s, client[s])'
                 /\ step'[s] = "done" => client'[s] \in Clients
<1>1. step[s] = "write" /\ copy[s] # None => profile'[client[s]] # None
    BY ProfileStays DEF SessionInv
<1> QED
    BY <1>1 DEF SessionInv, Holds

\* One session steps: the others' variables stay.
OthersStay(s) ==
    \A o \in Session \ {s} : UNCHANGED <<step[o], client[o], fresh[o], copy[o], draft[o]>>

\* It suffices to look at the session that steps.
LEMMA SessionStep ==
    ASSUME TypeOK, SessionInv, [Next]_vars, NEW s \in Session, OthersStay(s),
           step'[s] \in {"lookup", "write", "commit"} =>
                 client'[s] \in Clients /\ fresh'[s] \in Percent,
           step'[s] = "write" /\ copy'[s] # None => profile'[client'[s]] # None,
           s \in Calls =>
                 /\ step'[s] = "commit" => Holds(s, client[s])'
                 /\ step'[s] = "done" => client'[s] \in Clients
    PROVE  SessionInv'
<1>1. ASSUME NEW o \in Session
      PROVE  /\ step'[o] \in {"lookup", "write", "commit"} =>
                   client'[o] \in Clients /\ fresh'[o] \in Percent
             /\ step'[o] = "write" /\ copy'[o] # None => profile'[client'[o]] # None
             /\ o \in Calls =>
                   /\ step'[o] = "commit" => Holds(o, client[o])'
                   /\ step'[o] = "done" => client'[o] \in Clients
    <2>1. CASE o = s
        BY <2>1
    <2>2. CASE o # s
        BY <2>2, SessionFrame DEF OthersStay
    <2> QED
        BY <2>1, <2>2
<1>2. Calls \subseteq Session
    BY DEF Session
<1> QED
    BY <1>1, <1>2 DEF SessionInv

\* What sessions know is invariant.
LEMMA SessionInvStep ==
    ASSUME TypeOK, SessionInv, [Next]_vars
    PROVE  SessionInv'
<1> USE CreditAssumption, NoneAssumption
<1>1. CASE \A s \in Session : UNCHANGED <<step[s], client[s], fresh[s], copy[s], draft[s]>>
    <2>1. Calls \subseteq Session
        BY DEF Session
    <2> QED
        BY <1>1, <2>1, SessionFrame DEF SessionInv
<1>2. ASSUME NEW s \in Session, NEW c \in Clients, Score(s, c), UNCHANGED <<draft, copy>>,
             step[s] = "idle"
      PROVE  SessionInv'
    <2>1. (IF history[c] = None THEN 0 ELSE history[c]) \in Percent
        BY DEF TypeOK, Percent
    <2>2. step'[s] = "lookup" /\ client'[s] = c /\ fresh'[s] \in Percent /\ OthersStay(s)
        BY <1>2, <2>1 DEF TypeOK, Score, Goto, OthersStay
    <2> QED
        BY <2>2, SessionStep
<1>3. ASSUME NEW s \in Session, LookupProfile(s) PROVE SessionInv'
    <2>1. /\ step'[s] = "write" /\ copy'[s] = profile[client[s]]
          /\ UNCHANGED <<client, fresh, profile>> /\ OthersStay(s)
        BY <1>3 DEF TypeOK, LookupProfile, Goto, OthersStay, profileVars
    <2>2. client[s] \in Clients /\ fresh[s] \in Percent
        BY <1>3 DEF LookupProfile, SessionInv
    <2> QED
        BY <2>1, <2>2, SessionStep
<1>4. ASSUME NEW s \in Session, Upsert(s) PROVE SessionInv'
    <2>1. client[s] \in Clients /\ fresh[s] \in Percent
        BY <1>4 DEF Upsert, SessionInv
    <2>2. step'[s] \in {"commit", "idle"} /\ UNCHANGED <<client, fresh>> /\ OthersStay(s)
        BY <1>4 DEF TypeOK, Upsert, Processed, Goto, OthersStay
    <2>3. Holds(s, client[s])'
        <3>1. PICK row \in Profile : draft' = [draft EXCEPT ![s][client[s]] = row]
            BY <1>4, UpsertWrites
        <3>2. draft'[s][client[s]] = row
            BY <2>1, <3>1 DEF TypeOK
        <3>3. row # None
            OBVIOUS
        <3> QED
            BY <2>2, <3>2, <3>3 DEF Holds
    <2> QED
        BY <2>1, <2>2, <2>3, SessionStep
<1>5. ASSUME NEW s \in Session, RolledBack(s) PROVE SessionInv'
    <2>1. step'[s] \in {"error", "idle"} /\ OthersStay(s)
        BY <1>5 DEF TypeOK, RolledBack, Forget, Goto, OthersStay
    <2> QED
        BY <2>1, SessionStep
<1>6. ASSUME NEW s \in Calls, CommitCall(s) PROVE SessionInv'
    <2>1. s \in Session /\ client[s] \in Clients
        BY <1>6 DEF CommitCall, SessionInv, Session
    <2>2. step'[s] = "done" /\ client' = client /\ OthersStay(s)
        BY <1>6, <2>1 DEF TypeOK, CommitCall, Goto, OthersStay
    <2> QED
        BY <2>1, <2>2, SessionStep
<1>7. ASSUME NEW b \in Batches, SkipClient(b) PROVE SessionInv'
    <2>1. b \in Session /\ b \notin Calls
        BY DEF Session
    <2>2. client[b] \in Clients /\ fresh[b] \in Percent
        BY <1>7, <2>1 DEF SkipClient, SessionInv
    <2>3. step'[b] \in {"commit", "idle"} /\ UNCHANGED <<client, fresh>> /\ OthersStay(b)
        BY <1>7, <2>1 DEF TypeOK, SkipClient, Processed, Goto, OthersStay
    <2> QED
        BY <2>1, <2>2, <2>3, SessionStep
<1>8. ASSUME NEW b \in Batches, CommitBatch(b) PROVE SessionInv'
    <2>1. b \in Session /\ b \notin Calls
        BY DEF Session
    <2>2. step'[b] = "idle" /\ OthersStay(b)
        BY <1>8, <2>1 DEF TypeOK, CommitBatch, Forget, Goto, OthersStay
    <2> QED
        BY <2>1, <2>2, SessionStep
<1>9. ASSUME NEW s \in Calls, StartCall(s) PROVE SessionInv'
    BY <1>2, <1>9 DEF StartCall, Session
<1>10. ASSUME NEW b \in Batches, NextClient(b) PROVE SessionInv'
    <2>1. PICK c \in Clients : Score(b, c)
        BY <1>10 DEF NextClient, TypeOK
    <2> QED
        BY <1>2, <1>10, <2>1 DEF NextClient, Session
<1>11. ASSUME \/ UNCHANGED vars
              \/ \E c \in Clients : Transact(c)
              \/ \E b \in Batches : StartBatch(b)
              \/ \E u \in Reviewers : ReadForReview(u) \/ WriteReview(u)
       PROVE  SessionInv'
    <2>1. UNCHANGED <<step, client, fresh, copy, draft>>
        BY <1>11 DEF vars, sessionVars, Transact, StartBatch, ReadForReview, WriteReview
    <2> QED
        BY <1>1, <2>1
<1>12. ASSUME NEW s \in Session, UpsertCollides(s) \/ BreakDeadlock(s) \/ SessionFails(s)
       PROVE  SessionInv'
    BY <1>5, <1>12 DEF UpsertCollides, BreakDeadlock, SessionFails
<1> QED
    BY <1>3, <1>4, <1>6, <1>7, <1>8, <1>9, <1>10, <1>11, <1>12
       DEF Next, CallStep, BatchStep, Refresh, Session

\* What is stored of a call that is answered stays as it is.
LEMMA AnswerStep ==
    ASSUME TypeOK, SessionInv, ReviewInv, ApprovalIsBacked, AnsweredIsStored, [Next]_vars
    PROVE  ApprovalIsBacked' /\ AnsweredIsStored'
<1> USE CreditAssumption, NoneAssumption
<1>1. ASSUME UNCHANGED <<request, status, asked>>,
             \A s \in Calls :
                /\ step'[s] = "done" <=> step[s] = "done"
                /\ step[s] = "done" => client'[s] = client[s]
      PROVE  ApprovalIsBacked' /\ AnsweredIsStored'
    <2>1. \A s \in Calls : step'[s] = "done" => profile'[client'[s]] # None
        BY <1>1, ProfileStays DEF SessionInv, AnsweredIsStored
    <2> QED
        BY <1>1, <2>1 DEF ApprovalIsBacked, AnsweredIsStored
<1>2. ASSUME UNCHANGED <<request, status, step, client, asked>>
      PROVE  ApprovalIsBacked' /\ AnsweredIsStored'
    BY <1>1, <1>2
<1>3. ASSUME NEW s \in Session, UNCHANGED <<request, status, asked>>, step[s] # "done",
             step'[s] # "done", OthersStay(s)
      PROVE  ApprovalIsBacked' /\ AnsweredIsStored'
    <2>1. ASSUME NEW o \in Calls
          PROVE  /\ step'[o] = "done" <=> step[o] = "done"
                 /\ step[o] = "done" => client'[o] = client[o]
        <3>1. CASE o = s
            BY <1>3, <3>1
        <3>2. CASE o # s
            BY <1>3, <3>2 DEF OthersStay, Session
        <3> QED
            BY <3>1, <3>2
    <2> QED
        BY <1>1, <1>3, <2>1
<1>4. ASSUME NEW s \in Session, LookupProfile(s) \/ Upsert(s)
      PROVE  ApprovalIsBacked' /\ AnsweredIsStored'
    <2>1. step[s] # "done" /\ UNCHANGED <<request, status, asked>>
        BY <1>4 DEF LookupProfile, Upsert, requestVars
    <2>2. step'[s] # "done" /\ OthersStay(s)
        BY <1>4 DEF TypeOK, LookupProfile, Upsert, Processed, Goto, OthersStay
    <2> QED
        BY <1>3, <2>1, <2>2
<1>5. ASSUME NEW s \in Session, step[s] \notin {"idle", "done", "error"}, RolledBack(s),
             UNCHANGED <<request, status, asked>>
      PROVE  ApprovalIsBacked' /\ AnsweredIsStored'
    <2>1. step'[s] # "done" /\ OthersStay(s)
        BY <1>5 DEF TypeOK, RolledBack, Forget, Goto, OthersStay
    <2> QED
        BY <1>3, <1>5, <2>1
<1>6. ASSUME NEW s \in Session, UpsertCollides(s) \/ BreakDeadlock(s) \/ SessionFails(s)
      PROVE  ApprovalIsBacked' /\ AnsweredIsStored'
    <2>1. step[s] \notin {"idle", "done", "error"}
        BY <1>6 DEF UpsertCollides, BreakDeadlock, SessionFails, Waits
    <2> QED
        BY <1>5, <1>6, <2>1 DEF UpsertCollides, BreakDeadlock, SessionFails, requestVars
<1>7. ASSUME NEW s \in Calls, StartCall(s) PROVE ApprovalIsBacked' /\ AnsweredIsStored'
    <2>1. s \in Session /\ step[s] = "idle" /\ UNCHANGED <<request, status>>
        BY <1>7 DEF StartCall, Session, requestVars
    <2>2. step'[s] = "lookup" /\ OthersStay(s)
        BY <1>7, <2>1 DEF TypeOK, StartCall, Score, Goto, OthersStay
    <2>3. \A o \in Calls \ {s} :
             UNCHANGED <<step[o], client[o], asked[o]>>
        BY <1>7, <2>2 DEF TypeOK, StartCall, OthersStay, Session
    <2>4. \A o \in Calls : step'[o] = "done" => profile'[client'[o]] # None
        BY <2>2, <2>3, ProfileStays DEF SessionInv, AnsweredIsStored
    <2>5. \A o \in Calls : status'[o] # "none" <=> step'[o] = "done" /\ asked'[o] # None
        BY <2>1, <2>2, <2>3 DEF AnsweredIsStored
    <2> QED
        BY <2>1, <2>4, <2>5 DEF ApprovalIsBacked, AnsweredIsStored
<1>8. ASSUME NEW s \in Calls, CommitCall(s) PROVE ApprovalIsBacked' /\ AnsweredIsStored'
    <2>1. /\ s \in Session /\ step[s] = "commit"
          /\ client[s] \in Clients /\ fresh[s] \in Percent /\ Holds(s, client[s])
        BY <1>8 DEF CommitCall, SessionInv, Session
    <2>2. step'[s] = "done" /\ UNCHANGED <<client, asked>> /\ OthersStay(s)
        BY <1>8, <2>1 DEF TypeOK, CommitCall, Goto, OthersStay
    <2>3. profile'[client[s]] # None
        BY <1>8, <2>1 DEF CommitCall, Committed, Holds
    <2>4. \A o \in Calls \ {s} : step'[o] = step[o]
        BY <2>2 DEF OthersStay, Session
    <2>5. \A o \in Calls : step'[o] = "done" => profile'[client'[o]] # None
        BY <2>2, <2>3, <2>4, ProfileStays DEF SessionInv, AnsweredIsStored
    <2>6. \A o \in Calls : status'[o] # "none" <=> step'[o] = "done" /\ asked'[o] # None
        <3>1. CASE asked[s] = None
            <4>1. UNCHANGED status /\ status[s] = "none"
                BY <1>8, <2>1, <3>1 DEF CommitCall, AnsweredIsStored
            <4> QED
                BY <2>2, <2>4, <3>1, <4>1 DEF AnsweredIsStored
        <3>2. CASE asked[s] # None
            <4>1. status' = [status EXCEPT ![s] = "pending_review"]
                BY <1>8, <3>2 DEF CommitCall
            <4> QED
                BY <2>2, <2>4, <3>2, <4>1 DEF TypeOK, AnsweredIsStored
        <3> QED
            BY <3>1, <3>2
    <2>7. ApprovalIsBacked'
        <3>1. CASE asked[s] = None
            BY <1>8, <3>1 DEF CommitCall, ApprovalIsBacked
        <3>2. CASE asked[s] # None
            <4>1. PICK flagged \in BOOLEAN :
                     request' = [request EXCEPT ![s] = NewRequest(s, flagged)]
                BY <1>8, <3>2 DEF CommitCall
            <4>2. asked[s] \in Amounts
                BY <3>2 DEF TypeOK
            <4>3. NewRequest(s, flagged).recommendation = "approve" =>
                     /\ ~NewRequest(s, flagged).flagged
                     /\ 2 * NewRequest(s, flagged).amount
                            <= Limit[Segment(NewRequest(s, flagged).score)]
                BY <2>1, <4>2, RequestType
            <4>4. request'[s] = NewRequest(s, flagged)
                BY <4>1 DEF TypeOK
            <4>5. \A o \in Calls \ {s} : request'[o] = request[o]
                BY <4>1 DEF TypeOK
            <4> QED
                BY <4>3, <4>4, <4>5 DEF ApprovalIsBacked
        <3> QED
            BY <3>1, <3>2
    <2> QED
        BY <2>5, <2>6, <2>7 DEF AnsweredIsStored
<1>9. ASSUME NEW u \in Reviewers, WriteReview(u)
      PROVE  ApprovalIsBacked' /\ AnsweredIsStored'
    <2> DEFINE r == review[u].of
    <2>1. r \in Calls /\ review[u].verdict \in {"approved", "rejected"} /\ status[r] # "none"
        BY <1>9 DEF TypeOK, WriteReview, ReviewInv
    <2>2. \A o \in Calls : status'[o] # "none" <=> status[o] # "none"
        BY <1>9, <2>1 DEF TypeOK, WriteReview
    <2>3. UNCHANGED <<request, step, client, asked>>
        BY <1>9 DEF WriteReview, sessionVars
    <2>4. UNCHANGED profile
        BY <1>9 DEF WriteReview, profileVars
    <2> QED
        BY <2>2, <2>3, <2>4 DEF ApprovalIsBacked, AnsweredIsStored
<1>10. ASSUME NEW b \in Batches, SkipClient(b) \/ CommitBatch(b)
       PROVE  ApprovalIsBacked' /\ AnsweredIsStored'
    <2>1. b \in Session /\ step[b] # "done" /\ UNCHANGED <<request, status, asked>>
        BY <1>10 DEF SkipClient, CommitBatch, Session, requestVars
    <2>2. step'[b] # "done" /\ OthersStay(b)
        BY <1>10, <2>1 DEF TypeOK, SkipClient, CommitBatch, Processed, Forget, Goto, OthersStay
    <2> QED
        BY <1>3, <2>1, <2>2
<1>11. ASSUME NEW b \in Batches, NextClient(b)
       PROVE  ApprovalIsBacked' /\ AnsweredIsStored'
    <2>1. PICK c \in todo[b] : Score(b, c)
        BY <1>11 DEF NextClient
    <2>2. b \in Session /\ step[b] # "done" /\ UNCHANGED <<request, status, asked>>
        BY <1>11 DEF NextClient, Session, requestVars
    <2>3. step'[b] # "done" /\ OthersStay(b)
        BY <1>11, <2>1, <2>2 DEF TypeOK, NextClient, Score, Goto, OthersStay
    <2> QED
        BY <1>3, <2>2, <2>3
<1>12. ASSUME \/ UNCHANGED vars
              \/ \E c \in Clients : Transact(c)
              \/ \E b \in Batches : StartBatch(b)
              \/ \E u \in Reviewers : ReadForReview(u)
       PROVE  ApprovalIsBacked' /\ AnsweredIsStored'
    <2>1. UNCHANGED <<request, status, step, client, asked>>
        BY <1>12 DEF vars, sessionVars, requestVars, Transact, StartBatch, ReadForReview
    <2> QED
        BY <1>2, <2>1
<1> QED
    BY <1>4, <1>6, <1>7, <1>8, <1>9, <1>10, <1>11, <1>12
       DEF Next, CallStep, BatchStep, Refresh, Session

\* A call that has been filed stays filed, whatever is decided about it.
LEMMA ReviewStep ==
    ASSUME TypeOK, ReviewInv, [Next]_vars
    PROVE  ReviewInv'
<1>1. CASE UNCHANGED <<status, review>>
    BY <1>1 DEF ReviewInv
<1>2. ASSUME NEW s \in Calls, CommitCall(s) PROVE ReviewInv'
    <2>1. status' = status \/ status' = [status EXCEPT ![s] = "pending_review"]
        BY <1>2 DEF CommitCall
    <2> QED
        BY <1>2, <2>1 DEF TypeOK, CommitCall, ReviewInv
<1>3. ASSUME NEW u \in Reviewers, ReadForReview(u) PROVE ReviewInv'
    <2>1. PICK r \in Calls, verdict \in {"approved", "rejected"} :
             /\ status[r] = "pending_review"
             /\ review' = [review EXCEPT ![u] = [of |-> r, verdict |-> verdict]]
        BY <1>3 DEF ReadForReview
    <2>2. status' = status
        BY <1>3 DEF ReadForReview
    <2> QED
        BY <2>1, <2>2 DEF TypeOK, ReviewInv
<1>4. ASSUME NEW u \in Reviewers, WriteReview(u) PROVE ReviewInv'
    <2>1. review[u].of \in Calls /\ review[u].verdict # "none"
        BY <1>4 DEF TypeOK, WriteReview
    <2> QED
        BY <1>4, <2>1 DEF TypeOK, WriteReview, ReviewInv
<1> QED
    BY <1>1, <1>2, <1>3, <1>4
       DEF Next, vars, Transact, StartCall, CallStep, BatchStep, StartBatch, NextClient,
           SkipClient, CommitBatch, Refresh, LookupProfile, Upsert, UpsertCollides,
           BreakDeadlock, SessionFails, requestVars

\* The inductive invariant holds initially.
LEMMA CreditInit ==
    ASSUME Init
    PROVE  TypeOK /\ CreditInv
<1> USE CreditAssumption, NoneAssumption DEF Init
<1>1. TypeOK
    BY DEF TypeOK, NoDraft, Step, Status
<1>2. CreditInv
    BY DEF CreditInv, SessionInv, ReviewInv, ApprovalIsBacked, AnsweredIsStored, Session
<1> QED
    BY <1>1, <1>2

\* The inductive invariant: types, what the sessions know and what is stored.
LEMMA CreditInductive == Spec => [](TypeOK /\ CreditInv)
<1>1. Init => TypeOK /\ CreditInv
    BY CreditInit
<1>2. TypeOK /\ CreditInv /\ [Next]_vars => (TypeOK /\ CreditInv)'
    BY TypeStep, SessionInvStep, ReviewStep, AnswerStep DEF CreditInv
<1> QED
    BY <1>1, <1>2, PTL DEF Spec

\* The desk's variables keep their types, whatever interleaves and fails.
THEOREM CreditTypeCorrect == Spec => []TypeOK
BY CreditInductive, PTL

\* Whatever colliding, blocked and lost refreshes make of the profiles, a request
\* recommended for approval is backed by the tier of the score it was given.
THEOREM CreditApprovalIsBacked == Spec => []ApprovalIsBacked
<1>1. CreditInv => ApprovalIsBacked
    BY DEF CreditInv
<1> QED
    BY <1>1, CreditInductive, PTL

\* A call that has been answered left a profile, and the request that it was for:
\* a crash, a collision or a deadlock takes both or neither.
THEOREM CreditAnsweredIsStored == Spec => []AnsweredIsStored
<1>1. CreditInv => AnsweredIsStored
    BY DEF CreditInv
<1> QED
    BY <1>1, CreditInductive, PTL

================================================================================
