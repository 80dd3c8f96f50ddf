------------------------------- MODULE CreditDesk -------------------------------
(***************************************************************************)
(* Credit profiles and credit requests.  API calls refresh a client's        *)
(* profile or file a request, which refreshes it first; the nightly batch     *)
(* refreshes the profiles of all clients, committing after every BatchSize of *)
(* them; compliance reviews the requests.                                     *)
(*                                                                         *)
(* A refresh scores the client's history, looks the profile up and writes it: *)
(* an INSERT of a unique client id, or an UPDATE of the columns that differ    *)
(* from the copy that was looked up.  Either waits for the sessions that have  *)
(* written the same profile and not committed.                                *)
(*                                                                         *)
(* What a client's transactions come to is a score in percent.  The limit of   *)
(* a profile changes with its tier and is not kept apart from it.              *)
(***************************************************************************)
EXTENDS Integers, FiniteSets

CONSTANTS
    Clients,
    Scores,         \* the scores that each client's history can come to
    Amounts,        \* the amounts of requests, in thousands of XAF
    Calls,          \* API calls: each a refresh or a request
    Batches,        \* runs of the nightly batch at a time
    BatchSize,      \* settings.credit_scoring_batch_size (500 in the code)
    Reviewers,
    MaxMoves,       \* bound: changes of histories
    MaxFaults,      \* bound: exceptions and crashes
    None

VARIABLES
    history,        \* what each client's transactions come to (None: it has none)
    profile,        \* customer_credit_profiles, committed
    draft,          \* profiles that each session has written and not committed
    step,           \* where each session stands
    client,         \* the client it is at
    fresh,          \* the score it has computed
    copy,           \* the profile it has looked up
    asked,          \* the amount a call asks for (None: a mere refresh)
    todo,           \* clients that a batch run has not come to
    done,           \* clients it has come to since its last commit
    request,        \* credit_requests, by the call that filed it
    status,         \* credit_requests.status
    review,         \* what each reviewer is about to write
    moves,
    faults

Session == Calls \cup Batches

profileVars == <<history, profile, moves>>
sessionVars == <<draft, step, client, fresh, copy, asked, todo, done, faults>>
requestVars == <<request, status, review>>
vars == <<profileVars, sessionVars, requestVars>>

ASSUME CreditAssumption ==
    /\ Scores \in [Clients -> SUBSET (0..100)]
    /\ Amounts \subseteq Nat
    /\ BatchSize \in Nat \ {0}
    /\ MaxMoves \in Nat /\ MaxFaults \in Nat
    /\ Calls \cap Batches = {}

-----------------------------------------------------------------------------
(* Tiers and recommendations                                                  *)

Tier == {"A", "B", "C", "D", "E"}

MinScore == [A |-> 80, B |-> 65, C |-> 50, D |-> 35, E |-> 0]

\* The best tier whose threshold the score reaches.
Segment(score) ==
    CHOOSE tier \in Tier :
        /\ score >= MinScore[tier]
        /\ \A better \in Tier : score >= MinScore[better] => MinScore[better] <= MinScore[tier]

Limit == [A |-> 2000, B |-> 1000, C |-> 400, D |-> 100, E |-> 25]

\* settings.credit_gaming_score_penalty
Penalised(score) == IF score >= 15 THEN score - 15 ELSE 0

Recommendation == {"approve", "review_carefully", "reject"}

Recommend(score, tier, amount) ==
    IF tier = "E" \/ score < MinScore["D"] \/ amount > Limit[tier]
    THEN "reject"
    ELSE IF 2 * amount <= Limit[tier] /\ score >= MinScore["B"]
         THEN "approve"
         ELSE "review_carefully"

-----------------------------------------------------------------------------

Percent == 0..100

Profile == [score : Percent, tier : Tier]

Request ==
    [client : Clients, amount : Amounts, score : Percent, flagged : BOOLEAN,
     recommendation : Recommendation]

ASSUME NoneAssumption == None \notin Clients \cup Percent \cup Amounts \cup Profile

Status == {"none", "pending_review", "approved", "rejected"}

Step == {"idle", "lookup", "write", "commit", "done", "error"}

TypeOK ==
    /\ \A c \in Clients : history[c] \in Scores[c] \cup {None}
    /\ profile \in [Clients -> Profile \cup {None}]
    /\ draft \in [Session -> [Clients -> Profile \cup {None}]]
    /\ step \in [Session -> Step]
    /\ client \in [Session -> Clients \cup {None}]
    /\ fresh \in [Session -> Percent \cup {None}]
    /\ copy \in [Session -> Profile \cup {None}]
    /\ asked \in [Calls -> Amounts \cup {None}]
    /\ todo \in [Batches -> SUBSET Clients]
    /\ done \in [Batches -> SUBSET Clients]
    /\ request \in [Calls -> Request \cup {None}]
    /\ status \in [Calls -> Status]
    /\ review \in [Reviewers -> [of : Calls, verdict : {"approved", "rejected"}] \cup {None}]
    /\ moves \in Nat /\ faults \in Nat

NoDraft == [c \in Clients |-> None]

Init ==
    /\ history = [c \in Clients |-> None]
    /\ profile = [c \in Clients |-> None]
    /\ draft = [s \in Session |-> NoDraft]
    /\ step = [s \in Session |-> "idle"]
    /\ client = [s \in Session |-> None]
    /\ fresh = [s \in Session |-> None]
    /\ copy = [s \in Session |-> None]
    /\ asked = [s \in Calls |-> None]
    /\ todo = [b \in Batches |-> {}]
    /\ done = [b \in Batches |-> {}]
    /\ request = [r \in Calls |-> None]
    /\ status = [r \in Calls |-> "none"]
    /\ review = [u \in Reviewers |-> None]
    /\ moves = 0 /\ faults = 0

Fault == faults < MaxFaults /\ faults' = faults + 1

Goto(s, next) == step' = [step EXCEPT ![s] = next]

\* A client's transactions or confirmed frauds change.
Transact(c) ==
    /\ moves < MaxMoves
    /\ moves' = moves + 1
    /\ \E score \in Scores[c] \ {history[c]} : history' = [history EXCEPT ![c] = score]
    /\ UNCHANGED <<profile, sessionVars, requestVars>>

-----------------------------------------------------------------------------
(* compute_credit_profile, in a call or in the batch                           *)

\* The session comes to a client and scores its history; a client without
\* enough transactions scores 0.
Score(s, c) ==
    /\ client' = [client EXCEPT ![s] = c]
    /\ fresh' = [fresh EXCEPT ![s] = IF history[c] = None THEN 0 ELSE history[c]]
    /\ Goto(s, "lookup")

LookupProfile(s) ==
    /\ step[s] = "lookup"
    /\ copy' = [copy EXCEPT ![s] = profile[client[s]]]
    /\ Goto(s, "write")
    /\ UNCHANGED <<profileVars, draft, client, fresh, asked, todo, done, faults, requestVars>>

Holds(s, c) == draft[s][c] # None

Waits(s, other) == step[s] = "write" /\ other # s /\ Holds(other, client[s])

Computed(s) == [score |-> fresh[s], tier |-> Segment(fresh[s])]

\* The row after the UPDATE: a column that the session has not changed keeps
\* the value of whoever wrote it last.
Updated(row, seen, new) ==
    [column \in {"score", "tier"} |->
        IF new[column] = seen[column] THEN row[column] ELSE new[column]]

\* The end of a batch, or of the run, is due for a commit.
Processed(b) ==
    /\ done' = [done EXCEPT ![b] = @ \cup {client[b]}]
    /\ Goto(b, IF Cardinality(done'[b]) = BatchSize \/ todo[b] = {} THEN "commit" ELSE "idle")

\* The profile is written: an UPDATE of the row that was looked up, or an INSERT.
Upsert(s) ==
    LET c == client[s] IN
    /\ step[s] = "write"
    /\ \A other \in Session : ~Waits(s, other)
    /\ copy[s] = None => profile[c] = None
    /\ draft' = [draft EXCEPT ![s][c] =
                    IF copy[s] = None THEN Computed(s)
                                      ELSE Updated(profile[c], copy[s], Computed(s))]
    /\ IF s \in Batches THEN Processed(s) ELSE Goto(s, "commit") /\ UNCHANGED done
    /\ copy' = [copy EXCEPT ![s] = None]
    /\ UNCHANGED <<profileVars, client, fresh, asked, todo, faults, requestVars>>

Forget(s) ==
    /\ client' = [client EXCEPT ![s] = None]
    /\ fresh' = [fresh EXCEPT ![s] = None]
    /\ copy' = [copy EXCEPT ![s] = None]

\* The session is rolled back.  A call is answered 500.  A batch run catches the
\* exception without a rollback: the database refuses the session from then on,
\* each client that is left fails, and the next commit ends the run.
RolledBack(s) ==
    /\ Forget(s)
    /\ draft' = [draft EXCEPT ![s] = NoDraft]
    /\ Goto(s, IF s \in Calls THEN "error" ELSE "idle")
    /\ todo' = IF s \in Batches THEN [todo EXCEPT ![s] = {}] ELSE todo
    /\ done' = IF s \in Batches THEN [done EXCEPT ![s] = {}] ELSE done

\* The client's profile was inserted since the lookup: the unique key is violated.
UpsertCollides(s) ==
    /\ step[s] = "write"
    /\ \A other \in Session : ~Waits(s, other)
    /\ copy[s] = None /\ profile[client[s]] # None
    /\ RolledBack(s)
    /\ UNCHANGED <<profileVars, asked, faults, requestVars>>

\* Sessions wait for each other in a ring, and the database makes one give way.
BreakDeadlock(s) ==
    /\ \E ring \in SUBSET Session :
          /\ s \in ring
          /\ \A member \in ring :
                /\ \E other \in ring : Waits(member, other)
                /\ \E other \in ring : Waits(other, member)
    /\ RolledBack(s)
    /\ UNCHANGED <<profileVars, asked, faults, requestVars>>

\* Mutant: the request is committed although its profile is not.
SessionFailsKeepsRequest(s) ==
    /\ step[s] \notin {"idle", "done", "error"}
    /\ Fault
    /\ RolledBack(s)
    /\ status' = IF s \in Calls /\ step[s] = "commit" /\ asked[s] # None
                 THEN [status EXCEPT ![s] = "pending_review"] ELSE status
    /\ UNCHANGED <<profileVars, asked, request, review>>

\* The process dies or loses its connection.
SessionFails(s) ==
    /\ step[s] \notin {"idle", "done", "error"}
    /\ Fault
    /\ RolledBack(s)
    /\ UNCHANGED <<profileVars, asked, requestVars>>

Committed(s) == [c \in Clients |-> IF Holds(s, c) THEN draft[s][c] ELSE profile[c]]

-----------------------------------------------------------------------------
(* The API                                                                    *)

\* POST /credit/profiles/{id}/refresh or POST /credit/request.
StartCall(s) ==
    /\ step[s] = "idle"
    /\ \E c \in Clients : Score(s, c)
    /\ \E amount \in Amounts \cup {None} : asked' = [asked EXCEPT ![s] = amount]
    /\ UNCHANGED <<profileVars, draft, copy, todo, done, faults, requestVars>>

\* Mutant: the profile is read back from the database before the request uses it.
SnapshotReread(s) == draft[s][client[s]]

\* What the request takes from the profile: the session's own object.
Snapshot(s) == Computed(s)

\* A suspicion of score inflation overrides the recommendation, whatever the
\* penalty makes of the score.
NewRequest(s, flagged) ==
    [client |-> client[s],
     amount |-> asked[s],
     score |-> IF flagged THEN Penalised(fresh[s]) ELSE fresh[s],
     flagged |-> flagged,
     recommendation |->
        IF flagged THEN "review_carefully"
                   ELSE Recommend(Snapshot(s).score, Snapshot(s).tier, asked[s])]

CommitCall(s) ==
    /\ step[s] = "commit"
    /\ profile' = Committed(s)
    /\ draft' = [draft EXCEPT ![s] = NoDraft]
    /\ IF asked[s] = None
          THEN UNCHANGED <<request, status>>
          ELSE /\ \E flagged \in {FALSE, history[client[s]] # None} :
                     request' = [request EXCEPT ![s] = NewRequest(s, flagged)]
               /\ status' = [status EXCEPT ![s] = "pending_review"]
    /\ Goto(s, "done")
    /\ UNCHANGED <<history, moves, client, fresh, copy, asked, todo, done, faults, review>>

\* Mutant: the verdict of the body is not checked to be one of the two.
ReadForReviewAny(u) ==
    /\ review[u] = None
    /\ \E r \in Calls, verdict \in Status :
          /\ status[r] = "pending_review"
          /\ review' = [review EXCEPT ![u] = [of |-> r, verdict |-> verdict]]
    /\ UNCHANGED <<profileVars, sessionVars, request, status>>

\* PUT /credit/requests/{id}/review: only a pending request can be reviewed.
ReadForReview(u) ==
    /\ review[u] = None
    /\ \E r \in Calls, verdict \in {"approved", "rejected"} :
          /\ status[r] = "pending_review"
          /\ review' = [review EXCEPT ![u] = [of |-> r, verdict |-> verdict]]
    /\ UNCHANGED <<profileVars, sessionVars, request, status>>

WriteReview(u) ==
    /\ review[u] # None
    /\ status' = [status EXCEPT ![review[u].of] = review[u].verdict]
    /\ review' = [review EXCEPT ![u] = None]
    /\ UNCHANGED <<profileVars, sessionVars, request>>

-----------------------------------------------------------------------------
(* The nightly batch                                                          *)

StartBatch(b) ==
    /\ step[b] = "idle"
    /\ todo[b] = {}
    /\ todo' = [todo EXCEPT ![b] = {c \in Clients : history[c] # None}]
    /\ todo'[b] # {}
    /\ UNCHANGED <<profileVars, draft, step, client, fresh, copy, asked, done, faults, requestVars>>

\* The ids come in no particular order.
NextClient(b) ==
    /\ step[b] = "idle"
    /\ \E c \in todo[b] :
          /\ Score(b, c)
          /\ todo' = [todo EXCEPT ![b] = @ \ {c}]
    /\ UNCHANGED <<profileVars, draft, copy, asked, done, faults, requestVars>>

\* An exception that is not the database's costs one client only.
SkipClient(b) ==
    /\ step[b] = "lookup"
    /\ Fault
    /\ Processed(b)
    /\ UNCHANGED <<profileVars, draft, client, fresh, copy, asked, todo, requestVars>>

\* Mutant: only full batches are committed.
CommitBatchFull(b) ==
    /\ step[b] = "commit"
    /\ profile' = IF Cardinality(done[b]) = BatchSize THEN Committed(b) ELSE profile
    /\ draft' = [draft EXCEPT ![b] = NoDraft]
    /\ done' = [done EXCEPT ![b] = {}]
    /\ Goto(b, "idle")
    /\ Forget(b)
    /\ UNCHANGED <<history, moves, asked, todo, faults, requestVars>>

CommitBatch(b) ==
    /\ step[b] = "commit"
    /\ profile' = Committed(b)
    /\ draft' = [draft EXCEPT ![b] = NoDraft]
    /\ done' = [done EXCEPT ![b] = {}]
    /\ Goto(b, "idle")
    /\ Forget(b)
    /\ UNCHANGED <<history, moves, asked, todo, faults, requestVars>>

-----------------------------------------------------------------------------

Refresh(s) ==
    LookupProfile(s) \/ Upsert(s) \/ UpsertCollides(s) \/ BreakDeadlock(s)

CallStep(s) == Refresh(s) \/ CommitCall(s)

BatchStep(b) == StartBatch(b) \/ NextClient(b) \/ Refresh(b) \/ CommitBatch(b)

Next ==
    \/ \E c \in Clients : Transact(c)
    \/ \E s \in Calls : StartCall(s) \/ CallStep(s) \/ SessionFails(s)
    \/ \E b \in Batches : BatchStep(b) \/ SkipClient(b) \/ SessionFails(b)
    \/ \E u \in Reviewers : ReadForReview(u) \/ WriteReview(u)

Spec == Init /\ [][Next]_vars

\* Handlers and batch runs go on, and the beat starts the batch every night.
\* A row lock is granted in the order of arrival, so nobody waits for ever.
FairSpec ==
    /\ Spec
    /\ \A s \in Calls : WF_vars(CallStep(s))
    /\ \A b \in Batches : WF_vars(BatchStep(b))
    /\ \A s \in Session, c \in Clients :
          SF_vars(client[s] = c /\ (Upsert(s) \/ UpsertCollides(s)))

-----------------------------------------------------------------------------
(* Properties                                                                 *)

\* A request recommended for approval is backed by the tier of its own score,
\* whatever other sessions have made of the profile in the meantime.
ApprovalIsBacked ==
    \A r \in Calls :
        request[r] # None /\ request[r].recommendation = "approve" =>
            /\ ~request[r].flagged
            /\ 2 * request[r].amount <= Limit[Segment(request[r].score)]

\* A call that has been answered has left a profile, and a request if it asked
\* for one: neither is committed without the other.
AnsweredIsStored ==
    \A s \in Calls :
        /\ step[s] = "done" => profile[client[s]] # None
        /\ status[s] # "none" <=> step[s] = "done" /\ asked[s] # None

\* However refreshes collide, block and overwrite each other, the nightly batch
\* brings every profile in line with its client's history in the end.
ProfileCatchesUp ==
    \A c \in Clients :
        <>[](history[c] # None =>
                profile[c] = [score |-> history[c], tier |-> Segment(history[c])])

-----------------------------------------------------------------------------
(* Inductive strengthening, for the proofs                                    *)

\* A session at a client knows it and its score, a profile that it has looked up
\* is still there, and a call that is about to commit has written its own.
SessionInv ==
    /\ \A s \in Session :
          /\ step[s] \in {"lookup", "write", "commit"} =>
                client[s] \in Clients /\ fresh[s] \in Percent
          /\ step[s] = "write" /\ copy[s] # None => profile[client[s]] # None
    /\ \A s \in Calls :
          /\ step[s] = "commit" => Holds(s, client[s])
          /\ step[s] = "done" => client[s] \in Clients

\* Only what has been filed is reviewed.
ReviewInv == \A u \in Reviewers : review[u] # None => status[review[u].of] # "none"

CreditInv == SessionInv /\ ReviewInv /\ ApprovalIsBacked /\ AnsweredIsStored

================================================================================
