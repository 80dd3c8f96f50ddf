----------------------------- MODULE CustomerRecords ----------------------------
(***************************************************************************)
(* The local record of one Fineract client: made when the front end first asks    *)
(* for its status or reports its identity, from Fineract's data when Fineract       *)
(* answers and as a stub when it does not.  A record that is there is not fetched    *)
(* again.                                                                    *)
(*                                                                         *)
(* A client is [country, entity]: the tier of its country, and whether it is a       *)
(* legal person.  Nationality and residence are one field: the code falls back from    *)
(* the second to the first.  Nothing in the repository sets the PEP flag, the         *)
(* sanctions flag or the owners of a record.                                   *)
(***************************************************************************)
EXTENDS Absent

CONSTANTS
    Clients,        \* what Fineract may have of the client
    Calls,          \* requests to the two endpoints
    Persons         \* identities that webank-verify reports

VARIABLES
    client,         \* the client as Fineract has it
    record,         \* the committed row, or None
    call,           \* per request: [op, person, step, data, copy, row]: copy as it was
                    \* loaded, row as the session leaves it
    answered,       \* identities whose kyc-sync was answered 200
    crossed         \* whether two sessions have filled one row at a time

recordVars == <<client, record, call, answered, crossed>>

Risk == {"low", "medium", "high"}
Record == [country : {"critical", "high", "elevated", "other", None}, entity : BOOLEAN,
           risk : Risk, edd : BOOLEAN, person : Persons \cup {None}]
Call == [op : {"aml-status", "kyc-sync", None}, person : Persons \cup {None},
         step : {"new", "missing", "fetched", "filled", "done", "error"},
         data : Clients \cup {None}, copy : Record \cup {None}, row : Record \cup {None}]

ASSUME RecordAssumption ==
    /\ Clients \subseteq [country : {"critical", "high", "elevated", "other"}, entity : BOOLEAN]
    /\ None \notin Persons \cup Record \cup Clients

RecordTypeOK ==
    /\ client \in Clients
    /\ record \in Record \cup {None}
    /\ call \in [Calls -> Call]
    /\ answered \subseteq Persons /\ crossed \in BOOLEAN

Ended(step) ==
    [op |-> None, person |-> None, step |-> step, data |-> None, copy |-> None, row |-> None]

RecordInit ==
    /\ client \in Clients
    /\ record = None /\ answered = {} /\ crossed = FALSE
    /\ call = [c \in Calls |-> Ended("new")]

-----------------------------------------------------------------------------
(* _assess_risk                                                              *)

\* Reasons for enhanced due diligence: the country's tier, a legal person without owners.
NeedsEdd(country, entity) == country \in {"critical", "high", "elevated"} \/ entity

RiskOf(country, entity) ==
    IF country = "critical" THEN "high"
    ELSE IF country \in {"high", "elevated"} \/ entity THEN "medium" ELSE "low"

Assessed(r) ==
    [r EXCEPT !.risk = RiskOf(r.country, r.entity), !.edd = NeedsEdd(r.country, r.entity)]

\* A stub says medium risk, and is then assessed like every record.
Stub == [country |-> None, entity |-> FALSE, risk |-> "medium", edd |-> FALSE, person |-> None]

\* _map_fineract_to_customer, over the fields of a record.
Mapped(r, data) == [r EXCEPT !.country = data.country, !.entity = data.entity]

-----------------------------------------------------------------------------
(* The two endpoints                                                         *)

ClientChanges(data) ==
    /\ data # client /\ client' = data
    /\ UNCHANGED <<record, call, answered, crossed>>

\* get_or_sync_customer: the record, or None of a client not seen before.
Arrive(c, op, person) ==
    /\ call[c].step = "new"
    /\ (op = "kyc-sync") <=> (person # None)
    /\ call' = [call EXCEPT ![c] =
           [op |-> op, person |-> person, data |-> None, copy |-> record, row |-> record,
            step |-> IF record = None THEN "missing" ELSE "filled"]]
    /\ UNCHANGED <<client, record, answered, crossed>>

\* _fetch_fineract_client: the client, or nothing when Fineract fails or is not reached.
Fetch(c) ==
    /\ call[c].step = "missing"
    /\ \E data \in {client, None} :
          call' = [call EXCEPT ![c].step = "fetched", ![c].data = data]
    /\ UNCHANGED <<client, record, answered, crossed>>

\* Mutant: the row is always written anew.
FillAnew(c) ==
    LET data == call[c].data
    IN  /\ call[c].step = "fetched"
        /\ call' = [call EXCEPT ![c].step = "filled", ![c].copy = record,
                 ![c].row = Assessed(IF data = None THEN Stub ELSE Mapped(Stub, data))]
        /\ UNCHANGED <<client, record, answered, crossed>>

\* sync_customer_from_fineract after the fetch: the row is looked up again, filled or made,
\* and assessed.
Fill(c) ==
    LET data == call[c].data
        base == IF record = None THEN Stub ELSE record
    IN  /\ call[c].step = "fetched"
        /\ call' = [call EXCEPT ![c].step = "filled", ![c].copy = record,
                 ![c].row = Assessed(IF data = None THEN base ELSE Mapped(base, data))]
        /\ UNCHANGED <<client, record, answered, crossed>>

\* kyc_sync sets the identity.
Left(c) ==
    IF call[c].op = "kyc-sync" THEN [call[c].row EXCEPT !.person = call[c].person]
    ELSE call[c].row

\* The columns that the session changed; the data of another session that it did not see
\* may be under them.
Update(c) ==
    LET copy == call[c].copy
        row == Left(c)
        data(r) == <<r.country, r.entity>>
    IN  /\ record' = [f \in DOMAIN record |-> IF row[f] = copy[f] THEN record[f] ELSE row[f]]
        /\ crossed' = (crossed \/ (data(row) # data(copy) /\ data(copy) # data(record)))

\* The second INSERT of a client fails on the unique key, and so does its request.
Commit(c) ==
    /\ call[c].step = "filled"
    /\ IF call[c].copy = None /\ record # None
       THEN /\ call' = [call EXCEPT ![c] = Ended("error")]
            /\ UNCHANGED <<record, answered, crossed>>
       ELSE /\ IF record = None THEN record' = Left(c) /\ UNCHANGED crossed ELSE Update(c)
            /\ answered' = answered \cup ({call[c].person} \ {None})
            /\ call' = [call EXCEPT ![c] = Ended("done")]
    /\ UNCHANGED client

CallFails(c) ==
    /\ call[c].step \in {"missing", "fetched", "filled"}
    /\ call' = [call EXCEPT ![c] = Ended("error")]
    /\ UNCHANGED <<client, record, answered, crossed>>

RecordNext ==
    \/ \E data \in Clients : ClientChanges(data)
    \/ \E c \in Calls :
          \/ \E p \in Persons : Arrive(c, "kyc-sync", p)
          \/ Arrive(c, "aml-status", None)
          \/ Fetch(c) \/ Fill(c) \/ Commit(c) \/ CallFails(c)

RecordSpec == RecordInit /\ [][RecordNext]_recordVars

-----------------------------------------------------------------------------
(* Properties                                                                *)

\* An identity that was answered 200 stays on the record until another takes its place, in
\* whatever way two requests for a new client cross; and unless two sessions filled the row
\* at a time, the due diligence asked for fits the risk, and both the data on the row
\* (kyc_service.py:80-127, 143-201, api/customers.py:164-193).
IdentityIsKept ==
    /\ answered # {} => record # None /\ record.person \in answered
    /\ record # None /\ ~crossed =>
          /\ record.edd <=> record.risk # "low"
          /\ record.country = "critical" => record.risk = "high"
          /\ record.entity => record.risk # "low"

================================================================================
