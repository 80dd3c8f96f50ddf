------------------------------- MODULE BackOffice -------------------------------
(***************************************************************************)
(* The parts of the system around the pipeline, side by side: what a client's      *)
(* history scores, the watch over a loan, the graph and its rings, the sanctions      *)
(* list, the reports to COBAC, the client records and the import of labelled data.     *)
(* They share no rows with one another, so a behaviour is one of one part: the part is    *)
(* chosen at the start and the others stay as they are.  The graph's two tasks are two    *)
(* parts, on the same state.                                                  *)
(***************************************************************************)
EXTENDS CreditHistory, LoanMonitoring, GraphLayer, WatchlistSync, ReportFiling,
        CustomerRecords, DatasetImport

VARIABLE part

officeVars == <<part, creditVars, loanVars, graphVars, watchlistVars, filingVars, recordVars,
                importVars>>

Part == {"history", "loan", "guilt", "rings", "watchlist", "filing", "record", "import"}

BackOfficeTypeOK ==
    /\ part \in Part
    /\ CASE part = "history" -> CreditTypeOK [] part = "loan" -> LoanTypeOK
         [] part \in {"guilt", "rings"} -> GraphTypeOK [] part = "watchlist" -> WatchlistTypeOK
         [] part = "filing" -> FilingTypeOK [] part = "record" -> RecordTypeOK
         [] part = "import" -> ImportTypeOK

OfficeInit ==
    /\ part \in Part
    /\ CreditInit /\ LoanInit /\ GraphInit /\ WatchlistInit /\ FilingInit /\ RecordInit /\ ImportInit
    /\ part # "watchlist" => published = Names
    /\ part # "record" => client = CHOOSE x \in Clients : TRUE

OfficeNext ==
    \/ /\ part = "history" /\ CreditNext
       /\ UNCHANGED <<part, loanVars, graphVars, watchlistVars, filingVars, recordVars, importVars>>
    \/ /\ part = "loan" /\ LoanNext
       /\ UNCHANGED <<part, creditVars, graphVars, watchlistVars, filingVars, recordVars, importVars>>
    \/ /\ part \in {"guilt", "rings"} /\ (IF part = "guilt" THEN GuiltNext ELSE RingNext)
       /\ UNCHANGED <<part, creditVars, loanVars, watchlistVars, filingVars, recordVars, importVars>>
    \/ /\ part = "watchlist" /\ WatchlistNext
       /\ UNCHANGED <<part, creditVars, loanVars, graphVars, filingVars, recordVars, importVars>>
    \/ /\ part = "filing" /\ FilingNext
       /\ UNCHANGED <<part, creditVars, loanVars, graphVars, watchlistVars, recordVars, importVars>>
    \/ /\ part = "record" /\ RecordNext
       /\ UNCHANGED <<part, creditVars, loanVars, graphVars, watchlistVars, filingVars, importVars>>
    \/ /\ part = "import" /\ ImportNext
       /\ UNCHANGED <<part, creditVars, loanVars, graphVars, watchlistVars, filingVars, recordVars>>

OfficeSpec == OfficeInit /\ [][OfficeNext]_officeVars

================================================================================
