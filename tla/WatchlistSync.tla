------------------------------ MODULE WatchlistSync -----------------------------
(***************************************************************************)
(* The sanctions list: a task downloads the publication of the day every six     *)
(* hours and replaces the rows of its source, while transactions are screened      *)
(* against the rows and old screenings are purged.                             *)
(*                                                                         *)
(* A row stands for one name of one sync's copy.  Each sync runs in a session of    *)
(* its own under READ COMMITTED: its DELETE takes the rows committed when it       *)
(* starts, its INSERTs appear at its commit.  Time is counted in retention periods. *)
(***************************************************************************)
EXTENDS Integers, FiniteSets

CONSTANTS
    Names,          \* sanctioned parties, those screened too
    Syncs,          \* runs of the task
    MaxAge,         \* bound: the clock
    MaxScreenings   \* bound: screenings

VARIABLES
    published,      \* what the publisher lists today
    sync,           \* per run: [step, entries, saw, after]
    rows,           \* committed rows, each [name, by]
    screenings,     \* results, each [nr, name, status, at, listed]: whether a list was loaded
    years,          \* the clock
    always,         \* names on every publication so far
    loaded          \* whether a list has ever been committed

ASSUME WatchlistAssumption == MaxAge \in Nat /\ MaxScreenings \in Nat

watchlistVars == <<published, sync, rows, screenings, years, always, loaded>>

SyncStep == {"idle", "parsed", "deleted", "over"}
Copy == [name : Names, by : Syncs]
Sync == [step : SyncStep, entries : SUBSET Names, saw : SUBSET Copy, after : SUBSET Syncs]

WatchlistTypeOK ==
    /\ published \subseteq Names /\ always \subseteq Names
    /\ sync \in [Syncs -> Sync]
    /\ rows \subseteq Copy
    /\ \A r \in screenings :
          /\ r.nr \in 1 .. MaxScreenings /\ r.name \in Names /\ r.at \in 0 .. years
          /\ r.status \in {"clear", "potential_match"} /\ r.listed \in BOOLEAN
    /\ IsFiniteSet(screenings) /\ years \in 0 .. MaxAge /\ loaded \in BOOLEAN

WatchlistInit ==
    /\ published \in SUBSET Names \ {{}} /\ always = published
    /\ sync = [s \in Syncs |-> [step |-> "idle", entries |-> {}, saw |-> {}, after |-> {}]]
    /\ rows = {} /\ screenings = {} /\ years = 0 /\ loaded = FALSE

-----------------------------------------------------------------------------

Publish(list) ==
    /\ list # published /\ list # {}
    /\ published' = list /\ always' = always \cap list
    /\ UNCHANGED <<sync, rows, screenings, years, loaded>>

\* Mutant: a download that parses to nothing is a list like any other.
ParseEmpty(s) ==
    /\ sync[s].step = "idle"
    /\ sync' = [sync EXCEPT ![s].step = "parsed", ![s].entries = {}]
    /\ UNCHANGED <<published, rows, screenings, years, always, loaded>>

\* The request fails, answers another status than 200, or parses to no entry.
DownloadFails(s) ==
    /\ sync[s].step = "idle"
    /\ sync' = [sync EXCEPT ![s].step = "over"]
    /\ UNCHANGED <<published, rows, screenings, years, always, loaded>>

\* _parse_ofac_sdn_xml: an entry for each one that has a name.
Download(s) ==
    /\ sync[s].step = "idle"
    /\ sync' = [sync EXCEPT ![s].step = "parsed", ![s].entries = published]
    /\ UNCHANGED <<published, rows, screenings, years, always, loaded>>

\* The DELETE of the source's rows, in a session that stays open.
DeleteOld(s) ==
    /\ sync[s].step = "parsed"
    /\ sync' = [sync EXCEPT ![s].step = "deleted", ![s].saw = rows,
                            ![s].after = {o \in Syncs : sync[o].step = "deleted"}]
    /\ UNCHANGED <<published, rows, screenings, years, always, loaded>>

\* It waits for a sync that is deleting the same rows, and takes none that this one inserts.
CommitList(s) ==
    /\ sync[s].step = "deleted"
    /\ \A o \in sync[s].after : sync[o].step = "deleted" => sync[o].saw \cap sync[s].saw = {}
    /\ rows' = (rows \ sync[s].saw) \cup {[name |-> n, by |-> s] : n \in sync[s].entries}
    /\ sync' = [sync EXCEPT ![s].step = "over", ![s].entries = {}, ![s].saw = {}]
    /\ loaded' = TRUE
    /\ UNCHANGED <<published, screenings, years, always>>

\* The worker is lost, or the session fails: it is rolled back.
SyncFails(s) ==
    /\ sync[s].step \in {"parsed", "deleted"}
    /\ sync' = [sync EXCEPT ![s].step = "over", ![s].entries = {}, ![s].saw = {}]
    /\ UNCHANGED <<published, rows, screenings, years, always, loaded>>

\* screen_name: a match when some row, here one with the same name, is close enough.
Screen(name) ==
    /\ Cardinality(screenings) < MaxScreenings
    /\ LET nr == CHOOSE k \in 1 .. MaxScreenings : \A r \in screenings : r.nr # k
       IN  screenings' = screenings \cup
              {[nr |-> nr, name |-> name, at |-> years, listed |-> loaded,
                status |-> IF \E r \in rows : r.name = name THEN "potential_match" ELSE "clear"]}
    /\ UNCHANGED <<published, sync, rows, years, always, loaded>>

\* _enforce_retention: clear results older than the retention period are deleted.
Purge ==
    /\ screenings' = {r \in screenings : ~(r.at < years - 1 /\ r.status = "clear")}
    /\ UNCHANGED <<published, sync, rows, years, always, loaded>>

NextPeriod ==
    /\ years < MaxAge /\ years' = years + 1
    /\ UNCHANGED <<published, sync, rows, screenings, always, loaded>>

WatchlistNext ==
    \/ \E list \in SUBSET Names : Publish(list)
    \/ \E s \in Syncs :
          \/ DownloadFails(s) \/ Download(s) \/ DeleteOld(s) \/ CommitList(s) \/ SyncFails(s)
    \/ \E n \in Names : Screen(n)
    \/ Purge \/ NextPeriod

WatchlistSpec == WatchlistInit /\ [][WatchlistNext]_watchlistVars

-----------------------------------------------------------------------------
(* Properties                                                                *)

\* The refresh leaves no gap: once a list has been loaded, a party that no publication has
\* dropped is on it at every moment, through failed downloads, lost workers and syncs that
\* overlap, and is never screened as clear; and the list holds the copies of two syncs only when the two overlapped
\* (watchlist_sync.py:164-228).
ListHasNoGap ==
    /\ loaded => \A n \in always : \E r \in rows : r.name = n
    /\ \A r \in screenings : r.listed /\ r.status = "clear" => r.name \notin always
    /\ \A r, q \in rows : r.by # q.by => r.by \in sync[q.by].after \/ q.by \in sync[r.by].after

================================================================================
