------------------------------ MODULE Catalog -------------------------------
(***************************************************************************)
(* The list of labs behind a cache: getOrSet reads the key, on a miss      *)
(* fetches the list from the database, stores it with a time to live and   *)
(* answers.  Readers overlap at every call, seeding adds scenarios under   *)
(* them, any call of Redis may reject (with its effect done or not), and   *)
(* the query may reject, which fails the request.  Rows are only added, so *)
(* a list is the number of scenarios it has.  A key also goes when Redis   *)
(* restarts, which is an expiry that comes early.                          *)
(*                                                                         *)
(* A definition introduced as a slip is used by no specification: it is    *)
(* a mistake this code could well contain, kept here to show that a        *)
(* property would notice it.                                               *)
(***************************************************************************)
EXTENDS Naturals

CONSTANTS
    Readers,          \* clients that list the labs, again and again
    CatalogSize,      \* bound: scenarios that seeding adds
    NoList

ASSUME CatalogAssumption == CatalogSize \in Nat /\ NoList \notin 0..CatalogSize

VARIABLES
    catalog,       \* scenarios in the database
    cached,        \* the list under the key labs:list
    reading,       \* where each reader is in getOrSet
    list,          \* the list its fetcher has found
    answered,      \* the last list it was answered
    invalidating   \* an invalidate has found the key and will delete it

readers == <<reading, list, answered>>
catalogVars == <<catalog, cached, readers, invalidating>>

Lists == 0..CatalogSize

CatalogTypeOK ==
    /\ catalog \in Lists
    /\ cached \in Lists \cup {NoList}
    /\ reading \in [Readers -> {"idle", "get", "fetch", "set"}]
    /\ list \in [Readers -> Lists \cup {NoList}]
    /\ answered \in [Readers -> Lists \cup {NoList}]
    /\ invalidating \in BOOLEAN

CatalogInit ==
    /\ catalog = 0
    /\ cached = NoList
    /\ reading = [r \in Readers |-> "idle"]
    /\ list = [r \in Readers |-> NoList]
    /\ answered = [r \in Readers |-> NoList]
    /\ invalidating = FALSE

ReaderMoves(r, from, to) ==
    /\ reading[r] = from
    /\ reading' = [reading EXCEPT ![r] = to]

Request(r) ==
    /\ ReaderMoves(r, "idle", "get")
    /\ UNCHANGED <<catalog, cached, list, answered, invalidating>>

GetHit(r) ==
    /\ cached # NoList
    /\ ReaderMoves(r, "get", "idle")
    /\ answered' = [answered EXCEPT ![r] = cached]
    /\ UNCHANGED <<catalog, cached, list, invalidating>>

\* The key is not there or the call rejects, whatever is there.
GetMiss(r) ==
    /\ ReaderMoves(r, "get", "fetch")
    /\ UNCHANGED <<catalog, cached, list, answered, invalidating>>

\* Slip: the fetcher remembers what it has once found.
FetchOnce(r) ==
    /\ ReaderMoves(r, "fetch", "set")
    /\ list' = [list EXCEPT ![r] = IF answered[r] = NoList THEN catalog ELSE answered[r]]
    /\ UNCHANGED <<catalog, cached, answered, invalidating>>

Fetch(r) ==
    /\ ReaderMoves(r, "fetch", "set")
    /\ list' = [list EXCEPT ![r] = catalog]
    /\ UNCHANGED <<catalog, cached, answered, invalidating>>

FetchFails(r) ==
    /\ ReaderMoves(r, "fetch", "idle")
    /\ UNCHANGED <<catalog, cached, list, answered, invalidating>>

\* The answer is the list that was fetched, stored or not.  A list that was
\* fetched earlier may well take the place of one fetched later.
SetList(r) ==
    /\ ReaderMoves(r, "set", "idle")
    /\ cached' \in {list[r], cached}
    /\ answered' = [answered EXCEPT ![r] = list[r]]
    /\ list' = [list EXCEPT ![r] = NoList]
    /\ UNCHANGED <<catalog, invalidating>>

Expire ==
    /\ cached # NoList
    /\ cached' = NoList
    /\ UNCHANGED <<catalog, readers, invalidating>>

\* invalidate has no caller in the repository: anybody may call it.
FindKeys ==
    /\ ~invalidating
    /\ cached # NoList
    /\ invalidating' = TRUE
    /\ UNCHANGED <<catalog, cached, readers>>

DeleteKeys ==
    /\ invalidating
    /\ invalidating' = FALSE
    /\ cached' \in {NoList, cached}
    /\ UNCHANGED <<catalog, readers>>

AddScenario ==
    /\ catalog < CatalogSize
    /\ catalog' = catalog + 1
    /\ UNCHANGED <<cached, readers, invalidating>>

ReaderNext(r) ==
    GetHit(r) \/ GetMiss(r) \/ Fetch(r) \/ FetchFails(r) \/ SetList(r)

CatalogNext ==
    \/ \E r \in Readers : Request(r) \/ ReaderNext(r)
    \/ Expire \/ FindKeys \/ DeleteKeys \/ AddScenario

\* Calls are answered and a time to live ends.  Nobody needs to ask or to add
\* anything, no call needs to fail, and an invalidation needs not to come.
CatalogFairness ==
    /\ \A r \in Readers : WF_catalogVars(ReaderNext(r))
    /\ WF_catalogVars(Expire)

CatalogSpec == CatalogInit /\ [][CatalogNext]_catalogVars /\ CatalogFairness

-----------------------------------------------------------------------------
(* Properties.                                                             *)

\* A list that misses a scenario does not stay: although a slow reader may
\* store an old list over a new one, when no more scenarios are added (the
\* bound sees to that) there comes a time from which on the cache holds the
\* whole list or none, and no request is on its way with less.
OldListsEnd ==
    <>[](/\ cached \in {NoList, catalog}
         /\ \A r \in Readers : list[r] \in {NoList, catalog})

=============================================================================
