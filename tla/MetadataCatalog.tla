---------------------------- MODULE MetadataCatalog ----------------------------
(***************************************************************************)
(* The persisted catalogue of one connection's schema: snapshots with      *)
(* consecutive versions, at most one of them active.  A refresh runs under  *)
(* a lock of the process (services/metadata_catalog_service.py); the lock  *)
(* is taken before the block whose finally clause releases it, and the     *)
(* application's database may fail at every statement.                     *)
(***************************************************************************)
EXTENDS Naturals, Sequences, FiniteSets

CONSTANTS
    Refreshers,     \* requests to refresh the catalogue
    Nobody,
    MaxFailures     \* bound on the failures of the application's database

VARIABLES
    snapshots,      \* committed rows; a row's version is its index
    lock,           \* who took the connection's lock last, Nobody if released
    refreshing,     \* where each refresh stands
    previous,       \* the version each refresh read as the active one, or 0
    mine,           \* the version of each refresh's candidate, or 0
    statementFailures, \* failures of the application's database so far
    told            \* what each request was told

catalogVars == <<snapshots, lock, refreshing, previous, mine, statementFailures, told>>

ASSUME CatalogAssumption == Nobody \notin Refreshers /\ MaxFailures \in Nat

CatalogStages ==
    {"new", "locked", "reading", "discovering", "activated", "failing", "over"}
RefreshAnswers == {"none", "refreshed", "current", "in progress", "failed"}

Snapshots == [status : {"DISCOVERING", "READY", "FAILED"}, active : BOOLEAN]

CatalogTypeOK ==
    /\ snapshots \in Seq(Snapshots)
    /\ lock \in Refreshers \union {Nobody}
    /\ refreshing \in [Refreshers -> CatalogStages]
    /\ previous \in [Refreshers -> 0..Len(snapshots)]
    /\ mine \in [Refreshers -> 0..Len(snapshots)]
    /\ statementFailures \in 0..MaxFailures
    /\ told \in [Refreshers -> RefreshAnswers]

CatalogInit ==
    /\ snapshots = <<>>
    /\ lock = Nobody
    /\ refreshing = [r \in Refreshers |-> "new"]
    /\ previous = [r \in Refreshers |-> 0]
    /\ mine = [r \in Refreshers |-> 0]
    /\ statementFailures = 0
    /\ told = [r \in Refreshers |-> "none"]

ActiveVersions ==
    {v \in DOMAIN snapshots : snapshots[v].active /\ snapshots[v].status = "READY"}

Leaves(r, said) ==
    /\ refreshing' = [refreshing EXCEPT ![r] = "over"]
    /\ told' = [told EXCEPT ![r] = said]

Continues(r, next) ==
    /\ refreshing' = [refreshing EXCEPT ![r] = next]
    /\ UNCHANGED told

DatabaseFails == statementFailures < MaxFailures /\ statementFailures' = statementFailures + 1

----------------------------------------------------------------------------
TryLock(r) == lock = Nobody /\ lock' = r

Enter(r) ==
    /\ refreshing[r] = "new"
    /\ TryLock(r)
    /\ Continues(r, "locked")
    /\ UNCHANGED <<snapshots, previous, mine, statementFailures>>

\* Another refresh has the lock: its requester gets the active snapshot, or
\* an error if there is none.
TurnedAway(r) ==
    /\ refreshing[r] = "new"
    /\ lock # Nobody
    /\ Leaves(r, IF ActiveVersions = {} THEN "in progress" ELSE "current")
    /\ UNCHANGED <<snapshots, lock, previous, mine, statementFailures>>

ReadPrevious(r) ==
    /\ refreshing[r] = "locked"
    /\ Cardinality(ActiveVersions) <= 1
    /\ previous' = [previous EXCEPT ![r] = IF ActiveVersions = {} THEN 0
                                           ELSE CHOOSE v \in ActiveVersions : TRUE]
    /\ Continues(r, "reading")
    /\ UNCHANGED <<snapshots, lock, mine, statementFailures>>

\* The next version is read and the candidate committed.
AddCandidate(r) ==
    /\ refreshing[r] = "reading"
    /\ snapshots' = Append(snapshots, [status |-> "DISCOVERING", active |-> FALSE])
    /\ mine' = [mine EXCEPT ![r] = Len(snapshots) + 1]
    /\ Continues(r, "discovering")
    /\ UNCHANGED <<lock, previous, statementFailures>>

\* None of those statements is inside the try block: the lock stays taken.
FailBeforeTry(r) ==
    /\ refreshing[r] \in {"locked", "reading"}
    /\ DatabaseFails
    /\ Leaves(r, "failed")
    /\ UNCHANGED <<snapshots, lock, previous, mine>>

\* Fault: the snapshot that was active stays so.
ActivateBeside(r) ==
    [snapshots EXCEPT ![mine[r]] = [status |-> "READY", active |-> TRUE]]

\* One transaction makes the candidate READY and active and the previous
\* snapshot inactive.
Activated(r) ==
    [v \in DOMAIN snapshots |->
        IF v = mine[r] THEN [status |-> "READY", active |-> TRUE]
        ELSE IF v = previous[r] THEN [snapshots[v] EXCEPT !.active = FALSE]
        ELSE snapshots[v]]

Activate(r) ==
    /\ refreshing[r] = "discovering"
    /\ snapshots' = Activated(r)
    /\ Continues(r, "activated")
    /\ UNCHANGED <<lock, previous, mine, statementFailures>>

Refreshed(r) ==
    /\ refreshing[r] = "activated"
    /\ lock' = Nobody
    /\ Leaves(r, "refreshed")
    /\ UNCHANGED <<snapshots, previous, mine, statementFailures>>

\* The customer's database refuses a query, is not an SQL Server, or the
\* application's fails to store what was discovered.
DiscoveryFails(r) ==
    /\ refreshing[r] = "discovering"
    /\ Continues(r, "failing")
    /\ UNCHANGED <<snapshots, lock, previous, mine, statementFailures>>

\* The snapshot is active, but cannot be read back: the same handler.
ReadBackFails(r) ==
    /\ refreshing[r] = "activated"
    /\ DatabaseFails
    /\ Continues(r, "failing")
    /\ UNCHANGED <<snapshots, lock, previous, mine>>

\* The candidate is marked FAILED unless that fails too.
Fail(r) ==
    /\ refreshing[r] = "failing"
    /\ \/ /\ snapshots' = [snapshots EXCEPT ![mine[r]].status = "FAILED"]
          /\ UNCHANGED statementFailures
       \/ DatabaseFails /\ UNCHANGED snapshots
    /\ lock' = Nobody
    /\ Leaves(r, "failed")
    /\ UNCHANGED <<previous, mine>>

\* The process restarts: its locks are new, the requests it served are gone.
RestartCatalog ==
    /\ lock # Nobody
    /\ lock' = Nobody
    /\ refreshing' = [r \in Refreshers |-> IF refreshing[r] = "new" THEN "new" ELSE "over"]
    /\ UNCHANGED <<snapshots, previous, mine, statementFailures, told>>

Refresh(r) ==
    \/ Enter(r) \/ TurnedAway(r) \/ ReadPrevious(r) \/ AddCandidate(r)
    \/ FailBeforeTry(r) \/ Activate(r) \/ Refreshed(r)
    \/ DiscoveryFails(r) \/ ReadBackFails(r) \/ Fail(r)

CatalogNext == (\E r \in Refreshers : Refresh(r)) \/ RestartCatalog

CatalogSpec == CatalogInit /\ [][CatalogNext]_catalogVars

----------------------------------------------------------------------------
Ready == {v \in DOMAIN snapshots : snapshots[v].status = "READY"}

\* Once a refresh has succeeded there is an active snapshot, it is the
\* newest that succeeded, and there is no other, whatever failed since and at
\* whichever statement - but for one way to fail, which
\* PreviousRemainsActive is about: a snapshot that was activated and could
\* not be read back is marked FAILED, and nothing is active.
NewestReadyIsActive ==
    LET newest == {v \in Ready : \A w \in Ready : w <= v} IN
    \/ ActiveVersions = newest
    \/ /\ ActiveVersions = {}
       /\ \E v \in DOMAIN snapshots :
            snapshots[v] = [status |-> "FAILED", active |-> TRUE] /\ \A w \in Ready : w < v

\* Whoever is told that the refresh failed is told with it that "The previous
\* metadata snapshot remains active"
\* (frontend-react/src/pages/connections/ConnectionsPage.tsx:117).  Violated
\* when the new snapshot is activated but not read back.
PreviousRemainsActive ==
    \A r \in Refreshers :
        told[r] = "failed" /\ previous[r] # 0 => ActiveVersions # {}

Refreshing(r) == refreshing[r] \notin {"new", "over"}

\* The lock is held by a refresh under way, or it was left behind in one
\* way: by a refresh that failed before it had a candidate, outside the block
\* that releases it.  Until the process restarts every further refresh is then
\* told that one is in progress; no failure after the candidate does that.
LockHasAnOwner ==
    lock # Nobody =>
        \/ Refreshing(lock)
        \/ refreshing[lock] = "over" /\ told[lock] = "failed" /\ mine[lock] = 0

\* The catalogue of a connection and its lock, whoever refreshes and whatever
\* fails.
CatalogIsSound == CatalogTypeOK /\ NewestReadyIsActive /\ LockHasAnOwner
=============================================================================
