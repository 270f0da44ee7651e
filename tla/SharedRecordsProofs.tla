------------------------- MODULE SharedRecordsProofs -------------------------
(***************************************************************************)
(* The records the requests of a server share stay sound for any number of *)
(* requests, wherever the application's database fails: the catalogue of a *)
(* connection, the learning loop and the checks of an investigation.       *)
(***************************************************************************)
EXTENDS MetadataCatalog, KnowledgeBase, VerificationChecks, SequenceTheorems, TLAPS

----------------------------------------------------------------------------
(* Whoever refreshes has the lock, so the candidate is the last snapshot    *)
(* and nobody else moves the active one.                                    *)

HoldsLock == \A r \in Refreshers : Refreshing(r) => lock = r

Writing == {"discovering", "activated", "failing"}

CandidateInv ==
    \A r \in Refreshers :
        /\ refreshing[r] \in {"new", "locked", "reading"} => mine[r] = 0
        /\ refreshing[r] \in Writing => mine[r] = Len(snapshots) /\ mine[r] # 0

PreviousInv ==
    \A r \in Refreshers :
        refreshing[r] \in {"reading", "discovering"} =>
            /\ ActiveVersions \subseteq {previous[r]}
            /\ previous[r] # 0 => previous[r] \in ActiveVersions

\* What the candidate of a refresh looks like.
Discovered(r) == snapshots[mine[r]] = [status |-> "DISCOVERING", active |-> FALSE]
Current(r) == mine[r] \in ActiveVersions /\ ActiveVersions \subseteq {mine[r]}

RowInv ==
    \A r \in Refreshers :
        /\ refreshing[r] = "discovering" => Discovered(r)
        /\ refreshing[r] = "activated" => Current(r)
        /\ refreshing[r] = "failing" => Discovered(r) \/ Current(r)

CatalogInv ==
    /\ CatalogTypeOK /\ HoldsLock /\ CandidateInv /\ PreviousInv /\ RowInv
    /\ NewestReadyIsActive /\ LockHasAnOwner

----------------------------------------------------------------------------
LEMMA CatalogStart ==
    CatalogInit => CatalogInv
<1> SUFFICES ASSUME CatalogInit PROVE CatalogInv
  OBVIOUS
<1>1. snapshots = <<>> /\ snapshots \in Seq(Snapshots) /\ Len(snapshots) = 0
      /\ DOMAIN snapshots = {}
  BY DEF CatalogInit
<1>2. CatalogTypeOK
  BY <1>1, CatalogAssumption DEF CatalogInit, CatalogTypeOK, CatalogStages, RefreshAnswers
<1>3. ActiveVersions = {} /\ Ready = {}
  BY <1>1 DEF ActiveVersions, Ready
<1>4. NewestReadyIsActive
  BY <1>3 DEF NewestReadyIsActive
<1> QED
  BY <1>2, <1>4 DEF CatalogInv, CatalogInit, HoldsLock, CandidateInv, PreviousInv, RowInv,
       LockHasAnOwner, Refreshing, Writing

\* Where the snapshots stay as they are, so does what is said of them.
LEMMA SameSnapshots ==
    ASSUME UNCHANGED snapshots
    PROVE  /\ ActiveVersions' = ActiveVersions
           /\ Ready' = Ready
           /\ NewestReadyIsActive => NewestReadyIsActive'
  BY DEF ActiveVersions, Ready, NewestReadyIsActive

----------------------------------------------------------------------------
LEMMA EnterKeeps ==
    ASSUME CatalogInv, NEW r \in Refreshers, Enter(r)
    PROVE  CatalogInv'
<1> USE CatalogAssumption DEF Enter, TryLock, Continues
<1>1. UNCHANGED <<snapshots, previous, mine, statementFailures, told>> /\ lock = Nobody /\ lock' = r
      /\ refreshing' = [refreshing EXCEPT ![r] = "locked"] /\ refreshing[r] = "new"
  OBVIOUS
<1>2. ActiveVersions' = ActiveVersions /\ NewestReadyIsActive'
  BY <1>1, SameSnapshots DEF CatalogInv
<1>3. CatalogTypeOK'
  BY <1>1 DEF CatalogInv, CatalogTypeOK, CatalogStages
<1>4. \A q \in Refreshers : refreshing[q] \in {"new", "over"}
  BY <1>1, CatalogAssumption DEF CatalogInv, HoldsLock, Refreshing
<1>5. \A q \in Refreshers : refreshing'[q] = IF q = r THEN "locked" ELSE refreshing[q]
  BY <1>1 DEF CatalogInv, CatalogTypeOK
<1>6. HoldsLock' /\ CandidateInv' /\ PreviousInv' /\ RowInv' /\ LockHasAnOwner'
  BY <1>1, <1>2, <1>4, <1>5 DEF CatalogInv, HoldsLock, CandidateInv, PreviousInv, RowInv,
       LockHasAnOwner, Refreshing, Writing
<1> QED
  BY <1>2, <1>3, <1>6 DEF CatalogInv

\* TurnedAway: the requester was not the one who has the lock.
LEMMA TurnedAwayKeeps ==
    ASSUME CatalogInv, NEW r \in Refreshers, TurnedAway(r)
    PROVE  CatalogInv'
<1>1. UNCHANGED <<snapshots, lock, previous, mine, statementFailures>> /\ lock # Nobody
      /\ refreshing[r] = "new" /\ refreshing' = [refreshing EXCEPT ![r] = "over"]
  BY DEF TurnedAway, Leaves
<1>2. PICK said \in RefreshAnswers : told' = [told EXCEPT ![r] = said]
  BY DEF TurnedAway, Leaves, RefreshAnswers
<1>3. ActiveVersions' = ActiveVersions /\ NewestReadyIsActive'
  BY <1>1, SameSnapshots DEF CatalogInv
<1>4. CatalogTypeOK'
  BY <1>1, <1>2 DEF CatalogInv, CatalogTypeOK, CatalogStages
<1>5. \A q \in Refreshers : refreshing'[q] = IF q = r THEN "over" ELSE refreshing[q]
  BY <1>1 DEF CatalogInv, CatalogTypeOK
<1>6. lock # r /\ \A q \in Refreshers : q # r => told'[q] = told[q]
  BY <1>1, <1>2 DEF CatalogInv, CatalogTypeOK, LockHasAnOwner, Refreshing
<1>7. HoldsLock' /\ CandidateInv' /\ PreviousInv' /\ RowInv'
  BY <1>1, <1>3, <1>5 DEF CatalogInv, HoldsLock, CandidateInv, PreviousInv, RowInv,
       Discovered, Current, Refreshing, Writing
<1>8. LockHasAnOwner'
  BY <1>1, <1>5, <1>6 DEF CatalogInv, CatalogTypeOK, LockHasAnOwner, Refreshing
<1> QED
  BY <1>3, <1>4, <1>7, <1>8 DEF CatalogInv

\* At most one version is active: both would be the newest.
LEMMA OneActive ==
    ASSUME CatalogTypeOK, NewestReadyIsActive, NEW v \in ActiveVersions
    PROVE  ActiveVersions = {v}
<1>1. \A w \in Ready : w \in Nat
  BY DEF CatalogTypeOK, Ready
<1>2. ActiveVersions = {u \in Ready : \A w \in Ready : w <= u}
  BY DEF NewestReadyIsActive
<1> QED
  BY <1>1, <1>2

LEMMA ReadPreviousKeeps ==
    ASSUME CatalogInv, NEW r \in Refreshers, ReadPrevious(r)
    PROVE  CatalogInv'
<1>1. UNCHANGED <<snapshots, lock, mine, statementFailures, told>>
      /\ refreshing[r] = "locked" /\ refreshing' = [refreshing EXCEPT ![r] = "reading"]
  BY DEF ReadPrevious, Continues
<1>2. PICK p : /\ previous' = [previous EXCEPT ![r] = p]
               /\ ActiveVersions = {} => p = 0
               /\ ActiveVersions # {} => p \in ActiveVersions
  BY DEF ReadPrevious
<1>3. ActiveVersions \subseteq DOMAIN snapshots /\ DOMAIN snapshots = 1..Len(snapshots)
      /\ Len(snapshots) \in Nat
  BY DEF ActiveVersions, CatalogInv, CatalogTypeOK
<1>4. p \in 0..Len(snapshots) /\ ActiveVersions \subseteq {p} /\ (p # 0 => p \in ActiveVersions)
  BY <1>2, <1>3, OneActive DEF CatalogInv
<1>5. ActiveVersions' = ActiveVersions /\ NewestReadyIsActive'
  BY <1>1, SameSnapshots DEF CatalogInv
<1>6. CatalogTypeOK'
  BY <1>1, <1>2, <1>4 DEF CatalogInv, CatalogTypeOK, CatalogStages
<1>7. \A q \in Refreshers : /\ refreshing'[q] = IF q = r THEN "reading" ELSE refreshing[q]
                            /\ previous'[q] = IF q = r THEN p ELSE previous[q]
  BY <1>1, <1>2 DEF CatalogInv, CatalogTypeOK
<1>8. HoldsLock' /\ CandidateInv' /\ RowInv' /\ LockHasAnOwner'
  BY <1>1, <1>5, <1>7 DEF CatalogInv, CatalogTypeOK, HoldsLock, CandidateInv, RowInv,
       Discovered, Current, LockHasAnOwner, Refreshing, Writing
<1>9. PreviousInv'
  BY <1>4, <1>5, <1>7 DEF CatalogInv, PreviousInv
<1> QED
  BY <1>5, <1>6, <1>8, <1>9 DEF CatalogInv

LEMMA AddCandidateKeeps ==
    ASSUME CatalogInv, NEW r \in Refreshers, AddCandidate(r)
    PROVE  CatalogInv'
<1> DEFINE new == [status |-> "DISCOVERING", active |-> FALSE]
           n == Len(snapshots)
<1>1. UNCHANGED <<lock, previous, statementFailures, told>>
      /\ refreshing[r] = "reading" /\ refreshing' = [refreshing EXCEPT ![r] = "discovering"]
      /\ mine' = [mine EXCEPT ![r] = n + 1] /\ snapshots' = Append(snapshots, new)
  BY DEF AddCandidate, Continues
<1>2. snapshots \in Seq(Snapshots) /\ n \in Nat /\ DOMAIN snapshots = 1..n
  BY DEF CatalogInv, CatalogTypeOK
<1>3. /\ snapshots' \in Seq(Snapshots) /\ Len(snapshots') = n + 1
      /\ DOMAIN snapshots' = 1..(n + 1)
      /\ snapshots'[n + 1] = new /\ \A v \in 1..n : snapshots'[v] = snapshots[v]
  <2>1. new \in Snapshots
    BY DEF Snapshots
  <2> QED
    BY <1>1, <1>2, <2>1
<1>4. ActiveVersions' = ActiveVersions /\ Ready' = Ready
  BY <1>2, <1>3 DEF ActiveVersions, Ready
<1>5. NewestReadyIsActive'
  BY <1>2, <1>3, <1>4 DEF CatalogInv, NewestReadyIsActive
<1>6. CatalogTypeOK'
  BY <1>1, <1>2, <1>3 DEF CatalogInv, CatalogTypeOK, CatalogStages
<1>7. \A q \in Refreshers : /\ refreshing'[q] = IF q = r THEN "discovering" ELSE refreshing[q]
                            /\ mine'[q] = IF q = r THEN n + 1 ELSE mine[q]
  BY <1>1 DEF CatalogInv, CatalogTypeOK
<1>8. \A q \in Refreshers : q # r => refreshing[q] \in {"new", "over"}
  BY <1>1 DEF CatalogInv, CatalogTypeOK, CatalogStages, HoldsLock, Refreshing
<1>9. HoldsLock' /\ CandidateInv' /\ PreviousInv' /\ RowInv' /\ LockHasAnOwner'
  BY <1>1, <1>2, <1>3, <1>4, <1>7, <1>8 DEF CatalogInv, HoldsLock, CandidateInv, PreviousInv,
       RowInv, Discovered, Current, LockHasAnOwner, Refreshing, Writing
<1> QED
  BY <1>5, <1>6, <1>9 DEF CatalogInv

LEMMA FailBeforeTryKeeps ==
    ASSUME CatalogInv, NEW r \in Refreshers, FailBeforeTry(r)
    PROVE  CatalogInv'
<1>1. UNCHANGED <<snapshots, lock, previous, mine>>
      /\ refreshing[r] \in {"locked", "reading"} /\ refreshing' = [refreshing EXCEPT ![r] = "over"]
      /\ told' = [told EXCEPT ![r] = "failed"]
  BY DEF FailBeforeTry, Leaves
<1>2. statementFailures' \in 0..MaxFailures
  BY CatalogAssumption DEF FailBeforeTry, DatabaseFails, CatalogInv, CatalogTypeOK
<1>3. ActiveVersions' = ActiveVersions /\ NewestReadyIsActive'
  BY <1>1, SameSnapshots DEF CatalogInv
<1>4. CatalogTypeOK'
  BY <1>1, <1>2 DEF CatalogInv, CatalogTypeOK, CatalogStages, RefreshAnswers
<1>5. \A q \in Refreshers : /\ refreshing'[q] = IF q = r THEN "over" ELSE refreshing[q]
                            /\ told'[q] = IF q = r THEN "failed" ELSE told[q]
  BY <1>1 DEF CatalogInv, CatalogTypeOK
<1>6. lock = r /\ mine[r] = 0
  BY <1>1 DEF CatalogInv, HoldsLock, CandidateInv, Refreshing
<1>7. HoldsLock' /\ CandidateInv' /\ PreviousInv' /\ RowInv' /\ LockHasAnOwner'
  BY <1>1, <1>3, <1>5, <1>6 DEF CatalogInv, HoldsLock, CandidateInv, PreviousInv, RowInv,
       Discovered, Current, LockHasAnOwner, Refreshing, Writing
<1> QED
  BY <1>3, <1>4, <1>7 DEF CatalogInv

LEMMA Newest ==
    ASSUME NEW S, NEW n \in S, \A v \in S : v \in Nat /\ v <= n
    PROVE  {v \in S : \A w \in S : w <= v} = {n}
<1>1. \A v \in S : n <= v => v = n
  OBVIOUS
<1> QED
  BY <1>1

\* The candidate becomes the only active version, and the newest.
LEMMA ActivateKeeps ==
    ASSUME CatalogInv, NEW r \in Refreshers, Activate(r)
    PROVE  CatalogInv'
<1> DEFINE n == Len(snapshots)
<1>1. UNCHANGED <<lock, previous, mine, statementFailures, told>>
      /\ refreshing[r] = "discovering" /\ refreshing' = [refreshing EXCEPT ![r] = "activated"]
      /\ snapshots' = Activated(r)
  BY DEF Activate, Continues
<1>2. /\ snapshots \in Seq(Snapshots) /\ n \in Nat /\ DOMAIN snapshots = 1..n
      /\ mine[r] = n /\ n # 0 /\ lock = r
      /\ ActiveVersions \subseteq {previous[r]}
  BY <1>1 DEF CatalogInv, CatalogTypeOK, HoldsLock, CandidateInv, PreviousInv, Refreshing, Writing
<1>3. /\ DOMAIN snapshots' = 1..n
      /\ snapshots'[n] = [status |-> "READY", active |-> TRUE]
      /\ \A v \in 1..n : v # n => snapshots'[v] =
           IF v = previous[r] THEN [snapshots[v] EXCEPT !.active = FALSE] ELSE snapshots[v]
  BY <1>1, <1>2 DEF Activated
<1>4. \A v \in 1..n : snapshots[v] \in Snapshots
  BY <1>2
<1>5. \A v \in 1..n : v # n => /\ snapshots'[v] \in Snapshots
                               /\ snapshots'[v].status = snapshots[v].status
                               /\ ~(snapshots'[v].active /\ snapshots'[v].status = "READY")
  <2> SUFFICES ASSUME NEW v \in 1..n, v # n
               PROVE  /\ snapshots'[v] \in Snapshots
                      /\ snapshots'[v].status = snapshots[v].status
                      /\ ~(snapshots'[v].active /\ snapshots'[v].status = "READY")
    OBVIOUS
  <2>1. CASE v = previous[r]
    BY <2>1, <1>3, <1>4 DEF Snapshots
  <2>2. CASE v # previous[r]
    BY <2>2, <1>2, <1>3, <1>4 DEF ActiveVersions, Snapshots
  <2> QED
    BY <2>1, <2>2
<1>6. snapshots' \in Seq(Snapshots) /\ Len(snapshots') = n
  <2>1. snapshots'[n] \in Snapshots
    BY <1>3 DEF Snapshots
  <2>2. snapshots' \in [1..n -> Snapshots]
    <3>1. snapshots' = [v \in 1..n |-> snapshots'[v]]
      BY <1>1, <1>2 DEF Activated
    <3> QED
      BY <3>1, <2>1, <1>5
  <2> QED
    BY <2>2, <1>2, <1>3
<1>7. ActiveVersions' = {n}
  BY <1>2, <1>3, <1>5 DEF ActiveVersions
<1>8. Ready' \subseteq 1..n /\ n \in Ready'
  BY <1>2, <1>3 DEF Ready
<1>9. NewestReadyIsActive'
  <2>1. \A v \in Ready' : v \in Nat /\ v <= n
    BY <1>2, <1>8
  <2>2. {v \in Ready' : \A w \in Ready' : w <= v} = {n}
    BY <1>8, <2>1, Newest
  <2> QED
    BY <2>2, <1>7 DEF NewestReadyIsActive
<1>10. CatalogTypeOK'
  BY <1>1, <1>6 DEF CatalogInv, CatalogTypeOK, CatalogStages
<1>11. \A q \in Refreshers : refreshing'[q] = IF q = r THEN "activated" ELSE refreshing[q]
  BY <1>1 DEF CatalogInv, CatalogTypeOK
<1>12. \A q \in Refreshers : q # r => refreshing[q] \in {"new", "over"}
  BY <1>2 DEF CatalogInv, CatalogTypeOK, CatalogStages, HoldsLock, Refreshing
<1>13. HoldsLock' /\ CandidateInv' /\ PreviousInv' /\ RowInv' /\ LockHasAnOwner'
  BY <1>1, <1>2, <1>6, <1>7, <1>11, <1>12 DEF CatalogInv, HoldsLock, CandidateInv, PreviousInv,
       RowInv, Discovered, Current, LockHasAnOwner, Refreshing, Writing
<1> QED
  BY <1>9, <1>10, <1>13 DEF CatalogInv

\* Into the handler, with a candidate that is still one, or is active.
LEMMA FailingKeeps ==
    ASSUME CatalogInv, NEW r \in Refreshers, DiscoveryFails(r) \/ ReadBackFails(r)
    PROVE  CatalogInv'
<1>1. UNCHANGED <<snapshots, lock, previous, mine, told>>
      /\ refreshing[r] \in {"discovering", "activated"} /\ refreshing' = [refreshing EXCEPT ![r] = "failing"]
  BY DEF DiscoveryFails, ReadBackFails, Continues
<1>2. statementFailures' \in 0..MaxFailures
  BY CatalogAssumption DEF DiscoveryFails, ReadBackFails, DatabaseFails, CatalogInv, CatalogTypeOK
<1>3. ActiveVersions' = ActiveVersions /\ NewestReadyIsActive'
  BY <1>1, SameSnapshots DEF CatalogInv
<1>4. CatalogTypeOK'
  BY <1>1, <1>2 DEF CatalogInv, CatalogTypeOK, CatalogStages
<1>5. \A q \in Refreshers : refreshing'[q] = IF q = r THEN "failing" ELSE refreshing[q]
  BY <1>1 DEF CatalogInv, CatalogTypeOK
<1>6. HoldsLock' /\ CandidateInv' /\ PreviousInv' /\ LockHasAnOwner'
  BY <1>1, <1>3, <1>5 DEF CatalogInv, HoldsLock, CandidateInv, PreviousInv,
       LockHasAnOwner, Refreshing, Writing
<1>7. RowInv'
  BY <1>1, <1>3, <1>5 DEF CatalogInv, RowInv, Discovered, Current
<1> QED
  BY <1>3, <1>4, <1>6, <1>7 DEF CatalogInv

\* Whoever leaves and releases the lock was the only one to refresh.
LEMMA ReleaseKeeps ==
    ASSUME CatalogInv, NEW r \in Refreshers, Refreshing(r),
           UNCHANGED <<previous, mine>>, lock' = Nobody,
           NEW said \in RefreshAnswers, Leaves(r, said),
           snapshots' \in Seq(Snapshots), Len(snapshots') = Len(snapshots),
           statementFailures' \in 0..MaxFailures, NewestReadyIsActive'
    PROVE  CatalogInv'
<1>1. refreshing' = [refreshing EXCEPT ![r] = "over"] /\ told' = [told EXCEPT ![r] = said]
  BY DEF Leaves
<1>2. CatalogTypeOK'
  BY <1>1 DEF CatalogInv, CatalogTypeOK, CatalogStages
<1>3. \A q \in Refreshers : refreshing'[q] \in {"new", "over"} /\ (refreshing'[q] = "new" => refreshing[q] = "new")
  BY <1>1 DEF CatalogInv, CatalogTypeOK, CatalogStages, HoldsLock, Refreshing
<1>4. HoldsLock' /\ CandidateInv' /\ PreviousInv' /\ RowInv' /\ LockHasAnOwner'
  BY <1>3 DEF CatalogInv, HoldsLock, CandidateInv, PreviousInv, RowInv, LockHasAnOwner,
       Refreshing, Writing
<1> QED
  BY <1>2, <1>4 DEF CatalogInv

LEMMA RefreshedKeeps ==
    ASSUME CatalogInv, NEW r \in Refreshers, Refreshed(r)
    PROVE  CatalogInv'
<1>1. NewestReadyIsActive'
  BY SameSnapshots DEF CatalogInv, Refreshed
<1>2. Refreshing(r) /\ "refreshed" \in RefreshAnswers
  BY DEF Refreshed, Refreshing, RefreshAnswers
<1>3. snapshots' \in Seq(Snapshots) /\ Len(snapshots') = Len(snapshots) /\ statementFailures' \in 0..MaxFailures
  BY DEF Refreshed, CatalogInv, CatalogTypeOK
<1> QED
  BY <1>1, <1>2, <1>3, ReleaseKeeps DEF Refreshed

\* A candidate that is marked FAILED was either never active, or the newest.
LEMMA FailKeeps ==
    ASSUME CatalogInv, NEW r \in Refreshers, Fail(r)
    PROVE  CatalogInv'
<1> DEFINE n == Len(snapshots)
<1>1. /\ snapshots \in Seq(Snapshots) /\ n \in Nat /\ DOMAIN snapshots = 1..n
      /\ refreshing[r] = "failing" /\ mine[r] = n /\ n # 0 /\ n \in 1..n
      /\ snapshots[n] \in Snapshots
      /\ Discovered(r) \/ Current(r)
  BY DEF Fail, CatalogInv, CatalogTypeOK, CandidateInv, RowInv, Writing
<1>2. statementFailures' \in 0..MaxFailures
  BY CatalogAssumption DEF Fail, DatabaseFails, CatalogInv, CatalogTypeOK
<1>3. Refreshing(r) /\ "failed" \in RefreshAnswers
  BY <1>1 DEF Refreshing, RefreshAnswers
<1>4. CASE UNCHANGED snapshots
  <2>1. NewestReadyIsActive' /\ snapshots' \in Seq(Snapshots) /\ Len(snapshots') = Len(snapshots)
    BY <1>1, <1>4, SameSnapshots DEF CatalogInv
  <2> QED
    BY <1>2, <1>3, <2>1, ReleaseKeeps DEF Fail
<1>5. CASE snapshots' = [snapshots EXCEPT ![mine[r]].status = "FAILED"]
  <2> DEFINE row == [snapshots[n] EXCEPT !.status = "FAILED"]
  <2>1. row \in Snapshots /\ row.status = "FAILED" /\ row.active = snapshots[n].active
        /\ row = [status |-> "FAILED", active |-> snapshots[n].active]
    BY <1>1 DEF Snapshots
  <2>2. snapshots' = [snapshots EXCEPT ![n] = row]
    BY <1>1, <1>5
  <2>3. /\ snapshots' \in Seq(Snapshots) /\ Len(snapshots') = n /\ DOMAIN snapshots' = 1..n
        /\ snapshots'[n] = row /\ \A v \in 1..n : v # n => snapshots'[v] = snapshots[v]
    BY <1>1, <2>1, <2>2, ExceptSeq
  <2>4. ActiveVersions' = ActiveVersions \ {n} /\ Ready' = Ready \ {n}
    BY <1>1, <2>1, <2>3 DEF ActiveVersions, Ready
  <2>5. CASE Discovered(r)
    <3>1. n \notin ActiveVersions /\ n \notin Ready /\ snapshots[n].status = "DISCOVERING"
      BY <1>1, <2>5 DEF Discovered, ActiveVersions, Ready
    <3>2. ActiveVersions' = ActiveVersions /\ Ready' = Ready
      BY <2>4, <3>1
    <3>3. \A v \in 1..n : snapshots[v].status = "FAILED" => snapshots'[v] = snapshots[v]
      BY <2>3, <3>1
    <3>4. NewestReadyIsActive'
      BY <1>1, <2>3, <3>2, <3>3 DEF CatalogInv, NewestReadyIsActive
    <3> QED
      BY <1>2, <1>3, <2>3, <3>4, ReleaseKeeps DEF Fail
  <2>6. CASE Current(r)
    <3>1. ActiveVersions = {n} /\ snapshots[n].active
      BY <1>1, <2>6 DEF Current, ActiveVersions
    <3>2. snapshots'[n] = [status |-> "FAILED", active |-> TRUE]
      BY <1>1, <2>1, <2>3, <3>1 DEF Snapshots
    <3>3. \A w \in Ready' : w < n
      BY <1>1, <2>4 DEF Ready
    <3>4. ActiveVersions' = {}
      BY <2>4, <3>1
    <3>5. NewestReadyIsActive'
      BY <1>1, <2>3, <3>2, <3>3, <3>4 DEF NewestReadyIsActive
    <3> QED
      BY <1>2, <1>3, <2>3, <3>5, ReleaseKeeps DEF Fail
  <2> QED
    BY <1>1, <2>5, <2>6
<1> QED
  BY <1>4, <1>5 DEF Fail

LEMMA RestartKeeps ==
    ASSUME CatalogInv, RestartCatalog
    PROVE  CatalogInv'
<1>1. UNCHANGED <<snapshots, previous, mine, statementFailures, told>> /\ lock' = Nobody
      /\ refreshing' = [r \in Refreshers |-> IF refreshing[r] = "new" THEN "new" ELSE "over"]
  BY DEF RestartCatalog
<1>2. NewestReadyIsActive'
  BY <1>1, SameSnapshots DEF CatalogInv
<1>3. CatalogTypeOK'
  BY <1>1 DEF CatalogInv, CatalogTypeOK, CatalogStages
<1>4. \A r \in Refreshers : refreshing'[r] \in {"new", "over"} /\ (refreshing'[r] = "new" => refreshing[r] = "new")
  BY <1>1
<1>5. HoldsLock' /\ CandidateInv' /\ PreviousInv' /\ RowInv' /\ LockHasAnOwner'
  BY <1>1, <1>4 DEF CatalogInv, HoldsLock, CandidateInv, PreviousInv, RowInv, LockHasAnOwner,
       Refreshing, Writing
<1> QED
  BY <1>2, <1>3, <1>5 DEF CatalogInv

----------------------------------------------------------------------------
LEMMA CatalogStep ==
    ASSUME CatalogInv, [CatalogNext]_catalogVars
    PROVE  CatalogInv'
<1>1. CASE UNCHANGED catalogVars
  <2>1. NewestReadyIsActive'
    BY <1>1, SameSnapshots DEF CatalogInv, catalogVars
  <2>2. ActiveVersions' = ActiveVersions
    BY <1>1, SameSnapshots DEF catalogVars
  <2> QED
    BY <1>1, <2>1, <2>2 DEF catalogVars, CatalogInv, CatalogTypeOK, HoldsLock, CandidateInv,
         PreviousInv, RowInv, Discovered, Current, LockHasAnOwner, Refreshing
<1>2. CASE RestartCatalog
  BY <1>2, RestartKeeps
<1>3. CASE \E r \in Refreshers : Refresh(r)
  <2> PICK r \in Refreshers : Refresh(r)
    BY <1>3
  <2> QED
    BY EnterKeeps, TurnedAwayKeeps, ReadPreviousKeeps, AddCandidateKeeps, FailBeforeTryKeeps,
       ActivateKeeps, RefreshedKeeps, FailingKeeps, FailKeeps DEF Refresh
<1> QED
  BY <1>1, <1>2, <1>3 DEF CatalogNext

\* The catalogue of a connection stays usable, however many requests refresh
\* it and at whichever statement the database fails: services/
\* metadata_catalog_service.refresh_metadata keeps the newest good snapshot
\* as the only active one, and its lock has an owner.
THEOREM CatalogAlwaysSound ==
    CatalogSpec => []CatalogIsSound
<1>1. CatalogInit => CatalogInv
  BY CatalogStart
<1>2. CatalogInv /\ [CatalogNext]_catalogVars => CatalogInv'
  BY CatalogStep
<1>3. CatalogInv => CatalogIsSound
  BY DEF CatalogInv, CatalogIsSound
<1> QED
  BY <1>1, <1>2, <1>3, PTL DEF CatalogSpec

----------------------------------------------------------------------------
\* What a review has read when it is past its first stage.
Readings == [of : Feedback, approved : BOOLEAN, title : Titles, status : FeedbackStatus,
             investigation : InvestigationStatus]

LearningTypes ==
    /\ KnowledgeTypeOK
    /\ submitting \in [Feedback -> {"new", "checked", "refused", "submitted"}]
    /\ loaded \in [Feedback -> InvestigationStatus]
    /\ tx \in [Reviews -> [rows : BOOLEAN, article : BOOLEAN, clears : SUBSET Articles]]
    /\ review \in [Reviews -> Readings \union {NoReview}]
    /\ \A r \in Reviews : reviewing[r] # "new" => review[r] \in Readings

\* Nothing is known of feedback before it is submitted, and that happens once.
SubmittedInv ==
    /\ \A f \in Feedback : status[f] = "none" <=> submitting[f] # "submitted"
    /\ \A a \in articles : submitting[a.of] = "submitted"
    /\ \A r \in Reviews : reviewing[r] # "new" => submitting[review[r].of] = "submitted"

\* What a review found decided is not pending again.
DecidedInv ==
    \A r \in Reviews :
        reviewing[r] # "new" /\ review[r].status # "PENDING_APPROVAL" =>
            status[review[r].of] # "PENDING_APPROVAL"

\* The article and the verdict are in one transaction, and lost together:
\* the helper that rolls its caller back leaves nothing of either.
TogetherInv ==
    \A r \in Reviews :
        /\ tx[r].article <=> tx[r].rows
        /\ tx[r].rows => reviewing[r] # "new" /\ review[r].approved

KnowledgeInv ==
    LearningTypes /\ SubmittedInv /\ DecidedInv /\ TogetherInv /\ ApprovalIsWhole

----------------------------------------------------------------------------
LEMMA KnowledgeStart ==
    KnowledgeInit => KnowledgeInv
<1> SUFFICES ASSUME KnowledgeInit PROVE KnowledgeInv
  OBVIOUS
<1>1. KnowledgeTypeOK
  BY KnowledgeAssumption DEF KnowledgeInit, KnowledgeTypeOK, FeedbackStatus, InvestigationStatus
<1>2. LearningTypes
  <2>1. tx \in [Reviews -> [rows : BOOLEAN, article : BOOLEAN, clears : SUBSET Articles]]
    BY DEF KnowledgeInit, Empty
  <2>2. \A r \in Reviews : reviewing[r] = "new"
    BY DEF KnowledgeInit
  <2>3. review \in [Reviews -> Readings \union {NoReview}]
    BY DEF KnowledgeInit
  <2> QED
    BY <1>1, <2>1, <2>2, <2>3 DEF KnowledgeInit, LearningTypes, FeedbackStatus, InvestigationStatus
<1>3. SubmittedInv /\ DecidedInv /\ ApprovalIsWhole
  BY <1>1 DEF KnowledgeInit, SubmittedInv, DecidedInv, ApprovalIsWhole
<1>4. TogetherInv
  BY DEF KnowledgeInit, TogetherInv, Empty
<1> QED
  BY <1>2, <1>3, <1>4 DEF KnowledgeInv

LEMMA WrittenType ==
    ASSUME NEW S, NEW old \in S, NEW read, NEW new \in S
    PROVE  Written(old, read, new) \in S
  BY DEF Written

LEMMA CheckPendingKeeps ==
    ASSUME KnowledgeInv, NEW f \in Feedback, CheckPending(f)
    PROVE  KnowledgeInv'
<1>1. /\ UNCHANGED <<status, investigation, articles, chunks, review, reviewing, tx, rollbacks>>
      /\ submitting[f] = "new"
      /\ \/ submitting' = [submitting EXCEPT ![f] = "refused"] /\ UNCHANGED loaded
         \/ /\ submitting' = [submitting EXCEPT ![f] = "checked"]
            /\ loaded' = [loaded EXCEPT ![f] = investigation[InvestigationOf[f]]]
  BY DEF CheckPending, knowledgeRows, reviewVars
<1>2. KnowledgeTypeOK'
  BY <1>1 DEF KnowledgeInv, LearningTypes, KnowledgeTypeOK
<1>3. investigation[InvestigationOf[f]] \in InvestigationStatus
  BY DEF KnowledgeInv, LearningTypes, KnowledgeTypeOK, Investigations
<1>4. LearningTypes'
  BY <1>1, <1>2, <1>3 DEF KnowledgeInv, LearningTypes
<1>5. \A g \in Feedback : submitting'[g] = "submitted" <=> submitting[g] = "submitted"
  BY <1>1 DEF KnowledgeInv, LearningTypes
<1>6. SubmittedInv'
  <2>1. \A a \in articles : a.of \in Feedback
    BY DEF KnowledgeInv, LearningTypes, KnowledgeTypeOK, Articles
  <2>2. \A r \in Reviews : reviewing[r] # "new" => review[r].of \in Feedback
    BY DEF KnowledgeInv, LearningTypes, Readings
  <2> QED
    BY <1>1, <1>5, <2>1, <2>2 DEF KnowledgeInv, SubmittedInv
<1>7. DecidedInv' /\ TogetherInv' /\ ApprovalIsWhole'
  BY <1>1, <1>2 DEF KnowledgeInv, DecidedInv, TogetherInv, ApprovalIsWhole
<1> QED
  BY <1>4, <1>6, <1>7 DEF KnowledgeInv

LEMMA SubmitFeedbackKeeps ==
    ASSUME KnowledgeInv, NEW f \in Feedback, SubmitFeedback(f)
    PROVE  KnowledgeInv'
<1>1. /\ UNCHANGED <<articles, chunks, loaded, review, reviewing, tx, rollbacks>>
      /\ submitting[f] = "checked"
      /\ submitting' = [submitting EXCEPT ![f] = "submitted"]
      /\ status' = [status EXCEPT ![f] = "PENDING_APPROVAL"]
      /\ investigation' = [investigation EXCEPT ![InvestigationOf[f]] =
                              Written(@, loaded[f], "DEVELOPER_REVIEW")]
  BY DEF SubmitFeedback, reviewVars
<1>2. investigation' \in [Investigations -> InvestigationStatus]
  <2>1. /\ InvestigationOf[f] \in Investigations
        /\ investigation \in [Investigations -> InvestigationStatus]
    BY DEF KnowledgeInv, LearningTypes, KnowledgeTypeOK, Investigations
  <2>2. Written(investigation[InvestigationOf[f]], loaded[f], "DEVELOPER_REVIEW")
          \in InvestigationStatus
    BY <2>1, WrittenType DEF InvestigationStatus
  <2> QED
    BY <1>1, <2>1, <2>2
<1>3. KnowledgeTypeOK'
  BY <1>1, <1>2 DEF KnowledgeInv, LearningTypes, KnowledgeTypeOK, FeedbackStatus
<1>4. LearningTypes'
  BY <1>1, <1>3 DEF KnowledgeInv, LearningTypes
<1>5. /\ \A g \in Feedback : status'[g] = IF g = f THEN "PENDING_APPROVAL" ELSE status[g]
      /\ \A g \in Feedback : submitting'[g] = IF g = f THEN "submitted" ELSE submitting[g]
  BY <1>1 DEF KnowledgeInv, LearningTypes, KnowledgeTypeOK
<1>6. /\ \A a \in articles : a.of \in Feedback /\ a.of # f
      /\ \A r \in Reviews : reviewing[r] # "new" => review[r].of \in Feedback /\ review[r].of # f
  BY <1>1 DEF KnowledgeInv, LearningTypes, KnowledgeTypeOK, Articles, Readings, SubmittedInv
<1>7. SubmittedInv' /\ DecidedInv'
  BY <1>1, <1>5, <1>6 DEF KnowledgeInv, SubmittedInv, DecidedInv
<1>8. TogetherInv' /\ ApprovalIsWhole'
  BY <1>1, <1>3, <1>5, <1>6 DEF KnowledgeInv, TogetherInv, ApprovalIsWhole
<1> QED
  BY <1>4, <1>7, <1>8 DEF KnowledgeInv

----------------------------------------------------------------------------
LEMMA LoadFeedbackKeeps ==
    ASSUME KnowledgeInv, NEW r \in Reviews, NEW f \in Feedback, NEW approved \in BOOLEAN,
           NEW title \in Titles, LoadFeedback(r, f, approved, title)
    PROVE  KnowledgeInv'
<1> DEFINE reading == [of |-> f, approved |-> approved, title |-> title, status |-> status[f],
                       investigation |-> investigation[InvestigationOf[f]]]
<1>1. /\ UNCHANGED <<status, investigation, articles, chunks, submitting, loaded, tx, rollbacks>>
      /\ reviewing[r] = "new" /\ status[f] # "none"
      /\ review' = [review EXCEPT ![r] = reading]
      /\ reviewing' = [reviewing EXCEPT ![r] = "read"]
  BY DEF LoadFeedback, Goes, knowledgeRows, submitVars
<1>2. reading \in Readings /\ reading.of = f /\ reading.status = status[f]
  <2>1. status[f] \in FeedbackStatus
    BY <1>1 DEF KnowledgeInv, LearningTypes, KnowledgeTypeOK
  <2>2. investigation[InvestigationOf[f]] \in InvestigationStatus
    BY DEF KnowledgeInv, LearningTypes, KnowledgeTypeOK, Investigations
  <2> QED
    BY <2>1, <2>2 DEF Readings
<1> HIDE DEF reading
<1>3. KnowledgeTypeOK'
  BY <1>1 DEF KnowledgeInv, LearningTypes, KnowledgeTypeOK
<1>4. \A q \in Reviews : reviewing'[q] = IF q = r THEN "read" ELSE reviewing[q]
  BY <1>1 DEF KnowledgeInv, LearningTypes, KnowledgeTypeOK
<1>5. \A q \in Reviews : reviewing'[q] # "new" =>
        IF q = r THEN review'[q] = reading ELSE review'[q] = review[q] /\ reviewing[q] # "new"
  <2>1. review \in [Reviews -> Readings \union {NoReview}]
    BY DEF KnowledgeInv, LearningTypes
  <2> QED
    BY <1>1, <1>4, <2>1
<1>6. LearningTypes'
  BY <1>1, <1>2, <1>3, <1>5 DEF KnowledgeInv, LearningTypes
<1>7. SubmittedInv' /\ DecidedInv'
  BY <1>1, <1>2, <1>5 DEF KnowledgeInv, SubmittedInv, DecidedInv
<1>8. TogetherInv'
  <2>1. ~tx[r].rows
    BY <1>1 DEF KnowledgeInv, TogetherInv
  <2> QED
    BY <1>1, <1>4, <1>5, <2>1 DEF KnowledgeInv, TogetherInv
<1>9. ApprovalIsWhole'
  BY <1>1, <1>3 DEF KnowledgeInv, ApprovalIsWhole
<1> QED
  BY <1>6, <1>7, <1>8, <1>9 DEF KnowledgeInv

----------------------------------------------------------------------------
\* A transaction that writes nothing yet, or has lost everything.
LEMMA TransactionMoves ==
    ASSUME KnowledgeInv, NEW r \in Reviews, NEW next, NEW held,
           UNCHANGED <<knowledgeRows, submitVars, review>>,
           reviewing[r] # "new", next \in {"flushed", "cleared", "indexing", "over"},
           reviewing' = [reviewing EXCEPT ![r] = next],
           tx' = [tx EXCEPT ![r] = held],
           held \in [rows : BOOLEAN, article : BOOLEAN, clears : SUBSET Articles],
           held.article <=> held.rows, held.rows => review[r].approved,
           rollbacks' \in 0..MaxRollbacks
    PROVE  KnowledgeInv'
<1>1. UNCHANGED <<status, investigation, articles, chunks, submitting, loaded, review>>
  BY DEF knowledgeRows, submitVars
<1>2. KnowledgeTypeOK'
  BY <1>1 DEF KnowledgeInv, LearningTypes, KnowledgeTypeOK
<1>3. /\ reviewing \in [Reviews -> {"new", "read", "flushed", "cleared", "indexing", "over"}]
      /\ tx \in [Reviews -> [rows : BOOLEAN, article : BOOLEAN, clears : SUBSET Articles]]
  BY DEF KnowledgeInv, LearningTypes, KnowledgeTypeOK
<1>4. /\ \A q \in Reviews : reviewing'[q] # "new" <=> reviewing[q] # "new"
      /\ \A q \in Reviews : tx'[q] = IF q = r THEN held ELSE tx[q]
  BY <1>3
<1>5. LearningTypes'
  BY <1>1, <1>2, <1>3, <1>4 DEF KnowledgeInv, LearningTypes
<1>6. SubmittedInv' /\ DecidedInv' /\ ApprovalIsWhole'
  BY <1>1, <1>2, <1>4 DEF KnowledgeInv, SubmittedInv, DecidedInv, ApprovalIsWhole
<1>7. TogetherInv'
  BY <1>1, <1>4 DEF KnowledgeInv, TogetherInv
<1> QED
  BY <1>5, <1>6, <1>7 DEF KnowledgeInv

LEMMA TransactionTypes ==
    ASSUME KnowledgeInv, NEW r \in Reviews
    PROVE  /\ tx \in [Reviews -> [rows : BOOLEAN, article : BOOLEAN, clears : SUBSET Articles]]
           /\ tx[r].article <=> tx[r].rows
           /\ tx[r].rows => reviewing[r] # "new" /\ review[r].approved
           /\ rollbacks \in 0..MaxRollbacks /\ MaxRollbacks \in Nat
           /\ chunks \subseteq Articles
           /\ Empty \in [rows : BOOLEAN, article : BOOLEAN, clears : SUBSET Articles]
           /\ ~Empty.rows /\ ~Empty.article
  BY KnowledgeAssumption DEF KnowledgeInv, LearningTypes, KnowledgeTypeOK, TogetherInv, Empty

LEMMA FlushArticleKeeps ==
    ASSUME KnowledgeInv, NEW r \in Reviews, FlushArticle(r)
    PROVE  KnowledgeInv'
<1> DEFINE held == [tx[r] EXCEPT !.rows = TRUE, !.article = TRUE]
<1>1. tx[r] \in [rows : BOOLEAN, article : BOOLEAN, clears : SUBSET Articles]
  BY TransactionTypes
<1>2. /\ held \in [rows : BOOLEAN, article : BOOLEAN, clears : SUBSET Articles]
      /\ held.rows = TRUE /\ held.article = TRUE
  BY <1>1
<1>3. tx' = [tx EXCEPT ![r] = held]
  BY TransactionTypes DEF FlushArticle
<1> HIDE DEF held
<1>4. /\ UNCHANGED <<knowledgeRows, submitVars, review>>
      /\ reviewing[r] = "read" /\ reviewing' = [reviewing EXCEPT ![r] = "flushed"]
      /\ review[r].approved /\ rollbacks' \in 0..MaxRollbacks
  BY TransactionTypes DEF FlushArticle, Goes
<1> QED
  BY <1>2, <1>3, <1>4, TransactionMoves

LEMMA DeleteChunksKeeps ==
    ASSUME KnowledgeInv, NEW r \in Reviews, DeleteChunks(r)
    PROVE  KnowledgeInv'
<1> DEFINE titled == {c \in chunks : c.title = review[r].title}
<1> DEFINE held == [tx[r] EXCEPT !.clears = titled]
<1>1. tx[r] \in [rows : BOOLEAN, article : BOOLEAN, clears : SUBSET Articles]
  BY TransactionTypes
<1>2. titled \in SUBSET Articles
  BY TransactionTypes
<1>3. tx' = [tx EXCEPT ![r] = held]
  BY TransactionTypes DEF DeleteChunks
<1> HIDE DEF titled
<1>4. /\ held \in [rows : BOOLEAN, article : BOOLEAN, clears : SUBSET Articles]
      /\ held.rows = tx[r].rows /\ held.article = tx[r].article
  BY <1>1, <1>2
<1> HIDE DEF held
<1>5. /\ UNCHANGED <<knowledgeRows, submitVars, review>>
      /\ reviewing[r] = "flushed" /\ reviewing' = [reviewing EXCEPT ![r] = "cleared"]
      /\ rollbacks' \in 0..MaxRollbacks
  BY TransactionTypes DEF DeleteChunks, Goes
<1>6. (held.article <=> held.rows) /\ (held.rows => review[r].approved)
  BY <1>4, TransactionTypes
<1> QED
  BY <1>3, <1>4, <1>5, <1>6, TransactionMoves

LEMMA EnsureSchemaKeeps ==
    ASSUME KnowledgeInv, NEW r \in Reviews, EnsureSchema(r)
    PROVE  KnowledgeInv'
<1>1. /\ UNCHANGED <<knowledgeRows, submitVars, review>> /\ tx' = [tx EXCEPT ![r] = tx[r]]
      /\ reviewing[r] = "cleared" /\ reviewing' = [reviewing EXCEPT ![r] = "indexing"]
      /\ rollbacks' \in 0..MaxRollbacks
  BY TransactionTypes DEF EnsureSchema, Goes
<1>2. tx[r] \in [rows : BOOLEAN, article : BOOLEAN, clears : SUBSET Articles]
  BY TransactionTypes
<1> QED
  BY <1>1, <1>2, TransactionTypes, TransactionMoves

LEMMA RolledBackKeeps ==
    ASSUME KnowledgeInv, NEW r \in Reviews, EnsureSchemaFails(r) \/ AbandonReview(r)
    PROVE  KnowledgeInv'
<1>1. PICK next \in {"indexing", "over"} : reviewing' = [reviewing EXCEPT ![r] = next]
  BY DEF EnsureSchemaFails, AbandonReview, Goes
<1>2. /\ UNCHANGED <<knowledgeRows, submitVars, review>> /\ tx' = [tx EXCEPT ![r] = Empty]
      /\ reviewing[r] # "new"
      /\ rollbacks' = rollbacks \/ (rollbacks < MaxRollbacks /\ rollbacks' = rollbacks + 1)
  BY DEF EnsureSchemaFails, AbandonReview, RolledBack
<1>3. rollbacks' \in 0..MaxRollbacks
  BY <1>2, TransactionTypes
<1> QED
  BY <1>1, <1>2, <1>3, TransactionTypes, TransactionMoves

----------------------------------------------------------------------------
\* The statuses a verdict leaves behind.
LEMMA DecidedStatus ==
    ASSUME KnowledgeInv, NEW r \in Reviews, reviewing[r] # "new", Decided(r)
    PROVE  /\ status' \in [Feedback -> FeedbackStatus \union {"none"}]
           /\ investigation' \in [Investigations -> InvestigationStatus]
           /\ \A f \in Feedback : f # review[r].of => status'[f] = status[f]
           /\ status'[review[r].of] \in {Verdict(r), status[review[r].of]}
           /\ status'[review[r].of] \notin {"none", "PENDING_APPROVAL"}
<1>1. /\ review[r] \in Readings /\ review[r].of \in Feedback
      /\ review[r].status \in FeedbackStatus
      /\ status \in [Feedback -> FeedbackStatus \union {"none"}]
      /\ investigation \in [Investigations -> InvestigationStatus]
  BY DEF KnowledgeInv, LearningTypes, KnowledgeTypeOK, Readings
<1>2. Verdict(r) \in {"APPROVED_KNOWLEDGE", "REJECTED"}
  BY DEF Verdict
<1>3. status' = [status EXCEPT ![review[r].of] =
                    Written(status[review[r].of], review[r].status, Verdict(r))]
  BY DEF Decided
<1>4. status'[review[r].of] = Written(status[review[r].of], review[r].status, Verdict(r))
      /\ \A f \in Feedback : f # review[r].of => status'[f] = status[f]
  BY <1>1, <1>3
<1>5. status[review[r].of] # "none"
  BY <1>1 DEF KnowledgeInv, SubmittedInv
<1>6. Verdict(r) = review[r].status => status[review[r].of] # "PENDING_APPROVAL"
  BY <1>2 DEF KnowledgeInv, DecidedInv
<1>7. /\ status'[review[r].of] \in {Verdict(r), status[review[r].of]}
      /\ status'[review[r].of] \notin {"none", "PENDING_APPROVAL"}
  BY <1>2, <1>4, <1>5, <1>6 DEF Written
<1>8. status' \in [Feedback -> FeedbackStatus \union {"none"}]
  <2>1. Written(status[review[r].of], review[r].status, Verdict(r)) \in FeedbackStatus \union {"none"}
    BY <1>1, <1>2, WrittenType DEF FeedbackStatus
  <2> QED
    BY <1>1, <1>3, <2>1
<1>9. investigation' \in [Investigations -> InvestigationStatus]
  <2>1. Target(r) \in Investigations
    BY <1>1 DEF Target, Investigations
  <2>2. Written(investigation[Target(r)], review[r].investigation, Verdict(r)) \in InvestigationStatus
    BY <1>1, <1>2, <2>1, WrittenType DEF InvestigationStatus, FeedbackStatus
  <2> QED
    BY <1>1, <2>1, <2>2 DEF Decided
<1> QED
  BY <1>4, <1>7, <1>8, <1>9

LEMMA RejectFeedbackKeeps ==
    ASSUME KnowledgeInv, NEW r \in Reviews, RejectFeedback(r)
    PROVE  KnowledgeInv'
<1>1. /\ UNCHANGED <<articles, chunks, submitting, loaded, review, tx, rollbacks>>
      /\ reviewing[r] = "read" /\ reviewing' = [reviewing EXCEPT ![r] = "over"]
      /\ Decided(r) /\ ~review[r].approved
  BY DEF RejectFeedback, Goes, submitVars
<1>2. /\ status' \in [Feedback -> FeedbackStatus \union {"none"}]
      /\ investigation' \in [Investigations -> InvestigationStatus]
      /\ \A f \in Feedback : f # review[r].of => status'[f] = status[f]
      /\ status'[review[r].of] \in {"REJECTED", status[review[r].of]}
      /\ status'[review[r].of] \notin {"none", "PENDING_APPROVAL"}
  BY <1>1, DecidedStatus DEF Verdict
<1>3. KnowledgeTypeOK'
  BY <1>1, <1>2 DEF KnowledgeInv, LearningTypes, KnowledgeTypeOK
<1>4. \A q \in Reviews : reviewing'[q] # "new" <=> reviewing[q] # "new"
  BY <1>1 DEF KnowledgeInv, LearningTypes, KnowledgeTypeOK
<1>5. LearningTypes'
  BY <1>1, <1>3, <1>4 DEF KnowledgeInv, LearningTypes
<1>6. \A q \in Reviews : reviewing[q] # "new" => review[q].of \in Feedback
  BY DEF KnowledgeInv, LearningTypes, Readings
<1>7. SubmittedInv' /\ DecidedInv'
  BY <1>1, <1>2, <1>4, <1>6 DEF KnowledgeInv, SubmittedInv, DecidedInv
<1>8. TogetherInv'
  BY <1>1, <1>4 DEF KnowledgeInv, TogetherInv
<1>9. ApprovalIsWhole'
  <2>1. \A a \in articles : a.of \in Feedback
    BY DEF KnowledgeInv, LearningTypes, KnowledgeTypeOK, Articles
  <2> QED
    BY <1>1, <1>2, <1>3, <2>1 DEF KnowledgeInv, ApprovalIsWhole
<1> QED
  BY <1>5, <1>7, <1>8, <1>9 DEF KnowledgeInv

LEMMA CommitReviewKeeps ==
    ASSUME KnowledgeInv, NEW r \in Reviews, CommitReview(r)
    PROVE  KnowledgeInv'
<1> DEFINE f == review[r].of
<1>1. /\ UNCHANGED <<submitting, loaded, review, rollbacks>>
      /\ reviewing[r] = "indexing" /\ reviewing' = [reviewing EXCEPT ![r] = "over"]
      /\ tx' = [tx EXCEPT ![r] = Empty]
      /\ IF tx[r].rows THEN Decided(r) ELSE UNCHANGED <<status, investigation>>
      /\ articles' = articles \union (IF tx[r].article THEN {Article(r)} ELSE {})
      /\ \E inserted \in {{}, {Article(r)}} : chunks' = (chunks \ tx[r].clears) \union inserted
  BY DEF CommitReview, Goes, submitVars
<1>2. /\ f \in Feedback /\ Article(r) \in Articles /\ Article(r).of = f
      /\ submitting[f] = "submitted"
  BY <1>1 DEF KnowledgeInv, LearningTypes, Readings, Article, Articles, SubmittedInv
<1>3. tx[r].article \in BOOLEAN /\ (tx[r].article <=> tx[r].rows) /\ (tx[r].rows => review[r].approved)
  BY TransactionTypes
<1>4. /\ status' \in [Feedback -> FeedbackStatus \union {"none"}]
      /\ investigation' \in [Investigations -> InvestigationStatus]
      /\ \A g \in Feedback : status'[g] = "none" <=> status[g] = "none"
      /\ \A g \in Feedback : status'[g] = "PENDING_APPROVAL" => status[g] = "PENDING_APPROVAL"
      /\ \A g \in Feedback : status'[g] = "APPROVED_KNOWLEDGE" =>
           status[g] = "APPROVED_KNOWLEDGE" \/ (g = f /\ tx[r].rows)
      /\ tx[r].rows => status'[f] # "PENDING_APPROVAL"
  <2>1. CASE tx[r].rows
    <3>1. Decided(r) /\ reviewing[r] # "new"
      BY <1>1, <2>1
    <3>2. status[f] # "none"
      BY <1>2 DEF KnowledgeInv, SubmittedInv
    <3> QED
      BY <1>2, <2>1, <3>1, <3>2, DecidedStatus
  <2>2. CASE ~tx[r].rows
    BY <1>1, <2>2 DEF KnowledgeInv, LearningTypes, KnowledgeTypeOK
  <2> QED
    BY <2>1, <2>2
<1>5. articles' \subseteq Articles /\ chunks' \subseteq Articles
  BY <1>1, <1>2 DEF KnowledgeInv, LearningTypes, KnowledgeTypeOK
<1>6. KnowledgeTypeOK'
  BY <1>1, <1>4, <1>5 DEF KnowledgeInv, LearningTypes, KnowledgeTypeOK
<1>7. /\ \A q \in Reviews : reviewing'[q] # "new" <=> reviewing[q] # "new"
      /\ \A q \in Reviews : tx'[q] = IF q = r THEN Empty ELSE tx[q]
  BY <1>1, TransactionTypes DEF KnowledgeInv, LearningTypes, KnowledgeTypeOK
<1>8. LearningTypes'
  <2>1. tx' \in [Reviews -> [rows : BOOLEAN, article : BOOLEAN, clears : SUBSET Articles]]
    BY <1>1, TransactionTypes
  <2> QED
    BY <1>1, <1>6, <1>7, <2>1 DEF KnowledgeInv, LearningTypes
<1>9. \A q \in Reviews : reviewing[q] # "new" => review[q].of \in Feedback
  BY DEF KnowledgeInv, LearningTypes, Readings
<1>10. SubmittedInv'
  <2>1. \A a \in articles' : a \in articles \/ a = Article(r)
    BY <1>1
  <2> QED
    BY <1>1, <1>2, <1>4, <1>7, <2>1 DEF KnowledgeInv, SubmittedInv
<1>11. DecidedInv'
  BY <1>1, <1>4, <1>7, <1>9 DEF KnowledgeInv, DecidedInv
<1>12. TogetherInv'
  BY <1>1, <1>7, TransactionTypes DEF KnowledgeInv, TogetherInv
<1>13. ApprovalIsWhole'
  <2>1. \A a \in articles : a.of \in Feedback
    BY DEF KnowledgeInv, LearningTypes, KnowledgeTypeOK, Articles
  <2>2. ASSUME NEW g \in Feedback, status'[g] = "APPROVED_KNOWLEDGE"
        PROVE  \E a \in articles' : a.of = g
    <3>1. CASE status[g] = "APPROVED_KNOWLEDGE"
      BY <1>1, <3>1 DEF KnowledgeInv, ApprovalIsWhole
    <3>2. CASE g = f /\ tx[r].rows
      BY <1>1, <1>2, <1>3, <3>2
    <3> QED
      BY <1>4, <2>2, <3>1, <3>2
  <2>3. ASSUME NEW a \in articles' PROVE status'[a.of] # "PENDING_APPROVAL"
    <3>1. CASE a \in articles
      BY <1>4, <2>1, <3>1 DEF KnowledgeInv, ApprovalIsWhole
    <3>2. CASE tx[r].article /\ a = Article(r)
      BY <1>2, <1>3, <1>4, <3>2
    <3> QED
      BY <1>1, <3>1, <3>2
  <2> QED
    BY <1>6, <2>2, <2>3 DEF ApprovalIsWhole
<1> QED
  BY <1>8, <1>10, <1>11, <1>12, <1>13 DEF KnowledgeInv

LEMMA KnowledgeStep ==
    KnowledgeInv /\ [KnowledgeNext]_knowledgeVars => KnowledgeInv'
<1> SUFFICES ASSUME KnowledgeInv, [KnowledgeNext]_knowledgeVars PROVE KnowledgeInv'
  OBVIOUS
<1>1. CASE \E f \in Feedback : CheckPending(f) \/ SubmitFeedback(f)
  BY <1>1, CheckPendingKeeps, SubmitFeedbackKeeps
<1>2. CASE \E r \in Reviews : Review(r)
  <2> PICK r \in Reviews : Review(r)
    BY <1>2
  <2>1. CASE \E f \in Feedback, approved \in BOOLEAN, title \in Titles :
               LoadFeedback(r, f, approved, title)
    BY <2>1, LoadFeedbackKeeps
  <2> QED
    BY <2>1, RejectFeedbackKeeps, FlushArticleKeeps, DeleteChunksKeeps, EnsureSchemaKeeps,
       RolledBackKeeps, CommitReviewKeeps DEF Review
<1>3. CASE UNCHANGED knowledgeVars
  <2>1. LearningTypes' /\ ApprovalIsWhole'
    BY <1>3 DEF knowledgeVars, KnowledgeInv, LearningTypes, KnowledgeTypeOK, ApprovalIsWhole
  <2>2. SubmittedInv' /\ DecidedInv' /\ TogetherInv'
    BY <1>3 DEF knowledgeVars, KnowledgeInv, SubmittedInv, DecidedInv, TogetherInv
  <2> QED
    BY <2>1, <2>2 DEF KnowledgeInv
<1> QED
  BY <1>1, <1>2, <1>3 DEF KnowledgeNext

\* Approved knowledge has its article, and an article stems from feedback
\* that was decided, for any number of requests and wherever their
\* transactions fail, wait for each other or are rolled back by the helper
\* (routers/learning.review_feedback commits once).
THEOREM ApprovalAlwaysWhole ==
    KnowledgeSpec => []ApprovalIsWhole
<1>1. KnowledgeInv => ApprovalIsWhole
  BY DEF KnowledgeInv
<1> QED
  BY <1>1, KnowledgeStart, KnowledgeStep, PTL DEF KnowledgeSpec

----------------------------------------------------------------------------
\* What a request writes is a result or a skip, and a skip alone of a check
\* that has no statement.
WritesInv ==
    \A s \in Sessions :
        /\ DOMAIN written[s] \subseteq Checks
        /\ ~Active(s) => written[s] = Unseen
        /\ \A c \in DOMAIN written[s] :
             /\ written[s][c] \in Outcomes \union {"Skipped"}
             /\ ReadOnly(facts, c) \/ written[s][c] = "Skipped"

ExecutesInv ==
    \A s \in Sessions : checking[s] = "executing" => \A c \in todo[s] : ReadOnly(facts, c)

\* A check that was no longer pending when a request looked is not so later.
SeenInv ==
    \A s \in Sessions : Active(s) =>
        /\ seen[s] \in [Checks -> CheckStatus]
        /\ \A c \in Checks : seen[s][c] # "Pending" => checks[c] # "Pending"

ViewInv ==
    \A s \in Sessions : checking[s] = "composed" =>
        /\ view[s] \in [Checks -> CheckStatus]
        /\ \A c \in Checks :
             IF c \in DOMAIN written[s] THEN view[s][c] = written[s][c]
             ELSE view[s][c] # "Pending" => checks[c] # "Pending"

\* A request that nobody overlaps knows everything.
AloneInv ==
    ~overlapped =>
        /\ \A s, t \in Sessions : Active(s) /\ Active(t) => s = t
        /\ report = checks
        /\ \A s \in Sessions : Active(s) => seen[s] = checks
        /\ \A s \in Sessions : checking[s] = "composed" => view[s] = Overlay(s)

ChecksInv ==
    /\ CheckTypeOK /\ overlapped \in BOOLEAN
    /\ DOMAIN seen = Sessions /\ DOMAIN written = Sessions /\ DOMAIN view = Sessions
    /\ WritesInv /\ ExecutesInv /\ SeenInv /\ ViewInv /\ AloneInv
    /\ UnsupportedNeverExecuted /\ ReportIsNotAhead

----------------------------------------------------------------------------
LEMMA StatusForExecutes ==
    ASSUME NEW expected, NEW result
    PROVE  StatusFor(expected, result) \in Outcomes
  BY DEF StatusFor, Outcomes

LEMMA ChecksStart ==
    ChecksInit => ChecksInv
<1> SUFFICES ASSUME ChecksInit PROVE ChecksInv
  OBVIOUS
<1>1. /\ Checks = Suggested(facts) /\ report = checks
      /\ \A c \in Checks : checks[c] = IF ReadOnly(facts, c) THEN "Pending" ELSE "Unsupported"
      /\ listed = {}
  BY DEF ChecksInit, AsSuggested, Checks
<1>2. checks \in [Suggested(facts) -> CheckStatus]
  BY DEF ChecksInit, AsSuggested, CheckStatus
<1>3. \A s \in Sessions : checking[s] = "new" /\ written[s] = Unseen /\ todo[s] = {}
  BY DEF ChecksInit
<1>4. DOMAIN Unseen = {}
  BY DEF Unseen
<1>5. CheckTypeOK
  BY <1>1, <1>2, ChecksAssumption DEF ChecksInit, CheckTypeOK
<1>6. WritesInv /\ ExecutesInv /\ SeenInv /\ ViewInv
  BY <1>3, <1>4 DEF WritesInv, ExecutesInv, SeenInv, ViewInv, Active
<1>7. AloneInv
  BY <1>1, <1>3 DEF AloneInv, Active
<1>8. UnsupportedNeverExecuted /\ ReportIsNotAhead
  BY <1>1 DEF UnsupportedNeverExecuted, ReportIsNotAhead
<1> QED
  BY <1>5, <1>6, <1>7, <1>8 DEF ChecksInv, ChecksInit

----------------------------------------------------------------------------
\* The beginning of any request; whoever executes has chosen checks with a
\* statement.
LEMMA BeginKeeps ==
    ASSUME ChecksInv, NEW s \in Sessions, NEW first \in {"executing", "skipping", "reporting"},
           NEW chosen \in SUBSET Checks, Begin(s, first, chosen),
           first = "executing" => \A c \in chosen : ReadOnly(facts, c)
    PROVE  ChecksInv'
<1>1. /\ checking[s] = "new" /\ checking' = [checking EXCEPT ![s] = first]
      /\ seen' = [seen EXCEPT ![s] = checks] /\ todo' = [todo EXCEPT ![s] = chosen]
      /\ overlapped' = (overlapped \/ \E t \in Sessions \ {s} : Active(t))
      /\ UNCHANGED <<facts, checks, report, listed, written, view>>
  BY DEF Begin
<1>2. \A q \in Sessions : /\ checking'[q] = IF q = s THEN first ELSE checking[q]
                          /\ todo'[q] = IF q = s THEN chosen ELSE todo[q]
  BY <1>1 DEF ChecksInv, CheckTypeOK
<1>3. /\ \A q \in Sessions : seen'[q] = IF q = s THEN checks ELSE seen[q]
      /\ \A q \in Sessions : Active(q)' <=> Active(q) \/ q = s
      /\ DOMAIN seen' = Sessions
  BY <1>1, <1>2 DEF ChecksInv, Active
<1>4. Checks' = Checks /\ checks \in [Checks -> CheckStatus] /\ ~Active(s)
  BY <1>1 DEF ChecksInv, CheckTypeOK, Checks, Active
<1>5. CheckTypeOK'
  BY <1>1, <1>4 DEF ChecksInv, CheckTypeOK
<1>6. WritesInv'
  BY <1>1, <1>3, <1>4 DEF ChecksInv, WritesInv
<1>7. ExecutesInv'
  BY <1>1, <1>2 DEF ChecksInv, ExecutesInv
<1>8. SeenInv'
  BY <1>1, <1>3, <1>4 DEF ChecksInv, SeenInv
<1>9. ViewInv'
  BY <1>1, <1>2, <1>4 DEF ChecksInv, ViewInv
<1>10. AloneInv'
  <2> SUFFICES ASSUME ~overlapped' PROVE AloneInv'
    BY DEF AloneInv
  <2>1. ~overlapped /\ \A t \in Sessions : t # s => ~Active(t)
    BY <1>1
  <2>2. report = checks /\ \A q \in Sessions : checking'[q] # "composed"
    BY <1>2, <2>1 DEF ChecksInv, AloneInv, Active
  <2> QED
    BY <1>1, <1>3, <2>1, <2>2 DEF AloneInv
<1>11. UnsupportedNeverExecuted' /\ ReportIsNotAhead'
  BY <1>1, <1>4 DEF ChecksInv, UnsupportedNeverExecuted, ReportIsNotAhead
<1> QED
  BY <1>1, <1>3, <1>5, <1>6, <1>7, <1>8, <1>9, <1>10, <1>11 DEF ChecksInv

\* One check is executed or skipped.
LEMMA WriteKeeps ==
    ASSUME ChecksInv, NEW s \in Sessions, NEW c \in todo[s],
           checking[s] \in {"executing", "skipping"},
           NEW new \in Outcomes \union {"Skipped"}, Write(s, c, new),
           ReadOnly(facts, c) \/ new = "Skipped"
    PROVE  ChecksInv'
<1>1. /\ todo' = [todo EXCEPT ![s] = @ \ {c}]
      /\ UNCHANGED <<facts, checks, report, listed, checking, seen, view, overlapped>>
      /\ written' = [written EXCEPT ![s] = [d \in DOMAIN @ \union {c} |->
                                              IF d = c THEN new ELSE @[d]]]
  BY DEF Write
<1>2. /\ DOMAIN written' = Sessions
      /\ \A q \in Sessions : q # s => written'[q] = written[q]
      /\ DOMAIN written'[s] = DOMAIN written[s] \union {c}
      /\ \A d \in DOMAIN written'[s] : written'[s][d] = IF d = c THEN new ELSE written[s][d]
  BY <1>1 DEF ChecksInv
<1>3. \A q \in Sessions : todo'[q] \subseteq todo[q]
  BY <1>1 DEF ChecksInv, CheckTypeOK
<1>4. Checks' = Checks /\ c \in Checks /\ Active(s)
  BY <1>1 DEF ChecksInv, CheckTypeOK, Checks, Active
<1>5. CheckTypeOK'
  BY <1>1, <1>4 DEF ChecksInv, CheckTypeOK
<1>6. WritesInv'
  BY <1>1, <1>2, <1>4 DEF ChecksInv, WritesInv, Active
<1>7. ExecutesInv'
  BY <1>1, <1>3 DEF ChecksInv, ExecutesInv
<1>8. SeenInv'
  BY <1>1, <1>4 DEF ChecksInv, SeenInv, Active
<1>9. ViewInv'
  BY <1>1, <1>2, <1>4 DEF ChecksInv, ViewInv
<1>10. AloneInv'
  <2>1. \A q \in Sessions : checking[q] = "composed" => Overlay(q)' = Overlay(q)
    BY <1>1, <1>2, <1>4 DEF Overlay
  <2> QED
    BY <1>1, <2>1 DEF ChecksInv, AloneInv, Active
<1>11. UnsupportedNeverExecuted' /\ ReportIsNotAhead'
  BY <1>1, <1>4 DEF ChecksInv, UnsupportedNeverExecuted, ReportIsNotAhead
<1> QED
  BY <1>1, <1>2, <1>5, <1>6, <1>7, <1>8, <1>9, <1>10, <1>11 DEF ChecksInv

LEMMA RegenerateKeeps ==
    ASSUME ChecksInv, NEW s \in Sessions, Regenerate(s)
    PROVE  ChecksInv'
<1>1. /\ UNCHANGED <<facts, checks, report, listed, seen, todo, written, overlapped>>
      /\ checking[s] \in {"executing", "skipping", "reporting"}
      /\ checking' = [checking EXCEPT ![s] = "composed"] /\ view' = [view EXCEPT ![s] = Overlay(s)]
  BY DEF Regenerate
<1>2. /\ DOMAIN view' = Sessions
      /\ \A q \in Sessions : /\ checking'[q] = IF q = s THEN "composed" ELSE checking[q]
                             /\ view'[q] = IF q = s THEN Overlay(s) ELSE view[q]
                             /\ (Active(q)' <=> Active(q))
  BY <1>1 DEF ChecksInv, CheckTypeOK, Active
<1>3. Checks' = Checks /\ checks \in [Checks -> CheckStatus]
  BY <1>1 DEF ChecksInv, CheckTypeOK, Checks
<1>4. CheckTypeOK'
  BY <1>1, <1>3 DEF ChecksInv, CheckTypeOK
<1>5. WritesInv' /\ ExecutesInv' /\ SeenInv'
  BY <1>1, <1>2, <1>3 DEF ChecksInv, WritesInv, ExecutesInv, SeenInv
<1>6. ViewInv'
  <2>1. /\ Overlay(s) \in [Checks -> CheckStatus]
        /\ \A c \in Checks : Overlay(s)[c] =
             IF c \in DOMAIN written[s] THEN written[s][c] ELSE checks[c]
    BY <1>3 DEF Overlay, ChecksInv, WritesInv, CheckStatus
  <2> QED
    BY <1>1, <1>2, <1>3, <2>1 DEF ChecksInv, ViewInv
<1>7. AloneInv'
  <2>1. \A q \in Sessions : Overlay(q)' = Overlay(q)
    BY <1>1, <1>3 DEF Overlay
  <2> QED
    BY <1>1, <1>2, <2>1 DEF ChecksInv, AloneInv
<1>8. UnsupportedNeverExecuted' /\ ReportIsNotAhead'
  BY <1>1, <1>3 DEF ChecksInv, UnsupportedNeverExecuted, ReportIsNotAhead
<1> QED
  BY <1>1, <1>2, <1>4, <1>5, <1>6, <1>7, <1>8 DEF ChecksInv

----------------------------------------------------------------------------
\* Whoever leaves may have changed a status, but never back to pending.
LEMMA LeaveKeeps ==
    ASSUME ChecksInv, NEW s \in Sessions, Active(s), Leave(s),
           checks' \in [Checks -> CheckStatus], report' \in [Checks -> CheckStatus],
           listed' \subseteq Checks,
           \A c \in Checks : checks[c] # "Pending" => checks'[c] # "Pending",
           overlapped \/ report' = checks',
           UnsupportedNeverExecuted', ReportIsNotAhead'
    PROVE  ChecksInv'
<1>1. /\ checking' = [checking EXCEPT ![s] = "over"] /\ todo' = [todo EXCEPT ![s] = {}]
      /\ written' = [written EXCEPT ![s] = Unseen] /\ view' = [view EXCEPT ![s] = Unseen]
      /\ seen' = [seen EXCEPT ![s] = Unseen] /\ UNCHANGED <<facts, overlapped>>
  BY DEF Leave
<1>2. /\ DOMAIN seen' = Sessions /\ DOMAIN written' = Sessions /\ DOMAIN view' = Sessions
      /\ checking'[s] = "over" /\ written'[s] = Unseen /\ ~Active(s)'
      /\ \A q \in Sessions : q # s =>
           /\ checking'[q] = checking[q] /\ todo'[q] = todo[q] /\ written'[q] = written[q]
           /\ seen'[q] = seen[q] /\ view'[q] = view[q] /\ (Active(q)' <=> Active(q))
  BY <1>1 DEF ChecksInv, CheckTypeOK, Active
<1>3. Checks' = Checks /\ Checks = Suggested(facts)
  BY DEF ChecksInv, CheckTypeOK, Checks
<1>4. CheckTypeOK'
  BY <1>1, <1>3 DEF ChecksInv, CheckTypeOK
<1>5. DOMAIN Unseen = {}
  BY DEF Unseen
<1>6. WritesInv'
  BY <1>1, <1>2, <1>3, <1>5 DEF ChecksInv, WritesInv
<1>7. ExecutesInv'
  BY <1>1, <1>2 DEF ChecksInv, ExecutesInv
<1>8. SeenInv'
  <2> SUFFICES ASSUME NEW q \in Sessions, Active(q)'
               PROVE  /\ seen'[q] \in [Checks -> CheckStatus]
                      /\ \A c \in Checks : seen'[q][c] # "Pending" => checks'[c] # "Pending"
    BY <1>3 DEF SeenInv
  <2>1. q # s /\ seen'[q] = seen[q] /\ Active(q)
    BY <1>2
  <2> QED
    BY <2>1 DEF ChecksInv, SeenInv
<1>9. ViewInv'
  <2> SUFFICES ASSUME NEW q \in Sessions, checking'[q] = "composed"
               PROVE  /\ view'[q] \in [Checks -> CheckStatus]
                      /\ \A c \in Checks :
                           IF c \in DOMAIN written'[q] THEN view'[q][c] = written'[q][c]
                           ELSE view'[q][c] # "Pending" => checks'[c] # "Pending"
    BY <1>3 DEF ViewInv
  <2>1. view'[q] = view[q] /\ written'[q] = written[q] /\ checking[q] = "composed"
    BY <1>2
  <2> QED
    BY <2>1 DEF ChecksInv, ViewInv
<1>10. AloneInv'
  <2> SUFFICES ASSUME ~overlapped' PROVE AloneInv'
    BY DEF AloneInv
  <2>1. report' = checks' /\ \A q \in Sessions : ~Active(q)'
    BY <1>1, <1>2 DEF ChecksInv, AloneInv
  <2> QED
    BY <2>1 DEF AloneInv, Active
<1> QED
  BY <1>1, <1>2, <1>4, <1>6, <1>7, <1>8, <1>9, <1>10 DEF ChecksInv

LEMMA CommitKeeps ==
    ASSUME ChecksInv, NEW s \in Sessions, Commit(s)
    PROVE  ChecksInv'
<1> DEFINE Changes(c) == c \in DOMAIN written[s] /\ written[s][c] # seen[s][c]
<1>1. /\ checking[s] = "composed" /\ Active(s) /\ Leave(s) /\ report' = view[s]
      /\ listed' = ResultsIn(view[s])
      /\ checks' = [c \in Checks |-> IF Changes(c) THEN written[s][c] ELSE checks[c]]
      /\ UNCHANGED facts
  BY DEF Commit, Active, Leave
<1>2. Checks' = Checks /\ checks \in [Checks -> CheckStatus]
  BY <1>1 DEF ChecksInv, CheckTypeOK, Checks
<1>3. \A c \in DOMAIN written[s] :
         /\ c \in Checks
         /\ written[s][c] \in CheckStatus \ {"Pending", "Unsupported"}
         /\ ReadOnly(facts, c) \/ written[s][c] = "Skipped"
  BY DEF ChecksInv, WritesInv, CheckStatus, Outcomes
<1>4. \A c \in Checks : checks'[c] = IF Changes(c) THEN written[s][c] ELSE checks[c]
  BY <1>1
<1>5. checks' \in [Checks -> CheckStatus]
  BY <1>1, <1>2, <1>3
<1>6. \A c \in Checks : checks[c] # "Pending" => checks'[c] # "Pending"
  BY <1>3, <1>4
<1>7. /\ view[s] \in [Checks -> CheckStatus]
      /\ \A c \in Checks :
           IF c \in DOMAIN written[s] THEN view[s][c] = written[s][c]
           ELSE view[s][c] # "Pending" => checks[c] # "Pending"
      /\ listed' \subseteq Checks
      /\ \A c \in Checks : seen[s][c] # "Pending" => checks[c] # "Pending"
  BY <1>1 DEF ChecksInv, ViewInv, SeenInv, ResultsIn
<1>8. overlapped \/ report' = checks'
  <2> SUFFICES ASSUME ~overlapped PROVE report' = checks'
    OBVIOUS
  <2>1. seen[s] = checks /\ view[s] = Overlay(s)
    BY <1>1 DEF ChecksInv, AloneInv
  <2> QED
    BY <1>1, <2>1 DEF Overlay
<1>9. UnsupportedNeverExecuted'
  BY <1>1, <1>2, <1>3, <1>4 DEF ChecksInv, UnsupportedNeverExecuted
<1>10. ReportIsNotAhead'
  <2> SUFFICES ASSUME NEW c \in listed' PROVE checks'[c] # "Pending"
    BY <1>1, <1>2 DEF ReportIsNotAhead
  <2>1. c \in Checks /\ view[s][c] # "Pending"
    BY <1>1, <1>7 DEF ResultsIn
  <2>2. CASE c \in DOMAIN written[s]
    BY <1>3, <1>4, <1>7, <2>2
  <2>3. CASE c \notin DOMAIN written[s]
    BY <1>4, <1>7, <2>1, <2>3
  <2> QED
    BY <2>2, <2>3
<1> QED
  BY <1>1, <1>5, <1>6, <1>7, <1>8, <1>9, <1>10, LeaveKeeps

LEMMA AbandonKeeps ==
    ASSUME ChecksInv, NEW s \in Sessions, Abandon(s)
    PROVE  ChecksInv'
<1>1. Active(s) /\ Leave(s) /\ UNCHANGED <<facts, checks, report, listed>> /\ Checks' = Checks
  BY DEF Abandon, Leave, Checks
<1>2. checks' \in [Checks -> CheckStatus] /\ report' \in [Checks -> CheckStatus]
  BY <1>1 DEF ChecksInv, CheckTypeOK, Checks
<1>3. overlapped \/ report' = checks'
  BY <1>1 DEF ChecksInv, AloneInv
<1>4. UnsupportedNeverExecuted' /\ ReportIsNotAhead'
  BY <1>1 DEF ChecksInv, UnsupportedNeverExecuted, ReportIsNotAhead
<1>5. \A c \in Checks : checks[c] # "Pending" => checks'[c] # "Pending"
  BY <1>1
<1>6. listed' \subseteq Checks
  BY <1>1 DEF ChecksInv, CheckTypeOK
<1> QED
  BY <1>1, <1>2, <1>3, <1>4, <1>5, <1>6, LeaveKeeps

----------------------------------------------------------------------------
LEMMA RequestKeeps ==
    ASSUME ChecksInv, NEW s \in Sessions, Request(s)
    PROVE  ChecksInv'
<1>1. CASE \E c \in Checks : RunCheck(s, c)
  <2> PICK c \in Checks : RunCheck(s, c)
    BY <1>1
  <2>1. {c} \in SUBSET Checks /\ Begin(s, "executing", {c}) /\ \A d \in {c} : ReadOnly(facts, d)
    BY DEF RunCheck, Executable
  <2> QED
    BY <2>1, BeginKeeps
<1>2. CASE \E c \in Checks : SkipCheck(s, c)
  <2> PICK c \in Checks : SkipCheck(s, c)
    BY <1>2
  <2>1. {c} \in SUBSET Checks /\ Begin(s, "skipping", {c})
    BY DEF SkipCheck
  <2> QED
    BY <2>1, BeginKeeps
<1>3. CASE RunAll(s)
  <2> DEFINE pending == {c \in Checks : checks[c] = "Pending"}
  <2>1. pending \in SUBSET Checks /\ Begin(s, "executing", pending)
    BY <1>3 DEF RunAll
  <2>2. \A c \in pending : ReadOnly(facts, c)
    BY DEF ChecksInv, UnsupportedNeverExecuted
  <2> HIDE DEF pending
  <2> QED
    BY <2>1, <2>2, BeginKeeps
<1>4. CASE RegenerateReports(s)
  BY <1>4, BeginKeeps DEF RegenerateReports
<1>5. CASE \E c \in Checks, result \in CheckAnswers : ExecuteCheck(s, c, result)
  <2> PICK c \in Checks, result \in CheckAnswers : ExecuteCheck(s, c, result)
    BY <1>5
  <2> DEFINE new == StatusFor(Expected(facts, c), result)
  <2>1. /\ checking[s] = "executing" /\ c \in todo[s] /\ Write(s, c, new)
        /\ new \in Outcomes
    BY StatusForExecutes DEF ExecuteCheck
  <2>2. ReadOnly(facts, c)
    BY <2>1 DEF ChecksInv, ExecutesInv
  <2> HIDE DEF new
  <2> QED
    BY <2>1, <2>2, WriteKeeps
<1>6. CASE \E c \in Checks : Skip(s, c)
  BY <1>6, WriteKeeps DEF Skip
<1>7. CASE Regenerate(s)
  BY <1>7, RegenerateKeeps
<1>8. CASE Commit(s)
  BY <1>8, CommitKeeps
<1>9. CASE Abandon(s)
  BY <1>9, AbandonKeeps
<1> QED
  BY <1>1, <1>2, <1>3, <1>4, <1>5, <1>6, <1>7, <1>8, <1>9 DEF Request

LEMMA ChecksStutter ==
    ASSUME ChecksInv, UNCHANGED checkVars PROVE ChecksInv'
  BY DEF checkVars, ChecksInv, CheckTypeOK, WritesInv, ExecutesInv, SeenInv, ViewInv, AloneInv,
       Overlay, Active, Checks, UnsupportedNeverExecuted, ReportIsNotAhead

\* What is stored of an investigation's checks (routers/chat.py) is what was
\* done with them: no result without a statement, no pending check among the
\* report's results, a current report after requests that followed each other.  For any number
\* of requests and whatever the investigation has collected.
THEOREM ChecksAlwaysAccountedFor ==
    ChecksSpec => []ChecksAreAccountedFor
<1>1. ChecksInit => ChecksInv
  BY ChecksStart
<1>2. ChecksInv /\ [ChecksNext]_checkVars => ChecksInv'
  BY RequestKeeps, ChecksStutter DEF ChecksNext
<1>3. ChecksInv => ChecksAreAccountedFor
  BY DEF ChecksInv, ChecksAreAccountedFor, ReportIsCurrent, AloneInv
<1> QED
  BY <1>1, <1>2, <1>3, PTL DEF ChecksSpec
==============================================================================
