------------------------ MODULE InvestigationLedger ------------------------
(***************************************************************************)
(* The transition ledger of one investigation and the database sessions    *)
(* that append to it (services/investigation_state_machine.py), seen at    *)
(* the granularity of SQL statements.                                      *)
(*                                                                         *)
(* InvestigationStateService.transition reads the latest row, validates    *)
(* the requested state against it, and only then locks the investigation,  *)
(* allocates the next sequence number and inserts.  What happens between   *)
(* those statements depends on the database under SQLAlchemy:              *)
(*   RowLock  - SELECT ... FOR UPDATE is issued (postgresql, mysql);       *)
(*              other dialects return early from _lock_investigation;      *)
(*   Snapshot - every read of a transaction sees the state at its first    *)
(*              read (REPEATABLE READ, the default of mysql); otherwise    *)
(*              each statement sees what is committed when it runs.        *)
(* The dialect is chosen when the server is configured and stays.          *)
(***************************************************************************)
EXTENDS InvestigationStates

CONSTANTS
  Requests,          \* requests and workers, one database session each
  Targets,           \* next_state values the callers ask for
  StartHistories,    \* committed ledgers the requests may find
  Dialects,          \* databases the server may be configured with
  MaxAttempts,       \* _SEQUENCE_ALLOCATION_ATTEMPTS
  MaxCalls,          \* model bound on the rows a request may append
  Nobody             \* no session holds the lock

Row == [prev : InvestigationState \cup {NoState},
        cur : InvestigationState, iter : Nat]

ASSUME LedgerAssumption ==
  /\ Targets \subseteq InvestigationState
  /\ Dialects \subseteq {"postgresql", "mysql", "sqlite"}
  /\ MaxAttempts \in Nat \ {0}
  /\ MaxCalls \in Nat
  /\ Nobody \notin Requests
  /\ \A h \in StartHistories : h \in Seq(Row) /\ IsLifecycle(h)

VARIABLES
  dialect,   \* bind.dialect.name
  rows,      \* the table: row i has sequence_number i
  durable,   \* rows 1..durable are committed, the others are owner's
  owner,     \* holder of the row lock (RowLock) or of the write lock
  pc,        \* where each request is
  seenFrom,  \* length of the ledger when the request's transaction began
  op,        \* the row the request is about to insert
  asked,     \* the (prev, iter) transition() passed to _persist
  number,    \* the sequence number it allocated
  attempt,   \* _attempt of _persist_with_sequence_retry
  audit      \* audit[i]: what the audit event of row i says, NoEvent if lost

lockVars == <<owner, durable>>
opVars   == <<op, asked, number, attempt>>
vars     == <<dialect, rows, audit, lockVars, pc, seenFrom, opVars>>

RowLock  == dialect \in {"postgresql", "mysql"}
Snapshot == dialect = "mysql"

Control == {"new", "open", "ready", "numbered", "closed"}
AuditEvent == [prev : InvestigationState \cup {NoState}, iter : Nat]
NoEvent == [prev |-> "LOST", iter |-> 0]

EventOf(row) == [prev |-> row.prev, iter |-> row.iter]

-----------------------------------------------------------------------------
(* How many rows a statement of request r sees: its own uncommitted ones,  *)
(* and of the others those its isolation level shows.  A request with      *)
(* uncommitted rows holds the lock, so nothing was committed behind it.    *)
Seen(r) ==
  IF owner = r /\ Len(rows) > durable THEN Len(rows)
  ELSE IF Snapshot THEN seenFrom[r] ELSE durable

(* current(): the row with the highest sequence number the session sees.   *)
Current(r) == rows[Seen(r)]

LockFree(r) == owner \in {r, Nobody}

KeepLock(r) == UNCHANGED owner     \* fault: the lock outlives its session

ReleaseLock(r) == owner' = IF owner = r THEN Nobody ELSE owner

NoOp == [prev |-> NoState, cur |-> "INITIALIZATION", iter |-> 0]

(* The local variables of _persist go out of scope.                        *)
Forget(r) ==
  /\ op' = [op EXCEPT ![r] = NoOp]
  /\ asked' = [asked EXCEPT ![r] = EventOf(NoOp)]
  /\ number' = [number EXCEPT ![r] = 0]
  /\ attempt' = [attempt EXCEPT ![r] = 0]

Close(r) ==
  /\ pc' = [pc EXCEPT ![r] = "closed"]
  /\ seenFrom' = [seenFrom EXCEPT ![r] = 0]
  /\ ReleaseLock(r)
  /\ Forget(r)

(* Fault: the audit event is written outside the transition's transaction. *)
RollbackRowsOnly(r) ==
  /\ rows' = IF owner = r THEN SubSeq(rows, 1, durable) ELSE rows
  /\ UNCHANGED <<audit, durable>>
  /\ Close(r)

(* The session is closed without a commit: an exception left the handler,  *)
(* the process died, or idle_in_transaction_session_timeout expired.       *)
RollbackAndClose(r) ==
  /\ rows' = IF owner = r THEN SubSeq(rows, 1, durable) ELSE rows
  /\ audit' = IF owner = r THEN SubSeq(audit, 1, durable) ELSE audit
  /\ UNCHANGED durable
  /\ Close(r)

Init ==
  /\ dialect \in Dialects
  /\ rows \in StartHistories
  /\ durable = Len(rows)
  /\ audit = [i \in 1..Len(rows) |-> EventOf(rows[i])]
  /\ owner = Nobody
  /\ pc = [r \in Requests |-> "new"]
  /\ seenFrom = [r \in Requests |-> 0]
  /\ op = [r \in Requests |-> NoOp]
  /\ asked = [r \in Requests |-> EventOf(NoOp)]
  /\ number = [r \in Requests |-> 0]
  /\ attempt = [r \in Requests |-> 0]

(* The handler's first query (it loads the investigation).                 *)
BeginRequest(r) ==
  /\ pc[r] = "new"
  /\ pc' = [pc EXCEPT ![r] = "open"]
  /\ seenFrom' = [seenFrom EXCEPT ![r] = durable]
  /\ UNCHANGED <<rows, audit, lockVars, opVars>>

Prepare(r, row) ==
  /\ pc' = [pc EXCEPT ![r] = "ready"]
  /\ op' = [op EXCEPT ![r] = row]
  /\ asked' = [asked EXCEPT ![r] = EventOf(row)]
  /\ UNCHANGED <<rows, audit, lockVars, seenFrom, number, attempt>>

(* Bound of the model: a request stops after MaxCalls rows.                *)
MayAppend(r) == Seen(r) < seenFrom[r] + MaxCalls

(* Fault: initialize() without the check for an existing row.              *)
InitializeAgain(r) ==
  /\ pc[r] = "open"
  /\ MayAppend(r)
  /\ Prepare(r, NoOp)

(* initialize() on a ledger it sees as empty; otherwise it returns the     *)
(* current row and changes nothing.                                        *)
Initialize(r) ==
  /\ pc[r] = "open"
  /\ Seen(r) = 0
  /\ MayAppend(r)
  /\ Prepare(r, NoOp)

(* The ledger the session sees is initialized and admits the target.       *)
Admits(r, target) ==
  Seen(r) > 0 /\ ValidTransition(Current(r).cur, target)

(* transition() up to the call of _persist; cancel() and fail() are the    *)
(* targets CANCELLED and FAILED.                                           *)
Transition(r, target) ==
  /\ pc[r] = "open"
  /\ MayAppend(r)
  /\ Admits(r, target)
  /\ Prepare(r, [prev |-> Current(r).cur, cur |-> target,
                 iter |-> IterationAfter(Current(r).iter, Current(r).cur, target)])

(* transition() raises: not initialized, a terminal state, or not allowed. *)
RejectTransition(r, target) ==
  /\ pc[r] = "open"
  /\ ~Admits(r, target)
  /\ RollbackAndClose(r)

(* Fault: the number comes from a locking read that bypasses the snapshot. *)
AllocateFromLatest(r) ==
  /\ pc[r] = "ready"
  /\ IF RowLock THEN LockFree(r) /\ owner' = r ELSE UNCHANGED owner
  /\ number' = [number EXCEPT ![r] = Len(rows) + 1]
  /\ pc' = [pc EXCEPT ![r] = "numbered"]
  /\ UNCHANGED <<rows, audit, durable, seenFrom, op, asked, attempt>>

(* _lock_investigation and _next_sequence_number.                          *)
AllocateSequence(r) ==
  /\ pc[r] = "ready"
  /\ IF RowLock THEN LockFree(r) /\ owner' = r ELSE UNCHANGED owner
  /\ number' = [number EXCEPT ![r] = Seen(r) + 1]
  /\ pc' = [pc EXCEPT ![r] = "numbered"]
  /\ UNCHANGED <<rows, audit, durable, seenFrom, op, asked, attempt>>

(* Fault: the audit event is built from a fresh read of the ledger.        *)
AuditedNow(r) ==
  [prev |-> IF Seen(r) = 0 THEN NoState ELSE Current(r).cur,
   iter |-> asked[r].iter]

(* The values record_audit_event is called with.                           *)
Audited(r) == asked[r]

(* The INSERT waits for any other writer of the row (the lock, or the      *)
(* engine's own write lock), then the unique constraint lets it through.   *)
(* _persist then records the audit event, from the values transition()     *)
(* passed in and not from what a retry made of them; a failure to write it *)
(* is logged and swallowed.                                                *)
InsertRow(r) ==
  /\ pc[r] = "numbered"
  /\ LockFree(r)
  /\ number[r] = Len(rows) + 1
  /\ rows' = Append(rows, op[r])
  /\ \E event \in {Audited(r), NoEvent} : audit' = Append(audit, event)
  /\ owner' = r
  /\ pc' = [pc EXCEPT ![r] = "open"]
  /\ Forget(r)
  /\ UNCHANGED <<durable, seenFrom>>

(* uq_investigation_state_transition_sequence is violated: roll back to    *)
(* the savepoint, read the ledger again and re-validate before retrying.   *)
Collided(r) ==
  /\ pc[r] = "numbered"
  /\ LockFree(r)
  /\ number[r] <= Len(rows)

(* Fault: retry without validating against the ledger read again.          *)
RetryUnchecked(r) == Seen(r) > 0 /\ attempt[r] + 1 < MaxAttempts

CanRetry(r) ==
  /\ Admits(r, op[r].cur)
  /\ attempt[r] + 1 < MaxAttempts

RetryAfterCollision(r) ==
  /\ Collided(r)
  /\ CanRetry(r)
  /\ op' = [op EXCEPT ![r] =
              [prev |-> Current(r).cur, cur |-> op[r].cur,
               iter |-> IterationAfter(Current(r).iter, Current(r).cur, op[r].cur)]]
  /\ attempt' = [attempt EXCEPT ![r] = @ + 1]
  /\ pc' = [pc EXCEPT ![r] = "ready"]
  /\ UNCHANGED <<rows, audit, lockVars, seenFrom, asked, number>>

(* "Investigation state changed during transition allocation", or the      *)
(* third collision is raised.                                              *)
GiveUpAfterCollision(r) ==
  /\ Collided(r)
  /\ ~CanRetry(r)
  /\ RollbackAndClose(r)

(* The handler commits: its transitions become visible together.           *)
CommitRequest(r) ==
  /\ pc[r] = "open"
  /\ durable' = IF owner = r THEN Len(rows) ELSE durable
  /\ UNCHANGED <<rows, audit>>
  /\ Close(r)

AbortRequest(r) ==
  /\ pc[r] \in {"open", "ready", "numbered"}
  /\ RollbackAndClose(r)

AllClosed ==
  /\ \A r \in Requests : pc[r] = "closed"
  /\ UNCHANGED vars

Progress(r) ==
  /\ \/ Initialize(r)
     \/ \E target \in Targets : Transition(r, target) \/ RejectTransition(r, target)
     \/ AllocateSequence(r)
     \/ InsertRow(r)
     \/ RetryAfterCollision(r)
     \/ GiveUpAfterCollision(r)
     \/ CommitRequest(r)
  /\ UNCHANGED dialect

Next ==
  \/ \E r \in Requests :
        Progress(r) \/ ((BeginRequest(r) \/ AbortRequest(r)) /\ UNCHANGED dialect)
  \/ AllClosed

Spec == Init /\ [][Next]_vars

(* A handler that has begun runs on until it answers; only its arrival is  *)
(* not owed to anyone.                                                     *)
FairSpec == Spec /\ \A r \in Requests : WF_vars(Progress(r))

-----------------------------------------------------------------------------
(* Type invariant of the ledger and of the sessions' local state.          *)
TypeOK ==
  /\ dialect \in Dialects
  /\ rows \in Seq(Row)
  /\ audit \in Seq(AuditEvent \cup {NoEvent})
  /\ Len(audit) = Len(rows)
  /\ durable \in 0..Len(rows)
  /\ owner \in Requests \cup {Nobody}
  /\ pc \in [Requests -> Control]
  /\ seenFrom \in [Requests -> Nat]
  /\ op \in [Requests -> Row]
  /\ asked \in [Requests -> AuditEvent]
  /\ number \in [Requests -> Nat]
  /\ attempt \in [Requests -> Nat]

(* Whatever the dialect and however requests interleave, collide and       *)
(* retry, a row is the initialization row or an allowed successor, with    *)
(* the right iteration number, of some row before it: validation, the      *)
(* re-validation after a collision and the recomputed iteration agree.     *)
(* Migration 0021 orders old histories by exactly this relation.           *)
EveryRowHasPredecessor ==
  \A i \in 1..Len(rows) :
     \/ StartsLifecycle(rows[i])
     \/ \E j \in 1..(i - 1) : Continues(rows[j], rows[i])

(* A request that nobody overtook (nothing was committed since its         *)
(* transaction began) appends a legal successor of the last row, on every  *)
(* dialect: only the gap between current() and the lock can hurt.          *)
FreshWritersContinue ==
  [][\A r \in Requests :
       InsertRow(r) /\ seenFrom[r] = durable =>
         IF rows = <<>> THEN StartsLifecycle(op[r])
                        ELSE Continues(rows[Len(rows)], op[r])]_vars

(* Where rows are locked, the audit event of a transition, when it could   *)
(* be written, names the previous state and the iteration of its ledger    *)
(* row, although _persist records what transition() asked for.             *)
AuditMatchesRow ==
  \A i \in 1..Len(rows) : audit[i] \in {EventOf(rows[i]), NoEvent}

LockedAuditMatchesRow == RowLock => AuditMatchesRow

(* docs/investigation-state-machine.md: "Terminal states reject every      *)
(* subsequent transition."  Once a terminal row is committed the           *)
(* committed ledger never grows.                                           *)
TerminalIsFinal ==
  [][durable > 0 /\ rows[durable].cur \in TerminalStates
       => durable' = durable]_vars

(* The unique constraint rejects every writer whose snapshot is stale, so  *)
(* with snapshot reads the committed rows are what InvestigationLifecycle  *)
(* promises: one history, continued by allowed transitions, closed by a    *)
(* terminal state.  The other databases show nothing to it.                *)
Committed == IF Snapshot THEN SubSeq(rows, 1, durable) ELSE <<>>
Lifecycle == INSTANCE InvestigationLifecycle WITH history <- Committed
SnapshotRefinesLifecycle == Lifecycle!Spec

(* Locks, collisions and retries never keep a request from answering.      *)
RequestsEnd == \A r \in Requests : pc[r] = "open" ~> pc[r] = "closed"
=============================================================================
