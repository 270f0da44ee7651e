----------------------------- MODULE ServerProcess -----------------------------
(***************************************************************************)
(* One server process: requests served by concurrent threads that share    *)
(* the slots of the LangGraph orchestrator, the connector pool and the     *)
(* provider circuit, while an administrator edits or deletes the saved     *)
(* connection.                                                             *)
(*                                                                         *)
(* An "ask" is an investigation (POST /chat/ask), a "check" runs a         *)
(* suggested verification check of a stored one, and a "page" is one of    *)
(* the test, schema, table, query and refresh endpoints of the connections *)
(* router.  Only asks take a slot and call the provider; what an ask makes *)
(* of the evidence is AskInvestigation's business.                         *)
(***************************************************************************)
EXTENDS ConnectorPool, ProviderCircuit, FiniteSets

CONSTANTS
    Slots,          \* langgraph_max_concurrent_runs
    MaxAttempts,    \* llm_retry_attempts
    Arrivals        \* the mixes of requests that may arrive

ASSUME ProcessAssumption ==
    /\ IsFiniteSet(Requests)
    /\ Slots \in Nat \ {0}
    /\ MaxAttempts \in Nat \ {0}
    /\ Arrivals \subseteq [Requests -> Kinds]

VARIABLES
    pc,         \* where each request stands
    kind,       \* what each request is
    config,     \* the version each request has read, 0 before it has
    held,       \* the connector each request works with
    attempt,    \* the provider attempts of each request
    taken,      \* slots taken of the BoundedSemaphore
    version,    \* committed version of the saved connection
    active,     \* its is_active column
    editing     \* the administrator has committed and not yet closed

requestVars == <<pc, kind, config, held, attempt, taken>>
rowVars == <<version, active, editing>>
vars == <<requestVars, rowVars, poolVars, circuitVars>>

Stages == {"idle", "running", "read", "missing", "connect", "probe", "use",
           "reprobe", "think", "calling", "done"}

TypeOK ==
    /\ PoolTypeOK
    /\ CircuitTypeOK
    /\ pc \in [Requests -> Stages]
    /\ kind \in [Requests -> Kinds]
    /\ config \in [Requests -> Versions \union {0}]
    /\ held \in [Requests -> Requests \union {None}]
    /\ attempt \in [Requests -> 0..MaxAttempts]
    /\ taken \in 0..Slots
    /\ version \in Versions
    /\ active \in BOOLEAN
    /\ editing \in BOOLEAN

Init ==
    /\ PoolInit
    /\ CircuitInit
    /\ pc = [r \in Requests |-> "idle"]
    /\ kind \in Arrivals
    /\ config = [r \in Requests |-> 0]
    /\ held = [r \in Requests |-> None]
    /\ attempt = [r \in Requests |-> 0]
    /\ taken = 0
    /\ version = 1
    /\ active = TRUE
    /\ editing = FALSE

At(r, stage) == pc[r] = stage /\ stale[r] = None
Goto(r, stage) == pc' = [pc EXCEPT ![r] = stage]

\* Fault: a run refused before its first step keeps its slot.
KeepSlotWhenRefused(r) ==
    taken' = IF kind[r] = "ask" /\ pc[r] # "running" THEN taken - 1 ELSE taken

\* run() releases the slot in a finally clause, whatever ended the run.
ReleaseSlot(r) == taken' = IF kind[r] = "ask" THEN taken - 1 ELSE taken

\* A request returns or raises; its locals are gone.
End(r) ==
    /\ Goto(r, "done")
    /\ config' = [config EXCEPT ![r] = 0]
    /\ held' = [held EXCEPT ![r] = None]
    /\ attempt' = [attempt EXCEPT ![r] = 0]
    /\ ReleaseSlot(r)
    /\ UNCHANGED kind

----------------------------------------------------------------------------
(* Requests. *)

\* acquire(blocking=False): a slot or LangGraphUnavailableError at once.
TakeSlot(r) ==
    IF kind[r] = "ask" THEN taken < Slots /\ taken' = taken + 1 ELSE UNCHANGED taken

Start(r) ==
    /\ At(r, "idle")
    /\ TakeSlot(r)
    /\ Goto(r, "running")
    /\ UNCHANGED <<kind, config, held, attempt, rowVars, poolVars, circuitVars>>

TurnAway(r) ==
    /\ At(r, "idle")
    /\ kind[r] = "ask"
    /\ taken = Slots
    /\ Goto(r, "done")
    /\ UNCHANGED <<kind, config, held, attempt, taken, rowVars, poolVars, circuitVars>>

\* Asks and checks refuse an inactive connection; the pages do not look.
Refused(r) == kind[r] # "page" /\ ~active

ReadConnection(r) ==
    /\ At(r, "running")
    /\ ~Refused(r)
    /\ config' = [config EXCEPT ![r] = version]
    /\ Goto(r, "read")
    /\ UNCHANGED <<kind, held, attempt, taken, rowVars, poolVars, circuitVars>>

RefuseInactive(r) ==
    /\ At(r, "running")
    /\ Refused(r)
    /\ End(r)
    /\ UNCHANGED <<rowVars, poolVars, circuitVars>>

\* A check first looks for a cached connector, which it uses as it is.
FindExisting(r) ==
    LET k == Key(kind[r], config[r]) IN
    /\ At(r, "read")
    /\ kind[r] = "check"
    /\ GetExisting(r, k)
    /\ held' = [held EXCEPT ![r] = Existing(k)]
    /\ Goto(r, IF Existing(k) = None THEN "missing" ELSE "use")
    /\ UNCHANGED <<kind, config, attempt, taken, rowVars, circuitVars>>

\* Asks, checks, the test page and the refresh connect whatever the pool
\* returned; the other pages let the first use connect.
Acquire(r) ==
    LET k == Key(kind[r], config[r]) IN
    /\ At(r, IF kind[r] = "check" THEN "missing" ELSE "read")
    /\ GetOrCreate(r, k, config[r])
    /\ held' = [held EXCEPT ![r] = Chosen(r, k, config[r])]
    /\ \/ Goto(r, "connect")
       \/ kind[r] = "page" /\ Goto(r, "use")
    /\ UNCHANGED <<kind, config, attempt, taken, rowVars, circuitVars>>

\* get_engine connects again when another thread has disconnected.
Connect(r) ==
    /\ \/ At(r, "connect") /\ Goto(r, "probe")
       \/ At(r, "use") /\ held[r] \notin open /\ Goto(r, "reprobe")
    /\ StoreEngine(held[r])
    /\ UNCHANGED <<kind, config, held, attempt, taken, rowVars, circuitVars>>

\* SELECT 1 goes through the connector's engine of that moment.
ProbeSucceeds(r) ==
    /\ At(r, "probe") \/ At(r, "reprobe")
    /\ held[r] \in open
    /\ Goto(r, "use")
    /\ UNCHANGED <<kind, config, held, attempt, taken, rowVars, poolVars, circuitVars>>

\* The database refuses, or another thread has disconnected the connector.
\* An ask that had connected before may go on with the failed statement as a
\* failed piece of evidence.
ProbeFails(r) ==
    /\ \/ (At(r, "probe") \/ At(r, "reprobe")) /\ End(r)
       \/ /\ At(r, "reprobe")
          /\ kind[r] = "ask"
          /\ Goto(r, "think")
          /\ UNCHANGED <<kind, config, held, attempt, taken>>
    /\ DropEngine(held[r])
    /\ UNCHANGED <<rowVars, circuitVars>>

\* The statements run; a check or a page is then answered.
Execute(r) ==
    /\ At(r, "use")
    /\ held[r] \in open
    /\ IF kind[r] = "ask"
       THEN Goto(r, "think") /\ UNCHANGED <<kind, config, held, attempt, taken>>
       ELSE End(r)
    /\ UNCHANGED <<rowVars, poolVars, circuitVars>>

\* No provider call is due, or the deadline of the retries has passed.
SkipProvider(r) ==
    /\ At(r, "think")
    /\ End(r)
    /\ UNCHANGED <<rowVars, poolVars, circuitVars>>

CallProvider(r) ==
    /\ At(r, "think")
    /\ BeforeCall
    /\ attempt' = [attempt EXCEPT ![r] = @ + 1]
    /\ Goto(r, "calling")
    /\ UNCHANGED <<kind, config, held, taken, rowVars, poolVars>>

\* ProviderCircuitOpenError leaves the retry loop: the answer falls back.
CircuitRefuses(r) ==
    /\ At(r, "think")
    /\ circuit = "open"
    /\ End(r)
    /\ UNCHANGED <<rowVars, poolVars, circuitVars>>

\* Fault: one attempt too many.
CanRetryOnceMore(r) == attempt[r] <= MaxAttempts

CanRetry(r) == attempt[r] < MaxAttempts

RetryOrEnd(r) ==
    IF CanRetry(r)
    THEN Goto(r, "think") /\ UNCHANGED <<kind, config, held, attempt, taken>>
    ELSE End(r)

\* An answer cut off by the token limit is asked for again with less effort.
Answered(r) ==
    /\ At(r, "calling")
    /\ Success
    /\ RetryOrEnd(r) \/ End(r)
    /\ UNCHANGED <<rowVars, poolVars>>

\* 429, 5xx, a timeout or a lost connection.
FailsTransiently(r) ==
    /\ At(r, "calling")
    /\ TransientFailure
    /\ RetryOrEnd(r)
    /\ UNCHANGED <<rowVars, poolVars>>

FailsPermanently(r) ==
    /\ At(r, "calling")
    /\ End(r)
    /\ UNCHANGED <<rowVars, poolVars, circuitVars>>

\* A thrown-out connector is disconnected before its thread goes on.
DisconnectStale(r) ==
    /\ Disconnect(r)
    /\ UNCHANGED <<requestVars, rowVars, circuitVars>>

----------------------------------------------------------------------------
(* The administrator.  Each edit is committed and only then closes the      *)
(* pool's entry.                                                            *)

Idle == ~editing /\ stale[Admin] = None

\* PATCH with a connection string: a new secret reference.
ChangeConnection ==
    /\ Idle
    /\ version < MaxVersions      \* bound
    /\ version' = version + 1
    /\ editing' = TRUE
    /\ UNCHANGED <<active, requestVars, poolVars, circuitVars>>

\* DELETE, or PATCH of is_active.
SetActive ==
    /\ Idle
    /\ active' = ~active
    /\ editing' = TRUE
    /\ UNCHANGED <<version, requestVars, poolVars, circuitVars>>

CloseEntry ==
    /\ editing
    /\ PopEntry(Admin)
    /\ editing' = FALSE
    /\ UNCHANGED <<version, active, requestVars, circuitVars>>

DisconnectClosed ==
    /\ Disconnect(Admin)
    /\ UNCHANGED <<requestVars, rowVars, circuitVars>>

CircuitCools == CoolDown /\ UNCHANGED <<requestVars, rowVars, poolVars>>

----------------------------------------------------------------------------
Serve(r) ==
    \/ Start(r) \/ TurnAway(r)
    \/ ReadConnection(r) \/ RefuseInactive(r)
    \/ FindExisting(r) \/ Acquire(r) \/ DisconnectStale(r)
    \/ Connect(r) \/ ProbeSucceeds(r) \/ ProbeFails(r) \/ Execute(r)
    \/ SkipProvider(r) \/ CallProvider(r) \/ CircuitRefuses(r)
    \/ Answered(r) \/ FailsTransiently(r) \/ FailsPermanently(r)

Edit == ChangeConnection \/ SetActive \/ CloseEntry \/ DisconnectClosed

Next == (\E r \in Requests : Serve(r)) \/ Edit \/ CircuitCools

Spec == Init /\ [][Next]_vars

----------------------------------------------------------------------------
(* Properties. *)

InRun(r) == kind[r] = "ask" /\ pc[r] \notin {"idle", "done"}

\* A request works with a connector built from the configuration it read,
\* although other requests and the administrator replace the pool's entry
\* between its steps and the two fingerprints in use ignore different
\* things: get_or_create compares more than the key, get_existing does not
\* have to (db/connector.py).
UsesItsConfiguration ==
    \A r \in Requests : held[r] # None => built[held[r]] = config[r]

\* The slots taken are those of the runs in progress: no ending of a run, by
\* an answer, a refusal or a failure, leaks one or gives one back twice.
SlotsAccountedFor == taken = Cardinality({r \in Requests : InRun(r)})

\* The breaker counts at most the failures of the calls that were already
\* submitted when it opened, and those are no more than the slots.
FailureStreakBounded == failures <= Threshold + Slots - 1

\* A late success closes the circuit and clears its count together: an open
\* circuit always stands for a full row of failures.
OpenBecauseOfFailures == circuit # "closed" => failures >= Threshold

\* The circuit and its count agree, in whatever order the calls that were
\* submitted together come back.
CircuitIsHonest == OpenBecauseOfFailures /\ FailureStreakBounded

\* A connector is thrown out from under a request only by the
\* administrator, or by a request with another configuration or another
\* fingerprint: two requests alike never cut each other off.
EvictionsHaveACause ==
    \A r, a \in Requests :
        held[r] # None /\ stale[a] = held[r] =>
            \/ config[a] # config[r]
            \/ Key(kind[a], config[a]) # Key(kind[r], config[r])
=============================================================================
