# Verification project for LegacyDB Copilot

TLA+ models of the parts of this repository in which state, concurrency and failure meet: the
investigation ledger, the request that fills it, the agentic investigation loop, the two LangGraph
graphs, what the threads of one server process share, the metadata catalogue, the learning loop, the
verification checks, the evaluation job queue and the evaluation runner. TLC checks the models on
small instances; TLAPS proves every safety property of the passing runs for every instance. Source
paths below are relative to `src/legacydb_copilot/` unless they start with `evaluation/`.

## 1. Inventory of the system

LegacyDB Copilot is a FastAPI application (one or more processes, synchronous SQLAlchemy sessions,
PostgreSQL in production, SQLite in tests, MySQL supported) that answers questions about customers'
databases by bounded, read-only investigation, with a LangGraph workflow around a long synchronous
pipeline, and an evaluation subsystem that runs benchmark scenarios from a command line and in
background workers.

| Component | State it keeps | Operations | What makes it hard | What makes it correct |
|---|---|---|---|---|
| **Investigation ledger** `services/investigation_state_machine.py`, `routers/investigation_states.py` | table of transitions, unique sequence number per investigation; row lock; audit events | `initialize`, `transition`, `fail`, `cancel`; commit or rollback by the request | validation happens before the lock; dialects differ in locking and isolation; collisions are retried inside a savepoint | every row follows an allowed predecessor, terminal states are final, audit agrees, requests end |
| **Chat request, reasoning and outcome** `routers/chat.py`, `services/evidence_gate_service.py`, `services/verified_evidence_service.py`, `services/reasoning_*`, `services/llm_reasoning_service.py`, `services/terminal_outcome_service.py` | the request's session: investigation, provider rows, ledger | `ask_chat_question`, one run of the pipeline, provider attempts, storing and concluding | many early returns; what several services decide ends in one row, one ledger, one audit outcome; a rollback takes all of it | they say the same thing, a confirmed cause is earned, the ledger always concludes |
| **Agentic loop and planner** `services/agentic_investigation_loop.py`, `services/safe_investigation_planner.py` | budget usage, action history, steps and planner selections tables, the ledger's current state | one `run()`: assess, select, plan, validate, execute, verify, persist | six budgets checked in three places; cancellation and clock move while it runs; retries across iterations; every callback may raise | limits are cumulative, one controlled retry, no SQL after a cancel, three records agree, run ends lawfully |
| **LangGraph production walk** `workflow/langgraph/` | the graph state: candidates, counters, errors, terminal status | wrapped nodes, conditional edges, thread-local request | cycles bounded by five counters; a failed node turns later nodes into no-ops while the edges still route; re-execution of the pipeline | the walk is finite, budgets hold, a rejected candidate stays rejected, a failure is reported |
| **Isolated evidence loop** `workflow/langgraph/adapters/`, `graph.py`, `nodes.py` | the same graph state: objects, plans, queries, results, coverage | plan, validate, execute, preserve, classify, measure coverage; gate, provider, report | evidence is durable before it counts; retries, duplicates and cut batches; a handler may be passed over, fail or raise | SQL that ran in one round does not run again in a later one, reasoning only on stored evidence, the walk ends |
| **Server process** `db/connector.py`, `routers/connections.py`, `services/llm_reasoning_service.py`, `workflow/langgraph/production_*` | pool of connectors under a lock, provider circuit, semaphore of run slots, the saved connection's row | asks, verification checks, connection pages, edits and deletions, provider calls | threads replace and disconnect what others hold; late answers of a failing provider; every way out must return its slot | a request works with the configuration it read, slots and circuit agree with the calls, evictions have a cause |
| **Evaluation runner and run store** `evaluation/runners/`, `evaluation/cli/` | executions table, recovery files, the synthetic databases, one lock per domain and process | run, pilot-smoke, resume, rerun-failed; reset, inject, verify, submit, cleanup, persist | pools of threads and other processes on the same database; each step may fail, the process may die | a scenario is measured against its own defect, no result is lost, every command ends |
| **Evaluation job queue** `services/evaluation_job_service.py`, `services/evaluation_job_worker.py`, `evaluation/worker.py`, `evaluation/job_executor.py` | jobs table (status, heartbeat, cancel request), evaluation runs | create, retry, cancel; claim, preflight, progress, finish, fail; recovery at worker start | several workers and requests commit over each other; crashes; recovery reads without a lock and commits later; heartbeats against a clock | one worker per job, every job ends, a cancel is not lost |
| **Metadata catalogue** `services/metadata_catalog_service.py`, `routers/databases.py` | snapshots with consecutive versions, one of them active; a lock per connection in the process | refresh, list, read the active one | the lock is taken before the block that releases it; every statement may fail, also after the commit that activates | at most one active snapshot, the newest that succeeded; a failed refresh leaves the old one |
| **Learning** `routers/learning.py`, `services/rag_retrieval_service.py` | feedback and investigation with a status, articles, chunks of the index | submit, approve, reject; index an article | indexing alters a table inside the review's transaction and may roll it back; reviews overlap | a decision is stored whole; only approved feedback is learnt |
| **Verification checks** `services/evidence_verification_agent.py`, `routers/chat.py` | status and result of each check, the investigation's report | suggest, run one, run all, skip, regenerate the report | what a request has read is old when it commits; the report is composed from it | no result without a statement, a report that shows what was done |
| Secret store `services/secrets_service.py` | cached stores | get, store, retry | transient errors, retry-after | retries are bounded |
| Authentication `auth.py`, `routers/auth.py` | failed attempts, lock-out time | login, reset | concurrent failures | lock-out after the limit |
| SQL safety, agents, analyses, reports, LLM client, front end, CRUD routers | none or external | text and data functions, I/O | - | outside a state model |

How they interact: a request of `routers/chat.py` takes a slot of the LangGraph facade, which calls
the synchronous pipeline and walks the production graph; the pipeline draws its connector from the
process's pool and calls the provider through the process's circuit; when it is over the router
writes the terminal outcome into the ledger in the request's own transaction. The agentic loop
writes each of its states into the same ledger. A cancel request
(`routers/investigation_states.py`) writes CANCELLED into it from another session. A stored
investigation gets verification checks, and feedback whose approval puts an article into the index
that the next request's pipeline retrieves from; what that pipeline knows of the customer's schema
is the connection's active metadata snapshot. Evaluation jobs
are created by API sessions and executed by worker processes, which drive the evaluation runner;
each scenario calls the public API as a client. All sessions share one relational database; only
the threads of one process share memory.

## 2. Modules

| Module | Models |
|---|---|
| `InvestigationStates` | the states, `ALLOWED_TRANSITIONS`, `validate_transition` and the iteration rule; what a well-formed row history is |
| `InvestigationLifecycle` | the abstract specification: a history that only grows, by allowed transitions, and never after a terminal state |
| `InvestigationLedger` | sessions that initialize, validate, lock, number, insert, collide, retry, commit or roll back, statement by statement |
| `EvidenceReasoning` | decisions without state: evidence gate, permission, dispatch, deterministic reasoning, acceptance of the provider's answer, outcome and the path to it |
| `AskInvestigation` | one `/chat/ask` request that takes those decisions, calls the provider, may run again, and is stored or rolled back |
| `AgenticLoop` | one call of `run()` with the planner and the environment that cancels it and lets time pass |
| `CandidateGraph` | one walk of the production graph around the investigation pipeline: selection, re-execution, evaluation, rejection and expansion of candidates |
| `EvidenceLoop` | one walk of the isolated graph with its adapters: evidence loop, gate, provider, report |
| `ConnectorPool`, `ProviderCircuit` | the two objects the threads of a process share, as actions on their own variables |
| `ServerProcess` | composes both with the slots, the requests that use them and the administrator who edits the connection |
| `MetadataCatalog` | the snapshots of one connection, their refreshes, the lock, failures and restarts |
| `KnowledgeBase` | feedback on investigations, its reviews, the articles and chunks they commit |
| `VerificationChecks` | which checks an investigation gets, and the requests that run, skip and report them |
| `EvaluationRunner` | the command line's processes, their threads, the synthetic databases, the run store and its recovery files |
| `EvaluationJobs` | the job table, API requests and worker processes that crash and restart |
| `InvestigationLedgerProofs`, `AgenticLoopProofs`, `AskInvestigationProofs`, `ServerProcessProofs`, `EvaluationRunnerProofs`, `EvaluationJobsProofs` | inductive invariants and theorems, one component each |
| `InvestigationGraphsProofs`, `SharedRecordsProofs` | the same for the two graphs, and for the catalogue, the learning loop and the verification checks |
| `MC*` | the instances: model values, the targets and histories tried, symmetry. Three of them hold several components, one of which is chosen at the start: `MCInvestigations` the agentic loop, a chat request or either of the two graphs, `MCServer` the process, one of the three components whose state its requests share in the database or the job table, `MCEvaluation` the job queue or the runner |

`InvestigationLedger`, `AgenticLoop` and (through `EvidenceReasoning`) `AskInvestigation` extend
`InvestigationStates`, so one table of allowed transitions serves all three.

### The ledger

A request is `new`, `open` (inside its transaction, between two service calls), `ready`
(`transition()` has validated and calls `_persist`), `numbered` (it holds a sequence number) and
`closed`. `rows` is the table; `durable` says how much of it is committed; the rest belongs to
`owner`. `Seen(r)` is what a SELECT of session r returns, and is the only place where isolation
enters. `BeginRequest`, `Initialize`, `Transition`, `RejectTransition`, `AllocateSequence`,
`InsertRow`, `RetryAfterCollision`, `GiveUpAfterCollision`, `CommitRequest` and `AbortRequest` are
the statements of the service and of the handler around it. `dialect`, chosen once among the
`Dialects` that are tried, is the database; two operators say what it does:

| | `RowLock` | `Snapshot` |
|---|---|---|
| PostgreSQL | TRUE (`SELECT ... FOR UPDATE`) | FALSE (read committed) |
| MySQL | TRUE | TRUE (repeatable read) |
| SQLite | FALSE | FALSE |

`RowLock` follows the dialect test in `_lock_investigation`. The isolation levels are the
databases' defaults, which `db/session.py` leaves alone. SQLite's savepoint emulation by the
driver, and its deferred begin, are simplified to "one writer at a time, each statement sees what is
committed".

### The chat request

`at` leads from `start` through `running` (the pipeline), `asking` and `waiting` (a provider
attempt), `composing` and `payload` (what the graph returns) to `concluding` and `answered`, or to
`refused` and `failed`. `Facts` is everything the stages before the gate can have collected, a free
choice; from there on every decision is an operator of `EvidenceReasoning`, named after the function
it translates. The early returns of the pipeline (`AnswerFindings` to `EntityBlocked`) are actions of
their own because the payloads they leave differ in what the outcome later depends on. `SubmitCall`,
`ProviderFailed`, `TryAgain` and `GiveUpCall` are one attempt and its retries; a row is written where
`llm_invocation_audit_service` writes one. `Rerun` is the graph calling the pipeline again: it drops
what the first run left; the provider rows that run has written stay in the session under an id that
is never stored, and are no longer counted. `StoreInvestigation` writes the row and computes `path`, the
transitions
`persist_canonical_terminal_outcome` makes one by one (`Conclude`). `Fail` is an exception at any
point, and rolls back everything, the provider rows included.

### The agentic loop

`pc` names the point of `run()` between two calls of the caller's code or of the ledger; `Go` is a
sequence of `state.transition()` calls of which the first refused one raises. Budgets are the
fields of `AgenticBudgetUsage`; the token budget obeys the same rule as the LLM-call budget, so one
counter stands for both. The planner's ranking score is abstracted to a free choice among the
eligible candidates; its suppression, retry and policy rules are kept. The assessor, SQL pipeline
and verifier may raise at every call and return anything of their type. `RequestCancel` and
`DeadlinePasses` are the environment. A batch that is only found too large after its approval
makes the loop ask for a transition VALIDATION does not have; `run()` raises there, as in the code.

### The server process

A request is an `ask`, a `check` (a stored verification check) or a `page` (one of the connections
router's endpoints). An ask takes a slot without waiting, reads the row, draws a connector, probes
it, uses it, calls the provider through the circuit and gives the slot back on every way out.
`ConnectorPool` names a connector by the request that built it; `Key` is the fingerprint the caller
computes, and there are two functions that do: the one of asks and checks changes with every new
connection string, the one of the pages leaves the credentials out. `get_or_create` replaces under the
lock and disconnects after
releasing it: that gap is the variable `stale`. `ProviderCircuit` has the breaker's three states and
its failure count; `CoolDown` lets its time pass at any moment. The administrator commits, then
closes the pool's entry, then disconnects (`ChangeConnection` or `SetActive`, `CloseEntry`,
`DisconnectClosed`). What an ask makes of the evidence is `AskInvestigation`'s business.

### The metadata catalogue

A refresh is `new`, `locked`, `reading` (it knows the active version), `discovering` (its candidate is
committed), `activated`, `failing` (in the handler of the try block) and `over`. `TryLock` is
`lock.acquire(blocking=False)`; `FailBeforeTry` covers the statements between it and the try block,
whose `finally` would release it. `Activate` is the one transaction that makes the candidate active
and its predecessor inactive; `ReadBackFails` is the `db.refresh` behind it. What is discovered
in the customer's schema is left out: it succeeds or fails. The lock belongs to the process, and the
deployment runs one replica (`.github/workflows/azure-container-app.yml:376`), as the model does;
`RestartCatalog` gives the process new locks.

### The learning loop

A submission looks for pending feedback and inserts in a later statement (`CheckPending`,
`SubmitFeedback`). A review is `new`, `read` (feedback and investigation are loaded), `flushed` (the
statuses and the article are in the transaction), `cleared` (chunks of articles with the same title are
deleted), `indexing` and `over`. `tx` is what the transaction holds: `EnsureSchemaFails` empties it,
because `_ensure_pgvector_schema` rolls back its caller's session, and `CommitReview` commits what is
left with the chunks inserted since. Row locks and the exclusive lock of ALTER TABLE are PostgreSQL's
(external) and appear as guards. Two reviews that wait for each other are the first disjunct of
`EnsureSchemaFails`.

### The verification checks

`facts` is what the investigation has collected, and fixes the checks it gets (`Suggested`), which of
them have a statement (`ReadOnly`) and what the statement is expected to return (`Expected`). A request
loads all checks when it begins (`seen`), executes or skips those in `todo`, composes the report from
what it has seen and written (`view`), and commits both. `Locked` are the checks whose rows a
request has flushed, on which another one waits. `listed` is what the committed report shows as
results: everything that is neither pending nor skipped (`ResultsIn`), a check without a statement
included.

### The evaluation runner

A process is `down`, executing a command, `ended` or `killed`; its threads take scenarios from
`todo` and walk through `run_scenario`: domain lock (a lock of the process), reset, inject, verify,
submit, cleanup, persist. A synthetic database is the set of scenarios whose defect is in it. Every
script, request and statement may fail, with the status and the way to `cleanup` the code gives it;
`Interrupt` is Ctrl-C, `Kill` a killed process. A row is unique per run, scenario and attempt; a
result that cannot be stored goes to a recovery file, in place of one of the same name.
`AttemptUnknown` is a failing `next_attempt`. Two history fields, `alone` and `pure`, say whether
another process worked on the domain meanwhile and whether the investigation saw the scenario's own
defect only. `Submit` and the answer are apart (`Investigate`), so that what the database holds can
change in between.

### The job queue

A session loads a job (`Load`), decides, and commits only the columns it changed (`Store`), as
SQLAlchemy's unit of work does; what others committed in between survives in the other columns.
A worker is `down`, `idle` or somewhere in `run_once`; a claim is one statement under
`FOR UPDATE SKIP LOCKED`. Time is abstracted to whether a heartbeat is older than
`stale_after_seconds` (`BeatGoesStale`): an orphaned claim becomes so in any case, that of a live
worker only in the middle of a scenario, and only with `SlowScenarios`. `Crash` drops the process
and leaves the row. Recovery, which the code runs once before the first poll, is two steps:
`StartWorker` reads the stale rows without a lock (`found`), and `CommitRecovery` writes what it
computed from them over whatever the rows hold by then (`Recovered`). `requeued` is a history
variable that counts what it put back. Three constants say when workers start and how long
scenarios take: `PromptRestart` (a dead worker is back before its claim is stale),
`OverlappingRecovery` (two workers may be between those two steps at the same time) and
`SlowScenarios` (a scenario takes longer than `stale_after_seconds`). The passing runs set all
three to FALSE; what becomes false with TRUE is in section 5. `worker_id` is written and never read,
and is left out.

### The candidate graph

`node` is the node LangGraph runs next; an action is one node together with the edge it takes
(`CandidateRoute`, `RejectionRoute`, `Edge`). Candidates carry a status and an attempt count,
`findings` accumulate over the walk, and `response` is the facade's `request.result`, which every
execution of the pipeline replaces and `response()` returns. The pipeline itself is a black box: it
may name any objects, any of them as the primary one, and any verdict of the evidence gate; it
leaves rejected tables out of its ranking, as `routers/chat.py` does. The ranking order is left
open (`Selectable`). Nodes whose handler only counts a step are one action (`Stage`), those behind the
verdict another (`WalkConcludes`). `runs` counts executions of the pipeline and saturates at
`MaxRuns`. The slot the walk holds is `ServerProcess`'s business.

### The evidence loop

`place` is the node that runs next, and each action is one handler inside `wrap_node`: it handles
(`Handles`), is passed over because the state is terminal or cancelled (`PassOver`), reports a
failure (`Fails`) or raises (`Raises`). A query is a record with an object (`ObjectOf`) and a text
(`TextOf`, which stands for the hash of its SQL); several records may have the same text, in one plan or
in plans of different rounds. The adapters compare texts only with what earlier rounds have executed
or refused, so a text that one plan lists twice is validated and executed twice. A plan's
fingerprint is the steps it covers. `results` tells how each query ended; a result is `kept` when
the loop has preserved it, and `persisted` is what the application's persistence callback has really
written, which may be
more after a failure. Callbacks are external: they answer, refuse, raise, and may set
`cancel_requested`. `invocation` is the provider's audit record: none, open, failed or completed.

## 3. Runs

| Run | Instance | Shows |
|---|---|---|
| `ledger` | 3 requests, 3 starting ledgers, up to 2 rows each, on PostgreSQL, SQLite or MySQL | rows keep an allowed predecessor; where rows are locked audit and row agree; fresh writers continue the ledger; requests end; with snapshot reads the ledger implements `InvestigationLifecycle` |
| `ledger_postgres_terminal` | as `ledger`, PostgreSQL | **violation**: two cancellations both commit |
| `investigation` | one of four: the agentic loop with 2 actions, 3 iterations, batches of up to 2 queries, all limits small; a chat request with every combination of facts and configuration, 2 provider attempts; the production graph with 3 objects, 2 of them namesakes, 1 a view, 2 backtracks, 1 expansion, 40 steps; the evidence loop with 2 objects, 3 queries of 2 texts, 3 rounds | limits, stop reasons, retries, three records, cancellation; row, ledger, audit outcome, report and the evaluation reader agree, a confirmed cause is earned, the ledger always concludes; budgets of the search, verdict and returned answer agree, a reproduced answer ends the search; SQL of one round does not run in a later one, state and store agree, reasoning is grounded; a call of the loop and both walks end |
| `agentic_oversized_batch` | the agentic loop alone | **violation**: an approved batch over the query budget raises, the investigation stays open |
| `ask_definitions` | the chat request | **violation**: procedure definitions alone let the provider be called |
| `process` | one of five: 3 requests (three asks, or a check and two pages), 2 slots, 2 versions of the connection, threshold 2, 2 attempts; 3 refreshes and 2 failures; 2 feedbacks on one investigation, 3 reviews, 2 titles, 1 failure; 3 requests on the checks of one of 2 situations; 3 workers, 1 client, 2 jobs of one workspace with limit 1, 1 crash, late restart | a request's connector was built from the configuration it read; slots, circuit and evictions are accounted for; the newest good snapshot is active; approvals are whole; checks and report agree; claims are exclusive and served, every further run of a job is one of recovery's |
| `catalogue_read_back` | 2 refreshes, 1 failure | **violation**: a refresh fails and no snapshot is active |
| `checks_unsupported` | the checks of one investigation | **violation**: the report lists a check nobody could execute among the results of executed ones |
| `knowledge_rejected` | 1 feedback, 2 reviews | **violation**: chunks of rejected feedback stay in the index |
| `evaluation` | one of two: a runner's process with two threads and one with one, 2 scenarios on one database; or 2 workers, 1 client, 1 job of one scenario, 1 crash, late restart | executions nobody disturbed measure their own defect, results survive, commands end; a queued job ends, a pending cancellation wins |
| `jobs_prompt_restart` | 1 crash, early restart | **violation**: the orphan is never looked at again |
| `jobs_overlapping_recovery` | 1 crash, 2 workers start together | **violation**: both load the orphan, and both run it |

The violations are described, with the lines they contradict, under "findings" in `PROJECT.json`.
Several properties are conjunctions of named parts which hold or fail together in one piece of
code: `EndsWithinLimits`, `SearchIsPaid`, `CircuitIsHonest`, `LedgerConcludes`, `CausesAreEarned`,
`EvidenceIsSound`, `CatalogIsSound`, `ApprovalIsWhole` and `ChecksAreAccountedFor`. Where an instance
holds several components, one is chosen in its initial states and the others stand still, so that
their states add up and do not multiply.

**Bounds.** Ledger: three requests are the least with which one can hold the lock, one wait and one
overtake, and with which an INSERT can collide three times in a row (the service's limit of attempts);
the targets contain a terminal state reachable from everywhere, one reachable only from one state, the
state that starts another iteration and an ordinary one; the starting ledgers are empty, fresh and at
the end of an iteration. `MaxCalls` bounds rows per request. Ask: nothing is cut but the attempts, of
which the second is the first retry. Loop: three iterations are enough for an action to be tried,
retried and suppressed, two actions for one to be suppressed while the other runs, and every budget has
a value that can be hit exactly and overshot. Candidate graph: two namesakes and a third object let a
finding hit the wrong candidate and leave one to go back to; every budget is small enough to be
exhausted, alone and together, and 40 steps allow six runs of the pipeline. `MaxRuns` is seven, at which
`SearchIsPaid` would already have failed. Evidence loop: two objects give a plan that covers one and
leaves the other; the three queries are one text for either object and another for the second, so that a
text comes back under another record, in a later round and twice in one plan, and a failed query has a
variant; three rounds and queries a second partial round, a cut batch and each limit reached first, but
for the number of objects, which is fixed before the first round and would end every walk after it.
Process: three asks over two slots have one turned away, or admitted when another is done; a check finds
its connector under the key an ask would use, and stands for one beside two pages, which use another
key; the second version changes the credentials alone, which only one of the two fingerprints notices;
two failures open the circuit and a third call may be under way. Requests are interchangeable (symmetry;
no liveness is checked there). Catalogue: three refreshes give one that holds the lock, one that is
turned away and one after a failure; two failures hit the handler of the first. Learning: two feedbacks
race for one investigation's status, three reviews let two of one feedback overlap beside one of the
other, a shared title lets an approval delete another article's chunks. Checks: no situation gives more
than three, and together they have a result of every kind and a statement that is missing. Runner: two
threads of one process contend for its lock, the other process does not see it; the second process is
set to an engine one scenario is not for. p1 runs and resumes, p2 smokes and reruns: every command, and
every pair of commands that two processes can be at, but for a command beside itself. Jobs, safety
(`process`): three interchangeable workers and two jobs give every race for a claim, a recovery that
finds a job while a healthy worker has another or wants this one, and a retry against a full workspace;
one crash (`MaxCrashes`) leaves two workers alive. Jobs, liveness (`evaluation`): one job and two
workers, since liveness over two jobs takes a multiple of the time; what two jobs add, that one waits
for the other's worker, ends by the same steps. One scenario per job has every step a second one would
have.

**Fairness.** Ledger: a handler that has begun goes on (`WF(Progress(r))`); its arrival is not owed, nor
is an abort. The lock is only held by a session inside its handler. Loop and graphs: the calls the loop
makes return, because each client has a timeout, and `invoke()` walks until it returns or raises;
LangGraph's own recursion limit is not relied on. Only one of them is there in a behaviour, so that they
share one condition (`WF(LoopStep \/ GraphsWalk)`); cancellation and deadline are not owed. Jobs: each
worker process runs and polls, and a container platform starts it when it is down (`WF(WorkerStep(w) \/
StartWorker(w))`); time passes (`WF(\E j : BeatGoesStale(j))`). Requests are never owed. Runner: threads
run and what they call returns (`WF(Work(t))`), and a main thread whose pool is done goes on
(`WF(Finish(p))`); requests have timeouts, but `sqlcmd` is waited for without one, so that its return is
an assumption. The chat request and what `process` checks are safety only: there is nothing a request
waits for but calls with timeouts, and locks held for a few statements; the catalogue's lock, which may
stay, is never waited for. No strong fairness is assumed anywhere.

## 4. Proofs

All theorems hold for every value of the constants under the module's own named assumptions
(`LedgerAssumption`, `EvidenceAssumption` and so on), which TLC evaluates in the runs.

| Theorem | States | Further assumption |
|---|---|---|
| `InvestigationLedgerProofs` | | |
| `TypeCorrect` | `Spec => []TypeOK` | |
| `PredecessorCorrect` | `Spec => []EveryRowHasPredecessor` | |
| `FreshWritersCorrect` | `Spec => FreshWritersContinue` | |
| `LockedAudit` | `Spec => []LockedAuditMatchesRow` | |
| `SnapshotTerminal` | `Spec => TerminalIsFinal` | `Snapshot` |
| `SnapshotRefinement` | `Spec => SnapshotRefinesLifecycle` | |
| `RequestsUseUpTheirBound` | every step of a request lowers (`Chances`, `Turns`), raises nobody else's, and the lock's holder waits for nobody | |
| `AgenticLoopProofs` | | |
| `LoopTypeCorrect`, `LoopRetriesAreControlled`, `LoopRecordsAgree`, `LoopNoSqlAfterCancel` | `TypeOK`, `OneControlledRetry`, `RecordsAgree`, `NoSqlAfterCancel` | `FreshOrEnded` |
| `LoopEndsWithinLimits` | `EndsWithinLimits`; and `OnlyBatchesRefused`: the oversized batch of section 5 is the only transition that is refused to a run on an open ledger | `FreshOrEnded` |
| `LoopUsesUpItsBound` | each step of `run()` lowers the natural number `Left`, nothing else changes it | `FreshOrEnded` |
| `AskInvestigationProofs` | | |
| `LedgerAlwaysConcludes`, `CausesAlwaysEarned`, `AuditAlwaysAgrees`, `ReaderAlwaysAgrees` | `LedgerConcludes`, `CausesAreEarned`, `AuditAgreesWithCalls`, `ReaderAgreesWithLedger` | |
| `AnswerRefinesLifecycle` | `AskSpec => Lifecycle!Spec`: a request implements `InvestigationLifecycle` | |
| `InvestigationGraphsProofs` | | |
| `WalkTypeCorrect`, `SearchAlwaysPaid`, `VerdictAlwaysMatches`, `ReproductionIsFinal` | `WalkTypeOK`, `SearchIsPaid`, `VerdictMatchesAnswer`, `ReproductionEndsTheSearch` | |
| `EvidenceAlwaysSound`, `NoQueryEverRunsAgain` | `EvidenceIsSound`, `NoQueryRunsAgain` | |
| `SearchUsesUpItsBound` | each node of the production walk lowers the natural number `SearchLeft` | |
| `WalkUsesUpItsBound` | each node of the evidence loop lowers `WalkLeft`, or `LoopOver` holds | |
| `ServerProcessProofs` | | |
| `ProcessTypeCorrect`, `SlotsAlwaysAccountedFor`, `AlwaysUsesItsConfiguration`, `EvictionsAlwaysHaveACause`, `CircuitAlwaysHonest` | the process's five invariants | |
| `EvaluationRunnerProofs` | | |
| `RunnerTypeCorrect`, `RunnerMeasures`, `RunnerResultsSurvive` | `RunnerTypeOK`, `MeasuredAgainstItsDefect`, `ResultsSurvive` | |
| `RunsUseUpTheirScenarios` | a thread's step lowers its `Stage` or takes a scenario off the list, to which nothing is added; who waits for a domain waits for a working thread of its process | |
| `EvaluationJobsProofs` | | |
| `JobsTypeCorrect` | `JobsSpec => []JobsTypeOK` | |
| `JobRunsAreAccountedFor` | `RunsAreAccountedFor`: runs against recoveries without a condition, recoveries against crashes under the one the property names | workers finite |
| `JobsHaveOneWorker`, `JobClaimsAreServed` | `OneWorkerPerJob`, `ClaimsAreServed` | `~SlowScenarios`, `~OverlappingRecovery` |
| `PendingCancelIsKept` | a queued job with a pending cancellation never gets another run and stays in `Stopping` | the same |
| `WorkersUseUpTheirScenarios` | what a worker has left of its job (`ToDo`) only goes down, and when it lets go the job has ended, unless it died | the same |
| `QuotaOvershootIsBounded` | as long as no worker has died, active jobs stay below the limit plus the number of clients plus the number of workers, globally and per workspace | the same, clients and workers finite |
| `SharedRecordsProofs` | | |
| `CatalogAlwaysSound` | `CatalogSpec => []CatalogIsSound` | |
| `ApprovalAlwaysWhole` | `KnowledgeSpec => []ApprovalIsWhole` | |
| `ChecksAlwaysAccountedFor` | `ChecksSpec => []ChecksAreAccountedFor` | |

The ledger's properties about one kind of database (`LockedAuditMatchesRow`,
`SnapshotRefinesLifecycle`) carry the condition in themselves, so that one theorem speaks of all
`Dialects`. The proofs of the graphs and of the shared records have several components side by side in
one module; they share no variable and no action.

The arguments:

* **Ledger.** `EveryRowHasPredecessor` is not inductive: a row was validated some steps before it is
  inserted. The invariant `IInv` carries what a session knows between the two: `SeenBound` (a
  transaction began at a committed prefix), `SuffixOwned` (uncommitted rows belong to the lock's
  holder, whose snapshot was the newest), `PreparedFromSeen` (the prepared row continues a row the
  session sees), `PreparedFromLatest` (and the last one, if nothing was committed meanwhile) and
  `NumberFromSnapshot` (under snapshot reads the number is one more than what was seen, so that a
  stale writer must collide). `LockedAudit` adds `AuditInv`: with row locks nobody inserts between a
  session's numbering and its insertion, so the row it recorded is the row it writes. There is one lemma
  per kind of step; `QuietStep` covers those that leave the table and the lock alone.
* **Chat request.** `AskInv` says at every point of the run what decision, reasoning, trace and payload
  have in common: `Decided` and `Reasoned` hold from the dispatch on whatever the free choice of `Facts`
  was, `Asking` is what a provider attempt in flight relies on, `Traced` what the trace tells of a run
  that is over. A payload is `FullPayload` or `EarlyPayload`, which differ in what the resolution of
  the outcome may read. `Stored` makes row, audit outcome and signals agree, and `OnTheWay` says that what
  the ledger has and what `path` still holds together are the one `Way` to the resolved outcome.
  The invariants follow from these by the operators of `EvidenceReasoning`. For the refinement the
  abstract history is empty until the commit and then the whole ledger: a `Way` is lawful from its
  first row to a terminal one, and an answered request takes no further step.
* **Agentic loop.** `WhereInv` ties the ledger's state to the place in the code, `BudgetInv` the
  usages to the place, `RecordInv` and `HistoryInv` the three records to each other - the history
  may be one outcome ahead of the steps (`Pending`), and a retry is charged before its step exists
  (`Due`) - and `CancelInv` what has run since a cancel. `FreshOrEnded` says that `run()` finds a
  ledger that is fresh or terminal, and not one another call is in the middle of.
* **Evidence loop.** `ExecutionsAreCounted` and `EvidenceIsStored` are close to inductive, and
  `NoQueryRunsAgain` is a matter of one step under them; that the provider is asked on complete evidence
  is not. `Discovered` limits plans and queries to discovered objects,
  `CoverageHolds` says that complete coverage covers every required object and is never revised,
  since nothing is gathered behind it, and `Asked` carries it from the gate to the answer: what is
  allowed, called or reported rests on coverage that was complete when it was measured and still is.
* **Candidate graph.** `Steps` counts nodes: between two executions of the pipeline the walk passes
  at least seven, which bounds the runs by the step budget. `Classified`, `Concluded`, `Rejected`
  and `NotReproduced` relate the verdict, the response and the candidates' statuses at each node.
* **Server process.** `ConfigInv`: what is pooled under a key was built from a configuration with that
  key, and what a request holds from the one it read. `EvictInv` follows a connector from the
  moment it is replaced to its disconnection. `CircuitInv` counts the calls that are still under way
  against the failures, which bounds them by the slots.
* **Runner.** `StageInv` (in `TypeInv`) ties lock, database and stage; `AttemptInv` says that
  attempts of a scenario in a run are a segment 1..k of the rows; `AloneInv` that the database of an
  undisturbed execution holds what its stage has put there. Steps that leave rows and locks alone
  (`Calm`) are separated from those that do not (`Moves`).
* **Jobs.** `Existing` and `Created` say which jobs and runs there are, `HandledInv` what a worker in
  the middle of a job may rely on while others commit over it. `RecoveryInv` is what makes the two
  steps of recovery safe where they are: one worker at a time recovers, and what it has loaded stays
  stale until it commits; so it takes no overlapping starts, and no slow scenario, for a live
  worker's heartbeat to be fresh. `RequeueInv` charges each recovery to a crash: a job that has lost its
  worker was put back less often than workers died. `Allowance`, for which neither condition is
  needed, charges each run to a claim and each claim but the first to a recovery. `Pending` follows
  a cancellation from the queue: whoever has the job has not looked at it yet or has seen the flag.
  For the quota, `Underway` counts with the active jobs those a worker has in hand, since the worker
  may set a cancelled one to running again; only an insertion adds to it, and it is paid for by a
  request that was counted in `Creating` since its check. A recovery could add to it as well, a
  cancelled job for each row it has loaded, hence the condition that no worker has died.
* **Metadata catalogue.** `HoldsLock` makes a refresh the only one; `CandidateInv` makes its candidate
  the last row, hence the newest when it becomes READY; `PreviousInv` says that what it read as the
  active version still is; `RowInv` that a candidate in the handler is either still one or active.
* **Learning.** `SubmittedInv` and `DecidedInv` say that the status a review has read moves in one
  direction only, so that a check made on it stays good although others commit in between.
  `TogetherInv` keeps verdict and article in the same transaction: when the indexing helper rolls its
  caller back it takes both, and the chunks that are committed alone bring neither.
* **Verification checks.** `SeenInv`: a check that was no longer pending when a request looked never
  is again, so that what the request lists as a result does not become pending. `WritesInv` and
  `ExecutesInv` follow a
  check without a statement through the requests; `AloneInv` says that a request nobody overlaps has
  seen everything.

* **Measures.** `Left` counts the iterations `run()` may still begin, and the calls left of the one it is
  in. `SearchLeft` counts graph steps, which the router asks once in a round of at most nine
  (`StepsBounded`). `WalkLeft` counts rounds, and only nodes once the walk is `Spent`. For a request of
  the ledger `Chances` counts the rows it may still append and `Turns` what is left of the call it is
  in; `HolderGoesOn` says that the lock's holder is in the middle of its handler. A thread of the
  runner is at a `Stage` of one scenario, and the commands' lists only shrink (`NothingAdded`); a
  wait for a domain's lock is not circular (`WaitsForWork`). `ToDo` counts what is left of `run_once`
  (`Counted`: no more scenarios end than a job has). No step raises these, so that of
  `InvestigationsEnd`, `RequestsEnd` and `RunEnds` only this is left to fairness: that the next step is taken;
  and of `JobsEnd` and `PendingCancelWins` also that somebody claims the job, and that workers that
  died are started again.

Only model-checked are

* the five liveness properties `RequestsEnd`, `InvestigationsEnd`, `RunEnds`, `JobsEnd` and
  `PendingCancelWins`, since the prover cannot do fairness and ENABLED. The measures and
  `PendingCancelIsKept` prove what each of them does not owe to fairness;
* the properties of the violation runs, which do not hold.

Every other property a run checks is the statement of a theorem above.

## 5. Where code and documents disagree

The findings of the violation runs, which `PROJECT.json` lists with the lines they contradict, come
first in their paragraph, with the run's name; the rest was met in translation and has no run. The
models follow the code everywhere.

* **Ledger.** `transition()` validates before it locks: on PostgreSQL two cancellations both commit, the
  second behind the first's terminal row (`ledger_postgres_terminal`).
* **Evidence loop.** A node failure (say, of persistence) in a round that leaves coverage PARTIAL makes
  every later node a no-op while `coverage_route` (`workflow/langgraph/adapters/coverage.py:77`)
  returns `create_plan` again: the walk circles until LangGraph's recursion limit raises, and the
  FAILED state is never returned; docs/langgraph/evidence-driven-loop-design.md:24 promises a
  "finite loop". `LoopOver` counts that case as over. A plan or batch that lists one SQL text twice has it
  executed twice: `adapters/planning.py:93-109`, `sql_validation.py:18-49` and `sql_execution.py:24-33`
  compare it with earlier rounds only. The gap of a failed query is never
  lifted, so that a successful retry cannot reach COMPLETE, and failed results are classified again in
  each round. A cancellation during the provider call leaves a failed audit row but no invocation id in the
  state (`adapters/reasoning.py:110-112`).
* **Production graph.** An exhausted expansion budget does not stop the search (`candidates.py:276`,
  `graph.py:417`). The facade's docstring says the pipeline runs "exactly once"; the graph runs it
  again for a candidate it selects after a rejection.
* **Agentic loop.** An oversized batch asks, in VALIDATION, for a transition the table refuses: `run()`
  raises and the investigation stays open (`services/agentic_investigation_loop.py:444`), where
  docs/multi-step-agentic-investigation-loop.md:40 says query exhaustion "terminates safely as
  `QUERY_BUDGET_EXHAUSTED`" (`agentic_oversized_batch`). `StopsForAReason` does not speak of this end, and
  the theorem says there is no other such.
* **Chat request.** With nothing but the text of a procedure the provider is called
  (`ask_definitions`). A verified deterministic cause with AI enabled ends as POLICY_BLOCKED, which
  tests/test_canonical_terminal_outcome.py:44-50 does not expect. Provider rows are rolled back with a
  failing request, against docs/llm-invocation-audit.md:5. Rows of an abandoned run name an
  investigation that is never stored. An open circuit is recorded as PROVIDER_FAILED with no
  attempt made. ROOT_CAUSE_CONFIRMED may go with a response of type
  evidence_summary_not_reproduced. An early end is stored as "AI_ANSWERED" while the ledger says
  INSUFFICIENT_EVIDENCE. DENY without reproduction is ISSUE_NOT_REPRODUCED in the ledger and
  INSUFFICIENT_EVIDENCE to the evaluation reader (the exception in `ReaderAgreesWithLedger`).
* **Server process.** Pages and asks compute different keys and evict each other's connector. A slow
  request puts an old connector back after an edit, and a page re-pools the one of a
  deactivated connection. `get_engine` reconnects a connector the pool no longer has (`db/connector.py:155`).
* **Evaluation jobs.** Recovery runs once per worker start and passes over claims that are not stale yet:
  after a prompt restart the orphan stays claimed (`jobs_prompt_restart`). It loads rows without a
  lock, at `services/evaluation_job_worker.py:29-39`, and updates them unconditionally at a later
  commit: of two workers that start after one crash the second puts the job back that the first has
  recovered, claimed and begun, and both execute it (`jobs_overlapping_recovery`). Two more have no run.
  The heartbeat is renewed only between scenarios, one of which may take 1800 s
  (`routers/evaluation_jobs.py:25`) while the cutoff defaults to 900 s: a worker that starts meanwhile
  takes a live one for dead and the job runs twice (with `SlowScenarios = TRUE` `OneWorkerPerJob` fails;
  `RunsAreAccountedFor` is proved for that case as well). And `cancel()` decides on the row it has loaded:
  a job that has completed or failed meanwhile becomes a cancelled one
  (`services/evaluation_job_service.py:112`), against the message at line 109, "Only active evaluation
  jobs can be cancelled.".
* **Evaluation runner.** The domain lock is one process's own (`evaluation/README.md:56` speaks of domains,
  not processes), hence the condition `alone`. A failing reset or inject is recorded as
  api_submission_failed. A scenario refused for its engine still runs its cleanup script. The
  recovery file of a retried attempt overwrites the earlier one (`evaluation/runners/runner.py:418`).
  A pilot gate file is never removed by a later failing smoke (`evaluation/cli/__main__.py:328-364`).
  `next(...)` at `evaluation/job_executor.py:60` raises StopIteration after a persistence failure and
  fails the job.
* **Metadata catalogue.** Every failed refresh preserves the previous snapshot, as
  `routers/databases.py:359` tells the caller, but for one: if the activated snapshot cannot be read
  back, the handler (`services/metadata_catalog_service.py:532`) marks it FAILED and nothing is active
  (`catalogue_read_back`). An error
  between taking the lock and the try block (425-461) keeps the lock until the process restarts.
  With a second replica two refreshes could both activate, and `active_snapshot` (417) would raise
  for ever.
* **Learning.** Feedback that was approved and then rejected leaves its chunks in the index
  (`knowledge_rejected`). `_ensure_pgvector_schema` rolls back its caller's transaction when it fails - for
  instance when two approvals deadlock on ALTER TABLE - and the chunks are committed without the
  article and the decision. A review does not ask whether the feedback is still pending.
* **Verification checks.** The report lists "Unsupported" checks, which nobody can execute, among the
  results (`routers/chat.py:1944-1946`), under a text that says they "were produced only after a user
  approved execution" (line 1977; `checks_unsupported`). Requests that overlap may leave a report that
  shows neither's last
  state (`ReportIsCurrent` speaks of requests that do not).

## 6. Not modelled

* On SQLite `AuditMatchesRow` fails by the design of the code, without a document that says
  otherwise: `_persist` records the event from its arguments, not from what the retry recomputed.
  The run and the theorem are therefore about databases with row locks.
* The process-local thread of `services/evaluation_worker_runtime.py`; its stop event is never
  cleared, so `start()` after `stop()` would run a worker that ends at once; the application never
  does that.
* In the production walk: `cancel_requested`, which production never sets; `OperationalNodeError`,
  which no handler of the production composition raises inside a node that is modelled; the cut of
  the candidate list at 28; routing and fallback of `activation.py`.
* In the chat request: what the stages before the gate collect (a free choice), the wording of
  reports, embedding calls, the claims' text.
* In the server process: `close_all`, which nothing calls, and time itself in the circuit.
* Permissions, redaction, logging, JSON payloads, report endpoints, the ranking score.
* The components with status `not_modelled` in `PROJECT.json`, each with its reason. Most of the
  code's volume is there: text analysis of SQL, ranking of documents and tables, composition of reports,
  and the user interface - functions from data to data, which a state model could only copy.

## 7. Plan

1. A measure for a request of the server process: between use and reconnection it can go round as
   often as other requests and the administrator disconnect its connector.
2. The agentic loop's ledger as a history of `InvestigationLifecycle`, one transition at a time.
3. The report endpoints and the attachments of an investigation, if they ever get state of their own
   beside the row.
4. The worker process and the evaluation runner composed: a job's cancellation seen between two
   scenarios of a real `run_many`.
5. The hazards no run shows going wrong: the job quota that is counted before the row is inserted
   (`services/evaluation_job_service.py:53`), of which only the theorem `QuotaOvershootIsBounded` speaks,
   the cancellation of a job that has ended meanwhile (line 111), the scenario that outlasts the stale
   cutoff (`services/evaluation_job_worker.py:32`), and the deletions whose commit depends on the caller
   (`routers/admin.py:245`).
