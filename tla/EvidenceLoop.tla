----------------------------- MODULE EvidenceLoop -----------------------------
(***************************************************************************)
(* One walk of the isolated graph with the adapters of                     *)
(* workflow/langgraph/adapters: resolve the entity, discover its objects,  *)
(* plan, validate, execute and preserve queries until the required object  *)
(* is covered or a limit is reached, then the evidence gate, the provider, *)
(* the validation of its claims and the report (graph.py,                  *)
(* build_reasoning_reporting_graph without the candidate nodes; the graph  *)
(* build_evidence_driven_graph makes is the same loop, with the report     *)
(* directly behind the assessment).  Each node runs inside wrap_node.      *)
(*                                                                         *)
(* Injected callbacks (metadata, query generator, executor, persistence,   *)
(* gate, provider, audit) are external: they answer, refuse or raise.      *)
(***************************************************************************)
EXTENDS Naturals, FiniteSets

CONSTANTS
  Objects,          \* qualified names of database objects
  Queries,          \* the query records a plan may list
  ObjectOf, TextOf, \* the object a record is about, and the hash of its SQL
  MaxRounds, MaxQueries, MaxObjects, NoProgressLimit    \* limits of the state

ASSUME EvidenceAssumption ==
  /\ IsFiniteSet(Objects) /\ IsFiniteSet(Queries)
  /\ ObjectOf \in [Queries -> Objects] /\ DOMAIN TextOf = Queries
  /\ {MaxRounds, MaxQueries, MaxObjects, NoProgressLimit} \subseteq Nat

(* The lists of queries are kept as sets of records, which is what a list  *)
(* without its order is: records with the same text are different members, *)
(* and nothing keeps a generator from listing one text several times.      *)
Texts(S) == {TextOf[q] : q \in S}

VARIABLES
  place,       \* the node that runs next
  terminal,    \* terminal_status
  cancelRequested,      \* cancel_requested
  resolved,    \* entity_resolution_status = RESOLVED
  known, required,  \* selected_objects and those of them that are required
  gapped,      \* a blocking gap among metadata_gaps
  round, plans, stalled,  \* planning_round, plan_fingerprints (a set of steps
                          \* stands for its hash), no_progress_rounds
  proposed, approved, \* queries
  rejected,    \* rejected_query_hashes: the texts validation has refused
  results,     \* query_results: how each query ended
  count,       \* query_count
  coverage,    \* coverage_status
  allowed,     \* reasoning_allowed
  called,      \* provider_call_required
  answer,      \* reasoning_result: none, unchecked, accepted, faulty
  report,      \* structured_report: none, deterministic, reasoned
  persisted,      \* queries whose result the application has persisted
  invocation   \* the audit record: none, open, failed, completed

search == <<known, required, gapped, round, plans, stalled>>
queries == <<proposed, approved, rejected, results, count, persisted>>
reasoned == <<allowed, called, answer, report, invocation>>
loopVars == <<place, terminal, cancelRequested, resolved, search, queries, coverage, reasoned>>

Terminals == {"RUNNING", "COMPLETED", "FAILED", "CANCELLED", "AMBIGUOUS_ENTITY",
              "ENTITY_NOT_FOUND"}
Failures == Terminals \ {"RUNNING", "COMPLETED"}

CoverageStatus == {"NOT_STARTED", "PARTIAL", "COMPLETE", "BLOCKED", "LIMIT_REACHED"}

QueriesThat(S) == {q \in Queries : results[q] \in S}
ObjectsOf(S) == {ObjectOf[q] : q \in S}
Executed == QueriesThat({"ok", "failed", "denied", "kept"})
Successful == ObjectsOf(QueriesThat({"kept"}))
Remaining == MaxQueries - count

LoopInit ==
  /\ place = "initialize" /\ terminal = "RUNNING"
  /\ cancelRequested = FALSE /\ resolved = FALSE
  /\ known = {} /\ required = {} /\ gapped = FALSE
  /\ round = 0 /\ plans = {} /\ stalled = 0
  /\ proposed = {} /\ approved = {} /\ rejected = {}
  /\ results = [q \in Queries |-> "none"]
  /\ count = 0 /\ persisted = {}
  /\ coverage = "NOT_STARTED"
  /\ allowed = FALSE /\ called = FALSE
  /\ answer = "none" /\ report = "none" /\ invocation = "none"

-----------------------------------------------------------------------------
(* The edges; a conditional one reads the state the node leaves behind.    *)
(* Fault: a walk without a required object plans once more.                *)
PlanOnceMore(status) ==
  CASE cancelRequested -> "finalize"
    [] ~cancelRequested /\ status \in {"PARTIAL", "NOT_STARTED"} -> "create_plan"
    [] ~cancelRequested /\ status \notin {"PARTIAL", "NOT_STARTED"} -> "assess_evidence"

CoverageRoute(status) ==
  CASE cancelRequested -> "finalize"
    [] ~cancelRequested /\ status = "PARTIAL" -> "create_plan"
    [] ~cancelRequested /\ status # "PARTIAL" -> "assess_evidence"

LoopEdge(n, status, call) ==
  CASE n = "initialize"         -> "resolve_entity"
    [] n = "resolve_entity"     -> "discover_objects"
    [] n = "discover_objects"   -> "create_plan"
    [] n = "create_plan"        -> "validate_sql"
    [] n = "validate_sql"       -> "execute_sql"
    [] n = "execute_sql"        -> "preserve_evidence"
    [] n = "preserve_evidence"  -> "classify_results"
    [] n = "classify_results"   -> "check_coverage"
    [] n = "check_coverage"     -> CoverageRoute(status)
    [] n = "assess_evidence"    -> "apply_evidence_gate"
    [] n = "apply_evidence_gate" -> IF call THEN "invoke_reasoning" ELSE "compose_report"
    [] n = "invoke_reasoning"   -> "validate_reasoning"
    [] n = "validate_reasoning" -> "compose_report"
    [] n = "compose_report"     -> "validate_report"
    [] n = "validate_report"    -> "finalize"
    [] n = "finalize"           -> "end"

Leave == place' = LoopEdge(place, coverage', called')

(* The wrapper runs the handler of n ...                                   *)
Handles(n) ==
  /\ place = n
  /\ terminal \notin Failures
  /\ n \in {"initialize", "finalize"} \/ ~cancelRequested

(* ... unless the walk has failed, or was cancelled; the edge is taken all *)
(* the same.                                                               *)
PassOver(n) ==
  /\ place = n
  /\ \/ terminal \in Failures /\ UNCHANGED terminal
     \/ /\ terminal \notin Failures /\ cancelRequested /\ n \notin {"initialize", "finalize"}
        /\ terminal' = "CANCELLED"
  /\ UNCHANGED <<cancelRequested, resolved, search, queries, coverage, reasoned>>
  /\ Leave

(* A handler that raises OperationalNodeError leaves its update behind.    *)
Fails == terminal' = "FAILED"

(* Any other exception of a callback leaves the graph; the audit record    *)
(* may have been made before.                                              *)
Raises ==
  /\ place \in {"initialize", "create_plan", "execute_sql", "classify_results",
                "apply_evidence_gate", "invoke_reasoning", "validate_reasoning",
                "compose_report", "validate_report", "finalize"}
  /\ terminal \notin Failures /\ ~cancelRequested
  /\ invocation' \in IF place = "invoke_reasoning" THEN {"none", "open", "completed"}
                     ELSE {invocation}
  /\ place' = "raised"
  /\ UNCHANGED <<terminal, cancelRequested, resolved, search, queries, coverage, allowed, called,
                 answer, report>>

-----------------------------------------------------------------------------
(* Nodes of the caller.                                                    *)
Initialize ==
  /\ Handles("initialize")
  /\ terminal' = "RUNNING"
  /\ UNCHANGED <<cancelRequested, resolved, search, queries, coverage, reasoned>>
  /\ Leave

FinalizeLoop ==
  /\ Handles("finalize")
  /\ terminal' = "COMPLETED"
  /\ UNCHANGED <<cancelRequested, resolved, search, queries, coverage, reasoned>>
  /\ Leave

(* It may find that the user has asked to stop.                            *)
ReviewResults ==
  /\ Handles("classify_results")
  /\ cancelRequested' \in BOOLEAN
  /\ UNCHANGED <<terminal, resolved, search, queries, coverage, reasoned>>
  /\ Leave

(* Resolved; blocked or failed, which goes on without objects; ambiguous,  *)
(* not found, or refused.                                                  *)
ResolveEntity ==
  /\ Handles("resolve_entity")
  /\ \/ resolved' \in BOOLEAN /\ UNCHANGED terminal
     \/ /\ terminal' \in {"AMBIGUOUS_ENTITY", "ENTITY_NOT_FOUND", "FAILED"}
        /\ UNCHANGED resolved
  /\ UNCHANGED <<cancelRequested, search, queries, coverage, reasoned>>
  /\ Leave

(* The first table is required and brings the others with it.              *)
DiscoverObjects ==
  /\ Handles("discover_objects")
  /\ \/ /\ resolved /\ known' \in SUBSET Objects
        /\ required' \in {R \in SUBSET known' : Cardinality(R) = IF known' = {} THEN 0 ELSE 1}
        /\ gapped' \in BOOLEAN
        /\ UNCHANGED terminal
     \/ ~resolved /\ UNCHANGED <<terminal, known, required, gapped>>
     \/ resolved /\ Fails /\ UNCHANGED <<known, required, gapped>>
  /\ UNCHANGED <<cancelRequested, resolved, round, plans, stalled, queries, coverage, reasoned>>
  /\ Leave

(* The planner picks objects without evidence, the required one first,     *)
(* until none is left or their queries fill the budget.                    *)
Plans(objects, new) ==
  /\ objects \subseteq known \ Successful
  /\ ObjectsOf(new) \subseteq objects
  /\ Cardinality(objects) <= Remaining
  /\ required \ Successful \subseteq objects \/ objects = {}
  /\ \/ objects = known \ Successful
     \/ Cardinality(objects) = Remaining
     \/ Cardinality(new) >= Remaining

(* A plan of the same objects as an earlier one is no progress, whatever   *)
(* queries it would propose; the queries of the last plan stay proposed.   *)
(* Only rejected texts are left out of a plan, not repeated ones.          *)
Unrejected(S) == {q \in S : TextOf[q] \notin rejected}

CreatePlan(objects, generated) ==
  /\ Handles("create_plan")
  /\ IF round >= MaxRounds
       THEN UNCHANGED <<round, plans, stalled, proposed>>
       ELSE /\ Plans(objects, Unrejected(generated))
            /\ round' = round + 1
            /\ plans' = plans \cup {objects}
            /\ IF objects = {} \/ objects \in plans
                 THEN stalled' = stalled + 1 /\ UNCHANGED proposed
                 ELSE stalled' = 0 /\ proposed' = Unrejected(generated)
  /\ UNCHANGED <<terminal, cancelRequested, resolved, known, required, gapped, approved,
                 rejected, results, count, persisted, coverage, reasoned>>
  /\ Leave

(* Scope, read-only syntax and production safety decide on each query.     *)
ValidateSql ==
  /\ Handles("validate_sql")
  /\ approved' \in SUBSET proposed
  /\ rejected' = rejected \cup Texts(proposed \ approved')
  /\ UNCHANGED <<terminal, cancelRequested, resolved, search, proposed, results, count, persisted,
                 coverage, reasoned>>
  /\ Leave

(* Fault: what has been executed is not looked up.                         *)
FreshAgain == approved

(* Fault: it is looked up by the identifier of the record only.            *)
FreshById == {q \in approved : results[q] = "none"}

(* What no earlier batch has executed; the batch itself is not searched    *)
(* for repetitions.                                                        *)
Fresh == {q \in approved : TextOf[q] \notin Texts(Executed)}

ExecuteBatch(batch) ==
  /\ Handles("execute_sql")
  /\ batch \subseteq Fresh
  /\ Cardinality(batch) = IF Cardinality(Fresh) < Remaining THEN Cardinality(Fresh)
                          ELSE Remaining
  /\ \E outcome \in [batch -> {"ok", "failed", "denied"}] :
       results' = [q \in Queries |-> IF q \in batch THEN outcome[q] ELSE results[q]]
  /\ count' = count + Cardinality(batch)
  /\ UNCHANGED <<terminal, cancelRequested, resolved, search, proposed, approved, rejected, persisted,
                 coverage, reasoned>>
  /\ Leave

(* Every result is persisted before it counts.  When the store fails in    *)
(* between, what it has taken is kept there, and the state forgets it.     *)
PreserveEvidence ==
  /\ Handles("preserve_evidence")
  /\ \/ /\ results' = [q \in Queries |-> IF results[q] = "ok" THEN "kept" ELSE results[q]]
        /\ persisted' = persisted \cup QueriesThat({"ok"})
        /\ UNCHANGED terminal
     \/ /\ \E taken \in SUBSET QueriesThat({"ok"}) :
             taken # QueriesThat({"ok"}) /\ persisted' = persisted \cup taken
        /\ Fails /\ UNCHANGED results
  /\ UNCHANGED <<cancelRequested, resolved, search, proposed, approved, rejected, count,
                 coverage, reasoned>>
  /\ Leave

-----------------------------------------------------------------------------
Missing == required \ Successful

(* A failed query leaves a blocking gap that nothing lifts.                *)
Blocking == gapped \/ QueriesThat({"failed", "denied"}) # {}

Limit(late) ==
  \/ round >= MaxRounds \/ count >= MaxQueries \/ Cardinality(known) >= MaxObjects
  \/ stalled >= NoProgressLimit \/ late

Covered(late) ==
  CASE required = {} -> "NOT_STARTED"
    [] required # {} /\ Missing = {} /\ ~Blocking -> "COMPLETE"
    [] required # {} /\ (Missing # {} \/ Blocking) /\ Limit(late) -> "LIMIT_REACHED"
    [] required # {} /\ (Missing # {} \/ Blocking) /\ ~Limit(late) ->
         IF ObjectsOf(QueriesThat({"denied"})) \cap Missing # {} THEN "BLOCKED" ELSE "PARTIAL"

(* The deadline may have passed at any time.                               *)
CheckCoverage ==
  /\ Handles("check_coverage")
  /\ \E late \in BOOLEAN : coverage' = Covered(late)
  /\ UNCHANGED <<terminal, cancelRequested, resolved, search, queries, reasoned>>
  /\ Leave

AssessEvidence ==
  /\ Handles("assess_evidence")
  /\ allowed' = (Successful # {} /\ coverage \notin {"BLOCKED", "LIMIT_REACHED"})
  /\ called' = FALSE
  /\ UNCHANGED <<terminal, cancelRequested, resolved, search, queries, coverage, answer, report,
                 invocation>>
  /\ Leave

(* The gate is run on the verified evidence; without any it denies.        *)
ApplyEvidenceGate ==
  /\ Handles("apply_evidence_gate")
  /\ \E invoke \in BOOLEAN :
       /\ invoke => Successful # {}
       /\ allowed' = (invoke /\ coverage \notin {"PARTIAL", "LIMIT_REACHED", "BLOCKED"})
  /\ called' = allowed'
  /\ UNCHANGED <<terminal, cancelRequested, resolved, search, queries, coverage, answer, report,
                 invocation>>
  /\ Leave

(* Cancelled before the call, or nothing started because the evidence      *)
(* cannot be loaded or the audit record not be created.                    *)
NotInvoked ==
  /\ \/ called' = FALSE /\ UNCHANGED terminal
     \/ Fails /\ UNCHANGED called
  /\ UNCHANGED <<answer, invocation>>

(* The provider fails, or the user cancels during the call.                *)
CallFails == invocation' = "failed" /\ called' = FALSE /\ UNCHANGED <<terminal, answer>>

(* The audit record is completed and the answer persisted, or one of the   *)
(* two fails.                                                              *)
CallAnswers ==
  /\ \/ invocation' = "open" /\ Fails /\ UNCHANGED answer
     \/ invocation' = "completed" /\ Fails /\ UNCHANGED answer
     \/ invocation' = "completed" /\ answer' = "unchecked" /\ UNCHANGED terminal
  /\ UNCHANGED called

InvokeReasoning ==
  /\ Handles("invoke_reasoning")
  /\ NotInvoked \/ CallFails \/ CallAnswers
  /\ UNCHANGED <<cancelRequested, resolved, search, queries, coverage, allowed, report>>
  /\ Leave

(* Claims that fail are taken out of the result, and mark it.              *)
ValidateReasoning ==
  /\ Handles("validate_reasoning")
  /\ answer' \in IF answer = "none" THEN {"none"} ELSE {"accepted", "faulty"}
  /\ UNCHANGED <<terminal, cancelRequested, resolved, search, queries, coverage, allowed, called,
                 report, invocation>>
  /\ Leave

WriteReport ==
  /\ Handles("compose_report")
  /\ \/ /\ report' = IF answer = "accepted" THEN "reasoned" ELSE "deterministic"
        /\ UNCHANGED terminal
     \/ Fails /\ UNCHANGED report
  /\ UNCHANGED <<cancelRequested, resolved, search, queries, coverage, allowed, called, answer,
                 invocation>>
  /\ Leave

(* An invalid report is not persisted, a valid one may fail to be.         *)
ValidateReport ==
  /\ Handles("validate_report")
  /\ Fails \/ UNCHANGED terminal
  /\ UNCHANGED <<cancelRequested, resolved, search, queries, coverage, reasoned>>
  /\ Leave

-----------------------------------------------------------------------------
LoopNode == {"initialize", "resolve_entity", "discover_objects", "create_plan", "validate_sql",
         "execute_sql", "preserve_evidence", "classify_results", "check_coverage",
         "assess_evidence", "apply_evidence_gate", "invoke_reasoning",
         "validate_reasoning", "compose_report", "validate_report", "finalize"}

LoopWalk ==
  \/ Initialize \/ ResolveEntity \/ DiscoverObjects
  \/ \E objects \in SUBSET known, generated \in SUBSET {q \in Queries : ObjectOf[q] \in known} :
       CreatePlan(objects, generated)
  \/ ValidateSql
  \/ \E batch \in SUBSET approved : ExecuteBatch(batch)
  \/ PreserveEvidence \/ ReviewResults \/ CheckCoverage
  \/ AssessEvidence \/ ApplyEvidenceGate \/ InvokeReasoning \/ ValidateReasoning
  \/ WriteReport \/ ValidateReport \/ FinalizeLoop
  \/ \E n \in LoopNode : PassOver(n)
  \/ Raises

LoopHalted == place \in {"end", "raised"} /\ UNCHANGED loopVars

LoopNext == LoopWalk \/ LoopHalted

LoopSpec == LoopInit /\ [][LoopNext]_loopVars

(* invoke() walks until it returns or raises.                              *)
FairLoopSpec == LoopSpec /\ WF_loopVars(LoopWalk)

-----------------------------------------------------------------------------
LoopTypeOK ==
  /\ place \in LoopNode \cup {"end", "raised"}
  /\ terminal \in Terminals /\ {cancelRequested, resolved, gapped} \subseteq BOOLEAN
  /\ known \subseteq Objects /\ required \subseteq known
  /\ round \in 0..MaxRounds /\ plans \subseteq SUBSET Objects /\ stalled \in 0..MaxRounds
  /\ \A S \in {proposed, approved, persisted} : S \subseteq Queries
  /\ rejected \subseteq Texts(Queries)
  /\ results \in [Queries -> {"none", "ok", "failed", "denied", "kept"}]
  /\ count \in 0..MaxQueries
  /\ coverage \in CoverageStatus
  /\ {allowed, called} \subseteq BOOLEAN
  /\ answer \in {"none", "unchecked", "accepted", "faulty"}
  /\ report \in {"none", "deterministic", "reasoned"}
  /\ invocation \in {"none", "open", "failed", "completed"}

(* Every execution has its own record, and none is outside the budget      *)
(* (LoopTypeOK), however often plans repeat themselves.                    *)
ExecutionsAreCounted == count = Cardinality(Executed)

(* What the state calls evidence is in the store; the store holds more     *)
(* only after it has failed.                                               *)
EvidenceIsStored ==
  /\ QueriesThat({"kept"}) \subseteq persisted
  /\ terminal # "FAILED" => persisted = QueriesThat({"kept"})

(* Reasoning is allowed, and the provider called, only where the required  *)
(* object has stored evidence and no query or search for metadata failed;  *)
(* a report only uses an answer whose audit record was completed.          *)
ReasoningIsGrounded ==
  /\ allowed \/ invocation # "none" =>
       /\ required # {} /\ required \subseteq ObjectsOf(persisted)
       /\ ~gapped /\ QueriesThat({"failed", "denied"}) = {}
  /\ report = "reasoned" => invocation = "completed"

(* The state's records agree with each other and with the store, and what  *)
(* is made of them rests on what is stored.                                *)
EvidenceIsSound == LoopTypeOK /\ ExecutionsAreCounted /\ EvidenceIsStored /\ ReasoningIsGrounded

(* SQL that was executed in one round is not executed in a later one,      *)
(* whoever proposes it again and for whichever object.  Within one batch   *)
(* it may be, as often as the plan lists it: the adapters do not look for  *)
(* repetitions there.                                                      *)
NoQueryRunsAgain ==
  [][\A q \in Queries :
       results[q] = "none" /\ results'[q] # "none" => TextOf[q] \notin Texts(Executed)]_loopVars

(* How a walk ends, whatever the callbacks answer - but for a failure      *)
(* after a round that left the coverage partial, when every node is passed *)
(* over and the route behind check_coverage leads back to create_plan.     *)
LoopOver == place \in {"end", "raised"} \/ (terminal = "FAILED" /\ coverage = "PARTIAL")
=============================================================================
