---------------------------- MODULE AgenticLoop ----------------------------
(***************************************************************************)
(* One call of MultiStepAgenticInvestigationLoop.run                       *)
(* (services/agentic_investigation_loop.py) with the planner that picks    *)
(* its actions (services/safe_investigation_planner.py).  The loop moves   *)
(* the investigation through the states of InvestigationStates; a          *)
(* transition the relation does not admit raises and ends the call.        *)
(*                                                                         *)
(* The assessor, the SQL pipeline and the verifier are the caller's: each  *)
(* call may raise or return anything its type allows.  The cancellation    *)
(* callback and the clock change while the loop runs.  LLM calls and       *)
(* tokens obey the same rule, so one counter stands for either.            *)
(***************************************************************************)
EXTENDS InvestigationStates, FiniteSets

CONSTANTS
  Actions,        \* action fingerprints
  StartStates,    \* states of the ledger that initialize() may return
  MaxIterations, MaxSql, MaxRows, MaxLlm, MaxRetries,   \* AgenticLoopLimits
  MaxBatch,       \* queries one plan() returns at most
  MaxBatchRows,   \* model bound: rows one batch returns at most
  MaxAssessCalls  \* model bound: LLM calls of one assessment

ASSUME LoopAssumption ==
  /\ StartStates \subseteq InvestigationState
  /\ {MaxIterations, MaxSql, MaxRows, MaxBatch} \subseteq Nat \ {0}
  /\ {MaxLlm, MaxRetries, MaxBatchRows, MaxAssessCalls} \subseteq Nat

VARIABLES
  state, iter,   \* the ledger's last row
  pc,            \* where run() is
  usage,         \* AgenticBudgetUsage
  history,       \* outcomes of the previous actions, by fingerprint
  found,         \* the current LoopAssessment
  action,        \* the fingerprint selected in this iteration
  batch,         \* queries planned, then approved
  outcome,       \* of the current step
  decisions,     \* investigation_planner_selections
  steps,         \* investigation_agentic_steps
  reason,        \* why the call ended
  cancel,        \* the cancellation request, as the environment made it
  late           \* max_execution_seconds have passed

ledgerVars == <<state, iter>>
stepVars   == <<found, action, batch, outcome>>
envVars    == <<cancel, late>>
vars == <<ledgerVars, pc, usage, history, stepVars, decisions, steps,
          reason, envVars>>

Outcome == {"SUCCEEDED", "FAILED_TRANSIENT", "FAILED_PERMANENT"}
StepOutcome == Outcome \cup {"PLANNING_FAILED", "VALIDATION_REJECTED"}
NoAction == "NONE"

(* What assess() may conclude by itself.                                   *)
Conclusion == {"ROOT_CAUSE_CONFIRMED", "ISSUE_NOT_REPRODUCED",
               "INSUFFICIENT_EVIDENCE", "BLOCKED_BY_MISSING_SOURCE"}

NothingFound == [candidates |-> {}, blocked |-> {}, external |-> FALSE]
NotRequested == [sql |-> 0, running |-> FALSE, made |-> FALSE]

-----------------------------------------------------------------------------
(* Fault: exhausted rows are not a stop condition.                         *)
BudgetTerminalNoRows(u) ==
  IF u.iterations >= MaxIterations THEN "ITERATION_BUDGET_EXHAUSTED"
  ELSE IF u.sql >= MaxSql THEN "QUERY_BUDGET_EXHAUSTED"
  ELSE IF u.late \/ u.llm > MaxLlm THEN "ITERATION_BUDGET_EXHAUSTED"
  ELSE NoState

(* _budget_terminal: the first limit that is reached decides.              *)
BudgetTerminal(u) ==
  IF u.iterations >= MaxIterations THEN "ITERATION_BUDGET_EXHAUSTED"
  ELSE IF u.sql >= MaxSql \/ u.rows >= MaxRows THEN "QUERY_BUDGET_EXHAUSTED"
  ELSE IF u.late \/ u.llm > MaxLlm THEN "ITERATION_BUDGET_EXHAUSTED"
  ELSE NoState

(* Fault: every failure is taken for a transient one.                      *)
RepeatableFailure(a) ==
  history[a] \in {<<>>, <<"FAILED_TRANSIENT">>, <<"FAILED_PERMANENT">>}

(* _retry_eligibility: an action that succeeded or failed for good is      *)
(* never repeated, one that failed transiently is repeated once.           *)
Repeatable(a) == history[a] \in {<<>>, <<"FAILED_TRANSIENT">>}

RetryNumber(a) == IF history[a] = <<>> THEN 0 ELSE 1

(* select_next asks the budgets first.                                     *)
PlannerGate ==
  IF usage.iterations >= MaxIterations THEN "ITERATION_BUDGET_EXHAUSTED"
  ELSE IF usage.sql >= MaxSql THEN "QUERY_BUDGET_EXHAUSTED"
  ELSE NoState

(* The candidates it ranks; the ranking depends on request data that the   *)
(* fingerprint leaves out, so any of them may come first.                  *)
Eligible ==
  {a \in found.candidates \ found.blocked : Repeatable(a) /\ PlannerGate = NoState}

(* Candidates rejected by policy, which is asked after the duplicates.     *)
PolicyRejected == {a \in found.blocked : Repeatable(a)}

(* _planner_terminal, for the status select_next returns without a choice. *)
PlannerTerminal ==
  IF PlannerGate # NoState THEN PlannerGate
  ELSE IF PolicyRejected # {} THEN "POLICY_BLOCKED"
  ELSE IF found.external THEN "BLOCKED_BY_MISSING_SOURCE"
  ELSE "INSUFFICIENT_EVIDENCE"

(* state.transition() for each state of path in turn: the first one that   *)
(* is not admitted raises out of run().                                    *)
Lawful(path) ==
  \A i \in 1..Len(path) :
    ValidTransition(IF i = 1 THEN state ELSE path[i - 1], path[i])

Go(path, next, why) ==
  LET last == path[Len(path)] IN
  IF Lawful(path)
    THEN /\ state' = last
         /\ iter' = IterationAfter(iter, state, path[1])
         /\ pc' = IF last \in TerminalStates THEN "done" ELSE next
         /\ reason' = IF last \in TerminalStates THEN why ELSE reason
    ELSE /\ pc' = "raised"
         /\ UNCHANGED <<ledgerVars, reason>>

-----------------------------------------------------------------------------
Init ==
  /\ state \in StartStates
  /\ iter = 0
  /\ pc = "top"
  /\ usage = [iterations |-> 0, sql |-> 0, rows |-> 0, late |-> FALSE,
              llm |-> 0, retries |-> 0]
  /\ history = [a \in Actions |-> <<>>]
  /\ found = NothingFound
  /\ action = NoAction
  /\ batch = 0
  /\ outcome = "SUCCEEDED"
  /\ decisions = <<>>
  /\ steps = <<>>
  /\ reason = "none"
  /\ cancel = NotRequested
  /\ late = FALSE

Running == pc \notin {"done", "raised"}

RequestCancel ==
  /\ Running /\ ~cancel.made
  /\ cancel' = [sql |-> usage.sql, running |-> pc = "running", made |-> TRUE]
  /\ UNCHANGED <<ledgerVars, pc, usage, history, stepVars, decisions, steps,
                 reason, late>>

DeadlinePasses ==
  /\ Running /\ ~late
  /\ late' = TRUE
  /\ UNCHANGED <<ledgerVars, pc, usage, history, stepVars, decisions, steps,
                 reason, cancel>>

(* Fault: approved SQL runs without asking again.                          *)
CheckpointsBeforePlanning == {"top", "gap"}

(* run() asks is_cancelled() before an iteration, before selecting an      *)
(* action and before executing one.                                        *)
Checkpoints == {"top", "gap", "cleared"}

Cancelled == cancel.made /\ pc \in Checkpoints

StopForCancel ==
  /\ Cancelled
  /\ Go(<<"CANCELLED">>, "done", "cancel")
  /\ UNCHANGED <<usage, history, stepVars, decisions, steps, envVars>>

(* An exception of the caller's code at pc: state.fail().                  *)
CallRaises ==
  /\ pc \in {"assess", "plan", "validate", "running", "verify"}
  /\ Go(<<"FAILED">>, "done", "error")
  /\ UNCHANGED <<usage, history, stepVars, decisions, steps, envVars>>

(* The top of the while loop.  Only the clock can have moved since the     *)
(* check at its bottom.                                                    *)
BeginIteration ==
  LET used == [usage EXCEPT !.late = late] IN
  /\ pc = "top" /\ ~Cancelled
  /\ usage' = used
  /\ IF state = "STOP_EVALUATION" /\ BudgetTerminal(used) # NoState
       THEN Go(<<BudgetTerminal(used)>>, "done", "budget")
     ELSE IF state \in {"INITIALIZATION", "STOP_EVALUATION"}
       THEN Go(<<"EVIDENCE_ASSESSMENT">>, "assess", "none")
     ELSE pc' = "assess" /\ UNCHANGED <<ledgerVars, reason>>
  /\ UNCHANGED <<history, stepVars, decisions, steps, envVars>>

Charge(calls) == usage' = [usage EXCEPT !.llm = @ + calls]

(* assess() proposes a terminal state.                                     *)
AssessConcludes(terminal, calls) ==
  /\ pc = "assess"
  /\ Charge(calls)
  /\ Go(IF terminal = "BLOCKED_BY_MISSING_SOURCE"
          THEN <<"GAP_IDENTIFICATION", terminal>> ELSE <<terminal>>,
        "done", "assessment")
  /\ UNCHANGED <<history, stepVars, decisions, steps, envVars>>

(* assess() proposes actions, of which the environment policy will reject  *)
(* the blocked ones; external: every gap needs external evidence.          *)
AssessContinues(candidates, blocked, external, calls) ==
  /\ pc = "assess"
  /\ Charge(calls)
  /\ found' = [candidates |-> candidates, blocked |-> blocked,
               external |-> external]
  /\ Go(<<"GAP_IDENTIFICATION">>, "gap", "none")
  /\ UNCHANGED <<history, action, batch, outcome, decisions, steps, envVars>>

(* The planner has nothing to select.                                      *)
NothingToSelect ==
  /\ pc = "gap" /\ ~Cancelled
  /\ Eligible = {}
  /\ decisions' = Append(decisions, [action |-> NoAction, retry |-> 0])
  /\ Go(<<"ACTION_SELECTION", PlannerTerminal>>, "done", "planner")
  /\ UNCHANGED <<usage, history, stepVars, steps, envVars>>

(* The planner selects a; a retry beyond the limit ends the call, even if  *)
(* other actions were eligible.                                            *)
Select(a) ==
  LET retries == usage.retries + RetryNumber(a) IN
  /\ pc = "gap" /\ ~Cancelled
  /\ a \in Eligible
  /\ decisions' = Append(decisions, [action |-> a, retry |-> RetryNumber(a)])
  /\ action' = a
  /\ usage' = [usage EXCEPT !.retries = retries]
  /\ IF RetryNumber(a) > 0 /\ retries > MaxRetries
       THEN Go(<<"ACTION_SELECTION", "INSUFFICIENT_EVIDENCE">>, "done", "retries")
       ELSE Go(<<"ACTION_SELECTION", "PLANNING">>, "plan", "none")
  /\ UNCHANGED <<history, found, batch, outcome, steps, envVars>>

Settle(result) == history' = [history EXCEPT ![action] = Append(@, result)]

(* Fault: the history records what the step reports.                       *)
GiveUpUnclassified(result) ==
  /\ Settle(result)
  /\ outcome' = result
  /\ Go(<<"STATE_UPDATE">>, "update", "none")
  /\ UNCHANGED <<usage, found, action, batch, decisions, steps, envVars>>

(* plan() or validate() leaves no query to run.                            *)
GiveUpAction(result) ==
  /\ Settle("FAILED_PERMANENT")
  /\ outcome' = result
  /\ Go(<<"STATE_UPDATE">>, "update", "none")
  /\ UNCHANGED <<usage, found, action, batch, decisions, steps, envVars>>

PlanEmpty ==
  /\ pc = "plan"
  /\ GiveUpAction("PLANNING_FAILED")

PlanQueries(n) ==
  /\ pc = "plan"
  /\ batch' = n
  /\ Go(<<"VALIDATION">>, "validate", "none")
  /\ UNCHANGED <<usage, history, found, action, outcome, decisions, steps, envVars>>

(* Fault: a rejected action is planned again at once.                      *)
PlanAgain ==
  /\ pc = "validate"
  /\ pc' = "plan" /\ state' = "PLANNING"
  /\ UNCHANGED <<iter, reason, usage, history, stepVars, decisions, steps, envVars>>

RejectAll ==
  /\ pc = "validate"
  /\ GiveUpAction("VALIDATION_REJECTED")

(* n of the planned queries are approved.                                  *)
Approve(n) ==
  /\ pc = "validate" /\ n <= batch
  /\ batch' = n
  /\ IF usage.sql + n > MaxSql
       THEN Go(<<"QUERY_BUDGET_EXHAUSTED">>, "done", "approved")
       ELSE Go(<<"EXECUTION">>, "cleared", "none")
  /\ UNCHANGED <<usage, history, found, action, outcome, decisions, steps, envVars>>

StartExecution ==
  /\ pc = "cleared" /\ ~Cancelled
  /\ pc' = "running"
  /\ UNCHANGED <<ledgerVars, reason, usage, history, stepVars, decisions, steps, envVars>>

ExecuteReturns(rows) ==
  /\ pc = "running"
  /\ usage' = [usage EXCEPT !.sql = @ + batch, !.rows = @ + rows]
  /\ Go(<<"VERIFICATION">>, "verify", "none")
  /\ UNCHANGED <<history, stepVars, decisions, steps, envVars>>

(* verify() returns evidence that _execution_outcome classifies as result. *)
Verified(result) ==
  /\ pc = "verify"
  /\ Settle(result)
  /\ outcome' = result
  /\ Go(<<"STATE_UPDATE">>, "update", "none")
  /\ UNCHANGED <<usage, found, action, batch, decisions, steps, envVars>>

(* Fault: only steps that ran SQL count as iterations.                     *)
PersistExecutedStep ==
  LET ran  == IF outcome \in Outcome THEN 1 ELSE 0
      used == [usage EXCEPT !.iterations = @ + ran, !.late = late] IN
  /\ pc = "update"
  /\ usage' = used
  /\ steps' = Append(steps, [iteration |-> used.iterations, ledger |-> iter,
                             action |-> action, outcome |-> outcome])
  /\ IF BudgetTerminal(used) = NoState
       THEN Go(<<"STOP_EVALUATION">>, "top", "none")
       ELSE Go(<<"STOP_EVALUATION", BudgetTerminal(used)>>, "done", "budget")
  /\ UNCHANGED <<history, stepVars, decisions, envVars>>

(* The end of an iteration: count it, persist the step, check the budgets. *)
PersistStep ==
  LET used == [usage EXCEPT !.iterations = @ + 1, !.late = late] IN
  /\ pc = "update"
  /\ usage' = used
  /\ steps' = Append(steps, [iteration |-> used.iterations, ledger |-> iter,
                             action |-> action, outcome |-> outcome])
  /\ IF BudgetTerminal(used) = NoState
       THEN Go(<<"STOP_EVALUATION">>, "top", "none")
       ELSE Go(<<"STOP_EVALUATION", BudgetTerminal(used)>>, "done", "budget")
  /\ UNCHANGED <<history, stepVars, decisions, envVars>>

Ended == ~Running /\ UNCHANGED vars

Step ==
  \/ StopForCancel
  \/ CallRaises
  \/ BeginIteration
  \/ \E calls \in 0..MaxAssessCalls :
       \/ \E terminal \in Conclusion : AssessConcludes(terminal, calls)
       \/ \E candidates \in SUBSET Actions, external \in BOOLEAN :
            \E blocked \in SUBSET candidates :
              AssessContinues(candidates, blocked, external, calls)
  \/ NothingToSelect
  \/ \E a \in Actions : Select(a)
  \/ PlanEmpty
  \/ \E n \in 1..MaxBatch : PlanQueries(n) \/ Approve(n)
  \/ RejectAll
  \/ StartExecution
  \/ \E rows \in 0..MaxBatchRows : ExecuteReturns(rows)
  \/ \E result \in Outcome : Verified(result)
  \/ PersistStep

Next == Step \/ RequestCancel \/ DeadlinePasses \/ Ended

Spec == Init /\ [][Next]_vars

(* The assessor, the pipeline and the verifier return: each call the loop  *)
(* makes is bounded by the timeout of its client.                          *)
FairSpec == Spec /\ WF_vars(Step)

-----------------------------------------------------------------------------
Control == {"top", "assess", "gap", "plan", "validate", "cleared", "running",
            "verify", "update", "done", "raised"}

(* Type invariant of the loop's local variables and of what it persists.   *)
TypeOK ==
  /\ state \in InvestigationState /\ iter \in Nat
  /\ pc \in Control
  /\ usage \in [iterations : Nat, sql : Nat, rows : Nat, late : BOOLEAN,
                llm : Nat, retries : Nat]
  /\ history \in [Actions -> Seq(Outcome)]
  /\ found \in [candidates : SUBSET Actions, blocked : SUBSET Actions,
               external : BOOLEAN]
  /\ action \in Actions \cup {NoAction}
  /\ batch \in 0..MaxBatch
  /\ outcome \in StepOutcome
  /\ decisions \in Seq([action : Actions \cup {NoAction}, retry : 0..1])
  /\ steps \in Seq([iteration : Nat, ledger : Nat, action : Actions,
                    outcome : StepOutcome])
  /\ reason \in {"none", "cancel", "error", "budget", "assessment",
                 "planner", "retries", "approved"}
  /\ cancel \in [sql : Nat, running : BOOLEAN, made : BOOLEAN]
  /\ late \in BOOLEAN

(* docs/multi-step-agentic-investigation-loop.md: "Limits are cumulative   *)
(* for the investigation loop."  Queries and iterations never exceed their *)
(* limits; rows and LLM calls, which are only known afterwards, exceed     *)
(* theirs by less than one batch and one assessment.                       *)
WithinLimits ==
  /\ usage.iterations <= MaxIterations
  /\ usage.sql <= MaxSql
  /\ usage.rows < MaxRows + MaxBatchRows
  /\ usage.llm <= MaxLlm + MaxAssessCalls

(* docs/safe-investigation-planner.md: completed and permanently failed    *)
(* actions are suppressed, a transient failure receives at most one        *)
(* controlled retry; all retries together stay within max_retries.         *)
Repeats ==
  {j \in 1..Len(steps) : \E i \in 1..(j - 1) : steps[i].action = steps[j].action}

OneControlledRetry ==
  /\ \A i, j \in 1..Len(steps) :
        i < j /\ steps[i].action = steps[j].action =>
          /\ steps[i].outcome = "FAILED_TRANSIENT"
          /\ \A k \in 1..Len(steps) :
                steps[k].action = steps[i].action => k \in {i, j}
  /\ Cardinality(Repeats) <= MaxRetries

(* The three records of a run agree: step k is the k-th iteration, made    *)
(* for the k-th selection while the ledger was in iteration k - 1, and at  *)
(* most the last selection has no step.  (iteration_number is unique per   *)
(* investigation in the steps table.)                                      *)
RecordsAgree ==
  /\ \A k \in 1..Len(steps) :
       /\ steps[k].iteration = k /\ steps[k].ledger = k - 1
       /\ steps[k].action = decisions[k].action
  /\ Len(decisions) \in {Len(steps), Len(steps) + 1}

(* The terminal state a run ends in is the one its situation calls for:    *)
(* an exhausted budget is named by its own kind, a policy block means a    *)
(* candidate was blocked and none could run, and a run only goes on to     *)
(* another iteration with budget left.                                     *)
StopsForAReason ==
  /\ pc = "done" /\ state = "QUERY_BUDGET_EXHAUSTED" =>
       usage.sql + batch > MaxSql \/ usage.sql >= MaxSql \/ usage.rows >= MaxRows
  /\ pc = "done" /\ state = "ITERATION_BUDGET_EXHAUSTED" =>
       \/ usage.iterations >= MaxIterations
       \/ usage.rows < MaxRows /\ (usage.late \/ usage.llm > MaxLlm)
  /\ pc = "done" /\ reason = "planner" =>
       /\ \A a \in found.candidates : a \in found.blocked \/ history[a] # <<>>
       /\ state = "POLICY_BLOCKED" => \E a \in found.blocked : Repeatable(a)
       /\ state \notin {"QUERY_BUDGET_EXHAUSTED", "ITERATION_BUDGET_EXHAUSTED"}
  /\ state = "STOP_EVALUATION" =>
       usage.iterations < MaxIterations /\ usage.sql < MaxSql
         /\ usage.rows < MaxRows /\ usage.llm <= MaxLlm

(* tests/test_agentic_investigation_loop.py, "cancellation stops before    *)
(* any sql": after the request only a batch that was already running is    *)
(* still counted.                                                          *)
NoSqlAfterCancel ==
  cancel.made /\ usage.sql > cancel.sql => cancel.running

(* The budgets, from the first charge to the end of the run: never past    *)
(* the limits, and every end has the reason it gives.                      *)
EndsWithinLimits == WithinLimits /\ StopsForAReason

(* docs/multi-step-agentic-investigation-loop.md: "Query/row exhaustion    *)
(* terminates safely as `QUERY_BUDGET_EXHAUSTED`".  Violated by a batch    *)
(* that is only found too large once it is approved: VALIDATION has no     *)
(* transition to that state and run() raises.                              *)
QueryExhaustionEndsSafely ==
  pc = "raised" /\ usage.sql + batch > MaxSql => state \in TerminalStates

(* There is no other way for a run to raise on a ledger that was open:     *)
(* every other path through the loop, with its cancellations, failures and *)
(* early ends, is lawful.                                                  *)
OnlyBatchesRefused ==
  pc = "raised" =>
    \/ state \in TerminalStates
    \/ state = "VALIDATION" /\ usage.sql + batch > MaxSql

(* Whatever the assessor keeps asking for, the call returns.               *)
LoopEnds == <>(pc \in {"done", "raised"})
=============================================================================
