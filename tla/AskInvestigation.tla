-------------------------- MODULE AskInvestigation --------------------------
(***************************************************************************)
(* One request to POST /chat/ask (routers/chat.py): the investigation      *)
(* pipeline with the provider calls it may make, the graph that may run it *)
(* again, and the database session in which the investigation, its         *)
(* provider rows and its ledger become durable together or not at all.     *)
(* The decisions are those of EvidenceReasoning.                           *)
(***************************************************************************)
EXTENDS EvidenceReasoning

CONSTANT MaxAttempts   \* llm_retry_attempts

ASSUME AttemptsAssumption == MaxAttempts \in Nat \ {0}

VARIABLES
  config,     \* AI reasoning enabled, a key configured, agentic ledger on
  at,         \* where the request is
  finding,    \* the gate's result, whether queries failed, whether any was planned
  decision,   \* what dispatch_reasoning decided
  reasoning,  \* the ReasoningResult so far
  trace,      \* ai_debug_trace, as far as an outcome depends on it
  attempt,    \* provider attempts of this run
  written,    \* rows of llm_invocation_audit written for them
  payload,    \* what the graph returns of the last run
  stored,     \* the row of investigations
  ledger,     \* the states of its ledger
  path        \* the transitions persist_canonical_terminal_outcome still owes

runVars     == <<finding, decision, reasoning, trace, attempt, written>>
sessionVars == <<stored, ledger, path>>
askVars     == <<config, at, runVars, payload, sessionVars>>

NoGate     == [required |-> FALSE, reproduced |-> FALSE, condition |-> FALSE,
               evidence |-> "none", absence |-> FALSE, factual |-> FALSE]
Findings ==
  {[gate |-> Gate(f), failures |-> f.failures, planned |-> f.planned] :
     f \in {g \in Facts : Possible(g)}}
NoFindings == [gate |-> NoGate, failures |-> FALSE, planned |-> FALSE]
NoDecision == [permission |-> NoState, mode |-> Skip, invoke |-> FALSE,
               reproduced |-> FALSE]
NoReasoning == [type |-> Insufficient, verified |-> FALSE]
NoTrace    == [asked |-> FALSE, outcome |-> "unset", invocation |-> "pending",
               used |-> FALSE, rejected |-> FALSE]
NoPayload  == [full |-> FALSE, provenance |-> NoState, intent |-> "plain"]
NotStored  == [status |-> NoState, outcome |-> NoState, audit |-> NoState,
               mode |-> NoState, claims |-> FALSE]

ClearRun ==
  /\ finding' = NoFindings /\ decision' = NoDecision /\ reasoning' = NoReasoning
  /\ trace' = NoTrace /\ attempt' = 0 /\ written' = 0 /\ payload' = NoPayload

ClearSession == stored' = NotStored /\ ledger' = <<>> /\ path' = <<>>

AskInit ==
  /\ config \in [ai : BOOLEAN, key : BOOLEAN, agentic : BOOLEAN]
  /\ at = "start"
  /\ finding = NoFindings /\ decision = NoDecision /\ reasoning = NoReasoning
  /\ trace = NoTrace /\ attempt = 0 /\ written = 0
  /\ payload = NoPayload
  /\ stored = NotStored /\ ledger = <<>> /\ path = <<>>

-----------------------------------------------------------------------------
(* 403, 404, 409 or 422 before anything is investigated.                   *)
Refuse ==
  /\ at = "start"
  /\ at' = "refused"
  /\ UNCHANGED <<config, runVars, payload, sessionVars>>

BeginRun ==
  /\ at = "start"
  /\ at' = "running"
  /\ UNCHANGED <<config, runVars, payload, sessionVars>>

(* The pipeline answers without having judged evidence.  Such a payload    *)
(* has neither a trace nor a provenance; what tells the ways apart         *)
(* afterwards is whether the intent says that evidence was insufficient.   *)
EndEarly(intent) ==
  /\ at = "running"
  /\ at' = "payload"
  /\ payload' = [NoPayload EXCEPT !.intent = intent]
  /\ UNCHANGED <<config, runVars, sessionVars>>

AnswerFindings        == EndEarly("plain")   \* the prompt is refused
ValidateMetadata      == EndEarly("plain")
SearchKnowledge       == EndEarly("plain")
DiscoverBusinessRules == EndEarly("plain")
NoConnection          == EndEarly("plain")   \* none saved, or it fails
TargetMissing         == EndEarly("plain")   \* a named object is not in the schema
ObjectNotFound        == EndEarly("insufficient")
NothingRelevant       == EndEarly("insufficient")
EntityBlocked         == EndEarly("insufficient")

(* A cause the database verified makes the provider unnecessary.           *)
MayAsk(d, r) == d.invoke /\ ~r.verified

(* Fault: a request counts as submitted only once it was answered.         *)
TraceOnAnswer(d, r) ==
  [NoTrace EXCEPT
     !.invocation = IF ~MayAsk(d, r) THEN "skipped_by_evidence_gate"
                    ELSE IF config.ai /\ config.key THEN "pending" ELSE "skipped",
     !.outcome = IF MayAsk(d, r) THEN "unset"
                 ELSE IF r.verified THEN "deterministic_verified_root_cause"
                 ELSE "evidence_gate"]

OpeningTrace(d, r) ==
  [NoTrace EXCEPT
     !.asked = MayAsk(d, r) /\ config.ai /\ config.key,
     !.invocation = IF ~MayAsk(d, r) THEN "skipped_by_evidence_gate"
                    ELSE IF config.ai /\ config.key THEN "pending" ELSE "skipped",
     !.outcome = IF MayAsk(d, r) THEN "unset"
                 ELSE IF r.verified THEN "deterministic_verified_root_cause"
                 ELSE "evidence_gate"]

(* Evidence, gate, dispatch and the deterministic reasoning; a verified    *)
(* cause cites evidence.                                                   *)
Deliberate ==
  /\ at = "running"
  /\ \E e \in Findings, cause \in Causes :
        LET d == Dispatch(e.gate, cause) IN
        /\ cause # "none" => e.gate.evidence # "none"
        /\ finding' = e
        /\ decision' = d
        /\ \E r \in Deterministic(d.mode, cause) :
              /\ reasoning' = r
              /\ trace' = OpeningTrace(d, r)
              /\ at' = IF MayAsk(d, r) /\ config.ai /\ config.key
                         THEN "asking" ELSE "composing"
  /\ UNCHANGED <<config, attempt, written, payload, sessionVars>>

-----------------------------------------------------------------------------
(* The provider.  Its row is written in a savepoint; when that fails the   *)
(* request is sent all the same.                                           *)
SubmitCall ==
  /\ at = "asking"
  /\ at' = "waiting"
  /\ attempt' = attempt + 1
  /\ written' \in {written, written + 1}
  /\ UNCHANGED <<config, finding, decision, reasoning, trace, payload, sessionVars>>

ProviderFailed ==
  /\ at' = "composing"
  /\ trace' = [trace EXCEPT !.outcome = "provider_failure",
                            !.invocation = "provider_failure"]
  /\ UNCHANGED <<config, finding, decision, reasoning, attempt, written, payload, sessionVars>>

(* The circuit is open, or the total timeout is used up.                   *)
CallRefused ==
  /\ at = "asking"
  /\ ProviderFailed

(* A transient failure, or an answer cut off at the token limit.           *)
TryAgain ==
  /\ at = "waiting"
  /\ attempt < MaxAttempts
  /\ at' = "asking"
  /\ UNCHANGED <<config, runVars, payload, sessionVars>>

(* The last attempt failed, it cannot be retried, or its answer is no JSON. *)
GiveUpCall ==
  /\ at = "waiting"
  /\ ProviderFailed

ProviderAnswers(c) ==
  /\ at = "waiting"
  /\ at' = "composing"
  /\ reasoning' = Merge(decision.mode, reasoning, c)
  /\ trace' = [trace EXCEPT
                 !.invocation = InvocationStatus(c),
                 !.used = Used(decision.mode, c),
                 !.rejected = c.rejected,
                 !.outcome = IF decision.mode = Summary THEN NotReproduced ELSE @]
  /\ UNCHANGED <<config, finding, decision, attempt, written, payload, sessionVars>>

-----------------------------------------------------------------------------
(* The report and the payload of a run that came all the way.              *)
ComposeReport ==
  /\ at = "composing"
  /\ at' = "payload"
  /\ reasoning' = Finalize(reasoning, finding.gate, finding.failures, trace.rejected)
  /\ payload' = [full |-> TRUE,
                 provenance |-> Provenance(decision.mode, trace.used, trace.invocation,
                                           trace.asked, config.ai),
                 intent |-> IF finding.planned THEN "plain" ELSE "EVIDENCE_PLANNING_FAILED"]
  /\ UNCHANGED <<config, finding, decision, trace, attempt, written, sessionVars>>

(* CandidateGraph says when: another candidate, the whole pipeline again.  *)
(* What the run sent and recorded stays behind, under an investigation_id  *)
(* that will never be stored.                                              *)
Rerun ==
  /\ at = "payload"
  /\ payload.full /\ ~finding.gate.reproduced
  /\ at' = "running"
  /\ ClearRun
  /\ UNCHANGED <<config, sessionVars>>

-----------------------------------------------------------------------------
(* _investigation_status.                                                  *)
Status ==
  IF payload.provenance # NoState THEN payload.provenance
  ELSE IF payload.intent = "insufficient" THEN "INSUFFICIENT_DATABASE_EVIDENCE"
  ELSE "AI_ANSWERED"

(* _terminal_ai_trace: what the trace says of the outcome when nothing was *)
(* said so far.                                                            *)
AiOutcome ==
  CASE trace.outcome # "unset" -> trace.outcome
    [] trace.outcome = "unset" /\ payload.provenance = "AI_REASONING_UNVERIFIED" ->
         "completed_no_verified_claims"
    [] trace.outcome = "unset" /\ payload.provenance = "AI_ANSWERED" -> "success"
    [] trace.outcome = "unset" /\ payload.intent = "insufficient" -> Insufficient
    [] OTHER -> "other"

Signals ==
  [status |-> Status, mode |-> decision.mode, outcome |-> AiOutcome,
   permission |-> decision.permission,
   reproduction |-> IF ~payload.full THEN "none"
                    ELSE IF decision.reproduced THEN "reproduced" ELSE "not_reproduced",
   cause |-> IF ~payload.full THEN "none"
             ELSE IF reasoning.verified THEN "met" ELSE "unmet",
   counted |-> finding.gate.evidence # "none",
   insufficient |-> payload.intent # "plain"]

(* _llm_audit_outcome.                                                     *)
AuditOutcome ==
  IF trace.asked
    THEN IF AiOutcome = "provider_failure" THEN "PROVIDER_FAILED" ELSE "PROVIDER_INVOKED"
  ELSE IF Status = "AI_SKIPPED_BY_EVIDENCE_GATE" THEN Status
  ELSE IF ~config.ai THEN "PROVIDER_DISABLED"
  ELSE IF ~config.key THEN "INVALID_CONFIGURATION"
  ELSE "DETERMINISTIC_ONLY"

(* The transitions persist_canonical_terminal_outcome makes on a ledger    *)
(* that was just initialized.                                              *)
TerminalPath(outcome) ==
  IF outcome = NoState THEN <<>>
  ELSE IF outcome = "POLICY_BLOCKED"
    THEN <<"EVIDENCE_ASSESSMENT", "GAP_IDENTIFICATION", "ACTION_SELECTION", outcome>>
  ELSE <<"EVIDENCE_ASSESSMENT", outcome>>

StoreInvestigation ==
  /\ at = "payload"
  /\ at' = "concluding"
  /\ stored' = [status |-> Status, outcome |-> AiOutcome, audit |-> AuditOutcome,
                mode |-> decision.mode, claims |-> payload.full /\ ReportsCause(reasoning)]
  /\ IF config.agentic
       THEN ledger' = <<"INITIALIZATION">> /\ path' = TerminalPath(CanonicalOutcome(Signals))
       ELSE UNCHANGED <<ledger, path>>
  /\ UNCHANGED <<config, runVars, payload>>

Now == ledger[Len(ledger)]

Conclude ==
  /\ at = "concluding"
  /\ path # <<>>
  /\ ValidTransition(Now, Head(path))
  /\ ledger' = Append(ledger, Head(path))
  /\ path' = Tail(path)
  /\ UNCHANGED <<config, at, runVars, payload, stored>>

CommitAnswer ==
  /\ at = "concluding"
  /\ path = <<>>
  /\ at' = "answered"
  /\ UNCHANGED <<config, runVars, payload, sessionVars>>

(* An exception (a transition the ledger refuses is one), or the process   *)
(* dies: the session is rolled back, the provider's rows included.         *)
Fail ==
  /\ at \notin {"start", "refused", "answered", "failed"}
  /\ at' = "failed"
  /\ ClearRun
  /\ ClearSession
  /\ UNCHANGED config

AskNext ==
  \/ Refuse \/ BeginRun
  \/ AnswerFindings \/ ValidateMetadata \/ SearchKnowledge \/ DiscoverBusinessRules
  \/ NoConnection \/ TargetMissing
  \/ ObjectNotFound \/ NothingRelevant \/ EntityBlocked
  \/ Deliberate
  \/ SubmitCall \/ CallRefused \/ TryAgain \/ GiveUpCall
  \/ \E c \in Claims : ProviderAnswers(c)
  \/ ComposeReport \/ Rerun
  \/ StoreInvestigation \/ Conclude \/ CommitAnswer \/ Fail

AskSpec == AskInit /\ [][AskNext]_askVars

-----------------------------------------------------------------------------
(* ai_debug_trace: its ai_outcome and ai_invocation_status by what they may *)
(* say.                                                                    *)
Trace ==
  [asked : BOOLEAN, used : BOOLEAN, rejected : BOOLEAN,
   outcome : {"unset", "deterministic_verified_root_cause", "evidence_gate",
              "provider_failure", NotReproduced},
   invocation : {"pending", "skipped_by_evidence_gate", "skipped", "provider_failure",
                 "completed_zero_claims", "completed_no_verified_claims", "completed"}]

(* The request's variables keep their types.                               *)
AskTypeOK ==
  /\ config \in [ai : BOOLEAN, key : BOOLEAN, agentic : BOOLEAN]
  /\ at \in {"start", "running", "asking", "waiting", "composing", "payload",
             "concluding", "answered", "refused", "failed"}
  /\ reasoning \in Reasoning /\ trace \in Trace
  /\ attempt \in 0..MaxAttempts /\ written \in 0..attempt
  /\ ledger \in Seq(InvestigationState) /\ path \in Seq(InvestigationState)

(* The ledger never refuses a transition the resolved outcome asks for,    *)
(* whatever the run found: a refusal would answer 500 and roll back an     *)
(* investigation that was complete (persist_canonical_terminal_outcome).   *)
LedgerNeverRefuses ==
  at = "concluding" /\ path # <<>> => ValidTransition(Now, Head(path))

(* With the agentic ledger on, no answered investigation is left without a *)
(* terminal state: of the signals the pipeline can produce, none is        *)
(* undecided (resolve_canonical_terminal_outcome may return None).         *)
EveryInvestigationIsConcluded ==
  at = "answered" /\ config.agentic => Now \in TerminalStates

(* The ledger takes what is resolved, and what is resolved concludes it.   *)
LedgerConcludes == LedgerNeverRefuses /\ EveryInvestigationIsConcluded

(* What the investigation says about the provider is true of the run that  *)
(* was kept: PROVIDER_INVOKED means a request was sent, and without        *)
(* PROVIDER_INVOKED or PROVIDER_FAILED none was, and no row says so; there  *)
(* are never more rows than requests, nor more requests than attempts.     *)
AuditAgreesWithCalls ==
  /\ AskTypeOK
  /\ at \in {"concluding", "answered"} =>
       /\ stored.audit = "PROVIDER_INVOKED" => attempt > 0
       /\ attempt + written > 0 => stored.audit \in {"PROVIDER_INVOKED", "PROVIDER_FAILED"}

(* A cause is confirmed or presented only where it was earned.             *)
(* ROOT_CAUSE_CONFIRMED in the ledger: the gate reproduced the problem, or *)
(* its condition was reported and nothing verified its absence; there was  *)
(* evidence; and the report does name a verified cause.  And an answer     *)
(* marked as the summary of a problem that was not reproduced never        *)
(* presents a root cause, whatever the provider claimed in it              *)
(* (docs/evidence-gate-policy.md, constrained summary mode).               *)
CausesAreEarned ==
  at = "answered" =>
    /\ config.agentic /\ Now = "ROOT_CAUSE_CONFIRMED" =>
         /\ finding.gate.reproduced \/ (finding.gate.condition /\ ~finding.gate.absence)
         /\ finding.gate.evidence # "none"
         /\ stored.claims /\ reasoning.verified
    /\ stored.status = "AI_SUMMARIZED_NOT_REPRODUCED" => ~stored.claims

(* The evaluation reader falls back to the stored status and trace where   *)
(* the ledger is off.  Where it derives an outcome, the ledger has the     *)
(* same, so switching the ledger on changes no score; the one exception is *)
(* a run without evidence, which the ledger counts as not reproduced.      *)
ReaderAgreesWithLedger ==
  LET legacy == LegacyOutcome(stored) IN
  at = "answered" /\ config.agentic /\ legacy # NoState =>
    \/ Now = legacy
    \/ legacy = "INSUFFICIENT_EVIDENCE" /\ Now = "ISSUE_NOT_REPRODUCED" /\ stored.mode = Skip

(* The policy: procedure definitions alone do not permit a provider call   *)
(* (docs/evidence-gate-policy.md).  normalize_verified_evidence counts     *)
(* them like rows.                                                         *)
DefinitionsAloneDenied == attempt > 0 => finding.gate.evidence = "sql"
=============================================================================
