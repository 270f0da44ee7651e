-------------------------- MODULE EvidenceReasoning --------------------------
(***************************************************************************)
(* What one run of the investigation pipeline concludes from the evidence  *)
(* it collected: the evidence gate, the dispatch of the reasoning, the     *)
(* deterministic reasoning, the acceptance of what the provider says, and  *)
(* the outcome derived from all that.  Only decisions are here, no state;  *)
(* AskInvestigation takes them in the order the request does.              *)
(***************************************************************************)
EXTENDS InvestigationStates

(* Intents by what the gate does with them: linked (production, failed     *)
(* batch), missing data, unlinked (duplicates, process flow, performance:  *)
(* no relationship needed), a general question with or without causal      *)
(* wording, and the intents the gate does not know.                        *)
Questions == {"linked", "missing", "unlinked", "causal", "factual", "other"}

(* What the collected evidence shows: its best kind (SQL results, or only  *)
(* the text of procedures), a verified absence among the categories,       *)
(* negative evidence relevant to the question, failed queries, the four    *)
(* conditions of the gate, and whether any planned query was validated.    *)
Facts ==
  [question : Questions, evidence : {"none", "definition", "sql"},
   absence : BOOLEAN, negative : BOOLEAN, failures : BOOLEAN,
   condition : BOOLEAN, key : BOOLEAN, affected : BOOLEAN, related : BOOLEAN,
   planned : BOOLEAN]

Possible(f) ==
  /\ f.absence \/ f.negative => f.evidence = "sql"
  /\ f.negative => f.question \in {"missing", "unlinked"}

-----------------------------------------------------------------------------
(* run_evidence_gate.                                                      *)
Required(f) == f.question \notin {"factual", "other"}

ConditionExists(f) == f.condition \/ (f.question = "missing" /\ f.negative)

Reproduced(f) ==
  /\ Required(f)
  /\ f.key
  /\ f.affected \/ f.negative
  /\ ConditionExists(f)
  /\ f.related \/ f.question = "unlinked"

Gate(f) ==
  [required |-> Required(f), reproduced |-> Reproduced(f),
   condition |-> ConditionExists(f), evidence |-> f.evidence,
   absence |-> f.absence, factual |-> f.question \in {"causal", "factual"}]

-----------------------------------------------------------------------------
(* dispatch_reasoning.  Its EVIDENCE_GAP_SUMMARY is out of reach: a        *)
(* condition that is verified, for a request that is not factual, is       *)
(* always NORMAL_ROOT_CAUSE.                                               *)
Allow == "ALLOW_REASONING"
Deny  == "DENY_REASONING"
Normal  == "NORMAL_ROOT_CAUSE"
Summary == "EVIDENCE_SUMMARY_NOT_REPRODUCED"
Skip    == "SKIP_NO_VERIFIED_EVIDENCE"

Permission(g) == IF g.evidence = "none" THEN Deny ELSE Allow

(* Fault: a verified absence does not count against the condition.         *)
ConditionAssumed(g) == g.reproduced \/ g.condition

ConditionVerified(g) == g.reproduced \/ (g.condition /\ ~g.absence)

ReasoningMode(g) ==
  CASE Permission(g) = Deny -> Skip
    [] Permission(g) = Allow /\ ConditionVerified(g) /\ ~g.factual -> Normal
    [] OTHER -> Summary

(* A procedure run whose NULL result its definition explains is dispatched *)
(* by the caller, as behaviour that was expected.                          *)
Dispatch(g, cause) ==
  IF cause = "expected"
    THEN [permission |-> Allow, mode |-> Summary, invoke |-> FALSE,
          reproduced |-> FALSE]
    ELSE [permission |-> Permission(g), mode |-> ReasoningMode(g),
          invoke |-> Permission(g) = Allow,
          reproduced |-> ConditionVerified(g) /\ ReasoningMode(g) # Summary]

-----------------------------------------------------------------------------
(* The reasoning: its response_type and whether one of its causes is       *)
(* VERIFIED.                                                               *)
Confirmed     == "confirmed_root_cause"
Insufficient  == "insufficient_evidence"
NotReproduced == "evidence_summary_not_reproduced"

Reasoning ==
  [type : {Confirmed, Insufficient, NotReproduced,
           "multiple_possible_causes", "inconclusive_verified_null"},
   verified : BOOLEAN]

(* A verified row exclusion or causal candidate, or an expected NULL, wins *)
(* over the diagnosis, which is only made in the normal mode.              *)
Causes == {"none", "verified", "expected"}
Diagnoses ==
  {[type |-> Confirmed, verified |-> TRUE]} \cup
  [type : {Insufficient, "multiple_possible_causes", "inconclusive_verified_null"},
   verified : {FALSE}]

Deterministic(mode, cause) ==
  CASE cause # "none"                    -> {[type |-> Confirmed, verified |-> TRUE]}
    [] cause = "none" /\ mode = Normal   -> Diagnoses
    [] cause = "none" /\ mode # Normal   -> {[type |-> NotReproduced, verified |-> FALSE]}

(* The provider's claims after their verification (claims that only name   *)
(* an evidence gap are generated, and neither verified nor rejected).      *)
Claims == {c \in [generated : BOOLEAN, verified : BOOLEAN, rejected : BOOLEAN] :
             c.verified \/ c.rejected => c.generated}

(* _merge_llm_reasoning, and the summary mode's return to the              *)
(* deterministic causes behind it.                                         *)
Merge(mode, r, c) ==
  IF mode = Normal THEN [r EXCEPT !.verified = @ \/ c.verified] ELSE r

(* Is what enhance_reasoning_with_llm returned used as the answer?         *)
Used(mode, c) == mode = Summary \/ c.verified

InvocationStatus(c) ==
  CASE ~c.generated -> "completed_zero_claims"
    [] c.generated /\ ~c.verified -> "completed_no_verified_claims"
    [] c.verified -> "completed"

(* finalize_evidence_backed_response_type.                                 *)
Finalize(r, g, failures, rejected) ==
  IF failures THEN [r EXCEPT !.type = Insufficient]
  ELSE IF r.verified /\ (r.type = Confirmed \/ g.reproduced) THEN [r EXCEPT !.type = Confirmed]
  ELSE IF g.reproduced /\ (g.required \/ rejected) THEN [r EXCEPT !.type = Insufficient]
  ELSE IF g.required /\ ~g.reproduced THEN [r EXCEPT !.type = NotReproduced]
  ELSE r

(* compose_report_outcome: does the report present a verified root cause?  *)
ReportsCause(r) == r.type = Confirmed \/ r.verified

(* _answer_provenance.                                                     *)
Provenance(mode, used, status, asked, enabled) ==
  IF mode = Summary /\ used THEN "AI_SUMMARIZED_NOT_REPRODUCED"
  ELSE IF mode = Skip THEN "AI_SKIPPED_BY_EVIDENCE_GATE"
  ELSE IF used THEN "AI_ANSWERED"
  ELSE IF status \in {"completed_zero_claims", "completed_no_verified_claims"}
    THEN "AI_REASONING_UNVERIFIED"
  ELSE IF asked THEN "AI_INVOCATION_FAILED"
  ELSE IF enabled THEN "AI_SKIPPED_BY_POLICY" ELSE "DETERMINISTIC_ANSWERED"

-----------------------------------------------------------------------------
(* The outcome: s has the fields status, mode, reproduction, permission,   *)
(* outcome (ai_outcome), cause (root_cause_requirements_satisfied),        *)
(* counted (verified_evidence_count is not 0) and insufficient.            *)
SaysNotReproduced(s) == s.mode = Summary \/ s.outcome = NotReproduced

(* Fault: an unmet root-cause requirement is left undecided.               *)
CanonicalUndecided(s) ==
  IF s.status = "AI_SKIPPED_BY_POLICY" THEN "POLICY_BLOCKED"
  ELSE IF s.reproduction = "not_reproduced" \/ SaysNotReproduced(s) THEN "ISSUE_NOT_REPRODUCED"
  ELSE IF s.insufficient \/ s.mode = Skip \/ ~s.counted THEN "INSUFFICIENT_EVIDENCE"
  ELSE IF s.reproduction = "reproduced" /\ s.permission = Allow /\ s.cause = "met"
    THEN "ROOT_CAUSE_CONFIRMED"
  ELSE NoState

(* resolve_canonical_terminal_outcome; NoState stands for None.            *)
CanonicalOutcome(s) ==
  IF s.status = "AI_SKIPPED_BY_POLICY" THEN "POLICY_BLOCKED"
  ELSE IF s.reproduction = "not_reproduced" \/ SaysNotReproduced(s) THEN "ISSUE_NOT_REPRODUCED"
  ELSE IF \/ s.insufficient \/ s.status = "INSUFFICIENT_DATABASE_EVIDENCE"
          \/ s.outcome = Insufficient \/ s.mode = Skip \/ ~s.counted
    THEN "INSUFFICIENT_EVIDENCE"
  ELSE IF s.reproduction = "reproduced" /\ s.permission = Allow /\ s.cause = "met"
    THEN "ROOT_CAUSE_CONFIRMED"
  ELSE IF s.reproduction = "reproduced" /\ s.cause = "unmet" THEN "INSUFFICIENT_EVIDENCE"
  ELSE NoState

(* Fault: the reasoning mode is asked before the policy.                   *)
LegacyModeFirst(s) ==
  IF s.status = "AI_SUMMARIZED_NOT_REPRODUCED" \/ SaysNotReproduced(s)
    THEN "ISSUE_NOT_REPRODUCED"
  ELSE IF s.status = "AI_SKIPPED_BY_POLICY" THEN "POLICY_BLOCKED"
  ELSE NoState

(* resolve_legacy_terminal_outcome, which reads the stored row alone.      *)
LegacyOutcome(s) ==
  IF s.status = "AI_SUMMARIZED_NOT_REPRODUCED" THEN "ISSUE_NOT_REPRODUCED"
  ELSE IF s.status = "INSUFFICIENT_DATABASE_EVIDENCE" THEN "INSUFFICIENT_EVIDENCE"
  ELSE IF s.status = "AI_SKIPPED_BY_POLICY" THEN "POLICY_BLOCKED"
  ELSE IF SaysNotReproduced(s) THEN "ISSUE_NOT_REPRODUCED"
  ELSE IF s.mode = Skip \/ s.outcome = Insufficient THEN "INSUFFICIENT_EVIDENCE"
  ELSE NoState
=============================================================================
