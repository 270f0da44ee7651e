------------------------ MODULE InvestigationStates ------------------------
(***************************************************************************)
(* The states of an investigation and the transitions between them         *)
(* (services/investigation_state_machine.py).  Everything that moves an    *)
(* investigation (the ledger, the agentic loop, the terminal-outcome       *)
(* service) goes through this relation, so it has a module of its own.     *)
(***************************************************************************)
EXTENDS Naturals, Sequences

TransientStates ==
  { "INITIALIZATION", "EVIDENCE_ASSESSMENT", "GAP_IDENTIFICATION",
    "ACTION_SELECTION", "PLANNING", "VALIDATION", "EXECUTION",
    "VERIFICATION", "STATE_UPDATE", "STOP_EVALUATION" }

TerminalStates ==
  { "ROOT_CAUSE_CONFIRMED", "ISSUE_NOT_REPRODUCED", "INSUFFICIENT_EVIDENCE",
    "BLOCKED_BY_MISSING_SOURCE", "QUERY_BUDGET_EXHAUSTED",
    "ITERATION_BUDGET_EXHAUSTED", "POLICY_BLOCKED", "FAILED", "CANCELLED" }

InvestigationState == TransientStates \cup TerminalStates

(* previous_state of the first row: the column holds "", the API None.     *)
NoState == "NONE"

FailOrCancel == {"FAILED", "CANCELLED"}

(* ALLOWED_TRANSITIONS.  A terminal state has no entry in the dictionary,  *)
(* which .get(previous_state, frozenset()) reads as the empty set.         *)
AllowedTransitions ==
  [s \in InvestigationState |->
     CASE s = "INITIALIZATION" -> {"EVIDENCE_ASSESSMENT"} \cup FailOrCancel
       [] s = "EVIDENCE_ASSESSMENT" ->
            {"GAP_IDENTIFICATION", "ROOT_CAUSE_CONFIRMED",
             "ISSUE_NOT_REPRODUCED", "INSUFFICIENT_EVIDENCE"} \cup FailOrCancel
       [] s = "GAP_IDENTIFICATION" ->
            {"ACTION_SELECTION", "BLOCKED_BY_MISSING_SOURCE",
             "INSUFFICIENT_EVIDENCE"} \cup FailOrCancel
       [] s = "ACTION_SELECTION" ->
            {"PLANNING", "INSUFFICIENT_EVIDENCE", "BLOCKED_BY_MISSING_SOURCE",
             "QUERY_BUDGET_EXHAUSTED", "ITERATION_BUDGET_EXHAUSTED",
             "POLICY_BLOCKED"} \cup FailOrCancel
       [] s = "PLANNING" ->
            {"VALIDATION", "STATE_UPDATE", "POLICY_BLOCKED"} \cup FailOrCancel
       [] s = "VALIDATION" ->
            {"EXECUTION", "STATE_UPDATE", "POLICY_BLOCKED"} \cup FailOrCancel
       [] s = "EXECUTION" ->
            {"VERIFICATION", "QUERY_BUDGET_EXHAUSTED"} \cup FailOrCancel
       [] s = "VERIFICATION" -> {"STATE_UPDATE"} \cup FailOrCancel
       [] s = "STATE_UPDATE" -> {"STOP_EVALUATION"} \cup FailOrCancel
       [] s = "STOP_EVALUATION" -> {"EVIDENCE_ASSESSMENT"} \cup TerminalStates
       [] OTHER -> {}]

(* validate_transition: does not raise.                                    *)
ValidTransition(previous, next) ==
  /\ previous \notin TerminalStates
  /\ next \in AllowedTransitions[previous]

(* The iteration number a transition is recorded with: starting another    *)
(* controlled iteration is the only transition that counts up.             *)
IterationAfter(iteration, previous, next) ==
  IF previous = "STOP_EVALUATION" /\ next = "EVIDENCE_ASSESSMENT"
    THEN iteration + 1
    ELSE iteration

(* Rows of the ledger are records with the fields prev, cur and iter       *)
(* (previous_state, current_state, iteration_number).  Row b is a legal    *)
(* successor of row a:                                                     *)
Continues(a, b) ==
  /\ b.prev = a.cur
  /\ ValidTransition(a.cur, b.cur)
  /\ b.iter = IterationAfter(a.iter, a.cur, b.cur)

(* The row initialize() persists.                                          *)
StartsLifecycle(row) ==
  /\ row.prev = NoState
  /\ row.cur = "INITIALIZATION"
  /\ row.iter = 0

IsLifecycle(h) ==
  \A i \in 1..Len(h) :
     IF i = 1 THEN StartsLifecycle(h[1]) ELSE Continues(h[i - 1], h[i])
=============================================================================
