---------------------------- MODULE ProviderCircuit ----------------------------
(***************************************************************************)
(* The circuit breaker in front of the LLM provider, one per process       *)
(* (_ProviderCircuitBreaker of services/llm_reasoning_service.py).         *)
(* opened_at and the clock are abstracted to three values: not open, open, *)
(* and open with the cooldown over, which only the next call notices.      *)
(***************************************************************************)
EXTENDS Naturals

CONSTANT Threshold      \* llm_circuit_breaker_threshold

ASSUME ThresholdAssumption == Threshold \in Nat \ {0}

VARIABLES
    circuit,    \* "closed", "open" or "cooled"
    failures    \* transient failures in a row

circuitVars == <<circuit, failures>>

CircuitTypeOK == circuit \in {"closed", "open", "cooled"} /\ failures \in Nat

CircuitInit == circuit = "closed" /\ failures = 0

CoolDown == circuit = "open" /\ circuit' = "cooled" /\ UNCHANGED failures

Reset == circuit' = "closed" /\ failures' = 0

\* before_call, when it lets the call through.
BeforeCall ==
    /\ circuit # "open"
    /\ IF circuit = "cooled" THEN Reset ELSE UNCHANGED circuitVars

\* Fault: the count is cleared and the circuit left as it is.
SuccessClearsCount == failures' = 0 /\ UNCHANGED circuit

\* success, also of a call submitted before the circuit opened.
Success == Reset

TransientFailure ==
    /\ failures' = failures + 1
    /\ circuit' = IF failures + 1 >= Threshold THEN "open" ELSE circuit
=============================================================================
