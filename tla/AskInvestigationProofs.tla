----------------------- MODULE AskInvestigationProofs -----------------------
(***************************************************************************)
(* Proofs about one request to POST /chat/ask, for any number of provider  *)
(* attempts.  AskInv says what the run's decision, reasoning, trace and    *)
(* payload have in common at each point of the pipeline, and that ledger   *)
(* and path together are the way to the outcome of the signals; what the   *)
(* row, the ledger, the audit outcome and the reader say follows from it   *)
(* by the operators of EvidenceReasoning alone.                            *)
(***************************************************************************)
EXTENDS AskInvestigation, SequenceTheorems, TLAPS

(* Before the session stores anything.                                     *)
SessionIsClear == stored = NotStored /\ ledger = <<>> /\ path = <<>>

RunIsClear ==
  /\ finding = NoFindings /\ decision = NoDecision /\ reasoning = NoReasoning
  /\ trace = NoTrace /\ attempt = 0 /\ written = 0

(* What dispatch_reasoning decided, whatever it was called for.            *)
Decided ==
  /\ finding.gate.evidence \in {"none", "definition", "sql"}
  /\ decision.mode \in {Normal, Summary, Skip}
  /\ decision.mode = Normal => decision.permission = Allow
  /\ decision.reproduced \in BOOLEAN
  /\ decision.reproduced =>
       decision.mode # Summary /\ ConditionVerified(finding.gate)

(* Outside the normal mode nothing but a verified cause is a diagnosis.    *)
Reasoned ==
  decision.mode # Normal /\ ~reasoning.verified => reasoning.type = NotReproduced

(* A request is in flight, or about to be sent.                            *)
Asking ==
  /\ Decided /\ Reasoned /\ ~reasoning.verified
  /\ trace.asked /\ trace.outcome = "unset" /\ ~trace.used

(* What the trace tells of a run that is over: requests were sent only if  *)
(* it says so, one that was asked for and never sent is a failure of the   *)
(* provider, and an answer that was used had no verified cause before it.  *)
Traced ==
  /\ attempt > 0 => trace.asked
  /\ trace.asked /\ attempt = 0 => trace.outcome = "provider_failure"
  /\ trace.used /\ decision.mode = Summary =>
       ~reasoning.verified /\ reasoning.type \in {NotReproduced, Insufficient}

(* A payload of a run that came all the way, and one of an early end.      *)
FullPayload ==
  /\ payload.full
  /\ Decided /\ Traced
  /\ payload.provenance \in
       {"AI_SUMMARIZED_NOT_REPRODUCED", "AI_SKIPPED_BY_EVIDENCE_GATE", "AI_ANSWERED",
        "AI_REASONING_UNVERIFIED", "AI_INVOCATION_FAILED", "AI_SKIPPED_BY_POLICY",
        "DETERMINISTIC_ANSWERED"}
  /\ payload.provenance = "AI_SUMMARIZED_NOT_REPRODUCED" =>
       decision.mode = Summary /\ trace.used
  /\ payload.intent \in {"plain", "EVIDENCE_PLANNING_FAILED"}

EarlyPayload ==
  /\ RunIsClear
  /\ payload.full = FALSE
  /\ payload.provenance = NoState
  /\ payload.intent \in {"plain", "insufficient"}

(* The states a ledger goes through from its initialization to an outcome; *)
(* some of them it has, the others are still to come.                      *)
Way(outcome) ==
  IF outcome = "POLICY_BLOCKED"
    THEN <<"INITIALIZATION", "EVIDENCE_ASSESSMENT", "GAP_IDENTIFICATION",
           "ACTION_SELECTION", outcome>>
    ELSE <<"INITIALIZATION", "EVIDENCE_ASSESSMENT", outcome>>

OnTheWay(way) ==
  /\ Len(way) = Len(ledger) + Len(path)
  /\ \A i \in 1..Len(ledger) : ledger[i] = way[i]
  /\ \A i \in 1..Len(path) : path[i] = way[Len(ledger) + i]

(* The row says what the signals say, and the ledger is on its way to the  *)
(* outcome they resolve to.                                                *)
Stored ==
  /\ stored = [status |-> Status, outcome |-> AiOutcome, audit |-> AuditOutcome,
               mode |-> decision.mode, claims |-> payload.full /\ ReportsCause(reasoning)]
  /\ IF config.agentic
       THEN /\ ledger # <<>>
            /\ OnTheWay(Way(CanonicalOutcome(Signals)))
       ELSE ledger = <<>> /\ path = <<>>

AskInv ==
  /\ AskTypeOK
  /\ at \in {"start", "running", "refused", "failed"} => RunIsClear
  /\ at \in {"start", "running", "asking", "waiting", "composing", "payload", "refused",
             "failed"} => SessionIsClear
  /\ at = "asking" => Asking /\ attempt < MaxAttempts
  /\ at = "waiting" => Asking /\ attempt > 0
  /\ at = "composing" => Decided /\ Reasoned /\ Traced
  /\ at \in {"payload", "concluding", "answered"} => FullPayload \/ EarlyPayload
  /\ at \in {"concluding", "answered"} => Stored
  /\ at = "answered" => path = <<>>

-----------------------------------------------------------------------------
(* Whatever its signals, an investigation that has a payload is resolved.  *)
Outcomes == {"POLICY_BLOCKED", "ISSUE_NOT_REPRODUCED", "INSUFFICIENT_EVIDENCE",
             "ROOT_CAUSE_CONFIRMED"}

LEMMA SignalFields ==
  /\ Signals.status = Status /\ Signals.mode = decision.mode
  /\ Signals.outcome = AiOutcome /\ Signals.permission = decision.permission
  /\ Signals.reproduction = IF ~payload.full THEN "none"
                            ELSE IF decision.reproduced THEN "reproduced"
                            ELSE "not_reproduced"
  /\ Signals.cause = IF ~payload.full THEN "none"
                     ELSE IF reasoning.verified THEN "met" ELSE "unmet"
  /\ Signals.counted = (finding.gate.evidence # "none")
  /\ Signals.insufficient = (payload.intent # "plain")
  BY DEF Signals

LEMMA Resolved ==
  ASSUME FullPayload \/ EarlyPayload
  PROVE  CanonicalOutcome(Signals) \in Outcomes
  <1>1. CASE EarlyPayload
    <2>1. finding.gate.evidence = "none"
      BY <1>1 DEF EarlyPayload, RunIsClear, NoFindings, NoGate
    <2> QED BY <2>1, SignalFields DEF CanonicalOutcome, Outcomes
  <1>2. CASE FullPayload
    <2>1. /\ Signals.reproduction = "reproduced" \/ Signals.reproduction = "not_reproduced"
          /\ Signals.cause = "met" \/ Signals.cause = "unmet"
      BY <1>2, SignalFields DEF FullPayload
    <2>2. Signals.mode \in {Normal, Summary, Skip}
          /\ (Signals.mode = Normal => Signals.permission = Allow)
      BY <1>2, SignalFields DEF FullPayload, Decided
    <2> QED BY <2>1, <2>2 DEF CanonicalOutcome, SaysNotReproduced, Outcomes
  <1> QED BY <1>1, <1>2

(* The way to an outcome, and that the relation allows every step of it.   *)
LEMMA WayStates ==
  ASSUME NEW o \in Outcomes
  PROVE  /\ Way(o) \in Seq(InvestigationState) /\ Len(Way(o)) \in {3, 5}
         /\ Way(o)[1] = "INITIALIZATION" /\ Way(o)[Len(Way(o))] = o
         /\ \A i \in 1..(Len(Way(o)) - 1) : ValidTransition(Way(o)[i], Way(o)[i + 1])
         /\ TerminalPath(o) \in Seq(InvestigationState)
         /\ Len(Way(o)) = Len(TerminalPath(o)) + 1
         /\ \A i \in 1..Len(TerminalPath(o)) : TerminalPath(o)[i] = Way(o)[i + 1]
  <1>1. CASE o = "POLICY_BLOCKED"
    <2>1. /\ Way(o) = <<"INITIALIZATION", "EVIDENCE_ASSESSMENT", "GAP_IDENTIFICATION",
                        "ACTION_SELECTION", "POLICY_BLOCKED">>
          /\ TerminalPath(o) = <<"EVIDENCE_ASSESSMENT", "GAP_IDENTIFICATION",
                                 "ACTION_SELECTION", "POLICY_BLOCKED">>
      BY <1>1 DEF Way, TerminalPath, NoState
    <2>2. /\ ValidTransition("INITIALIZATION", "EVIDENCE_ASSESSMENT")
          /\ ValidTransition("EVIDENCE_ASSESSMENT", "GAP_IDENTIFICATION")
          /\ ValidTransition("GAP_IDENTIFICATION", "ACTION_SELECTION")
          /\ ValidTransition("ACTION_SELECTION", "POLICY_BLOCKED")
      BY DEF ValidTransition, AllowedTransitions, TerminalStates, TransientStates,
             InvestigationState, FailOrCancel
    <2>3. /\ Way(o) \in Seq(InvestigationState) /\ Len(Way(o)) = 5
          /\ TerminalPath(o) \in Seq(InvestigationState) /\ Len(TerminalPath(o)) = 4
      BY <2>1 DEF InvestigationState, TransientStates, TerminalStates
    <2>4. \A i \in 1..4 : i \in {1, 2, 3, 4}
      OBVIOUS
    <2>5. \A i \in 1..4 : ValidTransition(Way(o)[i], Way(o)[i + 1])
      BY <2>1, <2>2, <2>4
    <2>6. \A i \in 1..4 : TerminalPath(o)[i] = Way(o)[i + 1]
      BY <2>1, <2>4
    <2>7. Way(o)[1] = "INITIALIZATION" /\ Way(o)[5] = o
      BY <1>1, <2>1
    <2> QED BY <2>3, <2>5, <2>6, <2>7
  <1>2. CASE o # "POLICY_BLOCKED"
    <2>1. /\ Way(o) = <<"INITIALIZATION", "EVIDENCE_ASSESSMENT", o>>
          /\ TerminalPath(o) = <<"EVIDENCE_ASSESSMENT", o>>
      BY <1>2 DEF Way, TerminalPath, NoState, Outcomes
    <2>2. /\ ValidTransition("INITIALIZATION", "EVIDENCE_ASSESSMENT")
          /\ ValidTransition("EVIDENCE_ASSESSMENT", o)
      BY <1>2 DEF Outcomes, ValidTransition, AllowedTransitions, TerminalStates,
             TransientStates, InvestigationState, FailOrCancel
    <2>3. o \in InvestigationState
      BY DEF Outcomes, InvestigationState, TransientStates, TerminalStates
    <2>4. /\ Way(o) \in Seq(InvestigationState) /\ Len(Way(o)) = 3
          /\ TerminalPath(o) \in Seq(InvestigationState) /\ Len(TerminalPath(o)) = 2
      BY <2>1, <2>3 DEF InvestigationState, TransientStates, TerminalStates
    <2>5. \A i \in 1..2 : i \in {1, 2}
      OBVIOUS
    <2>6. \A i \in 1..2 : ValidTransition(Way(o)[i], Way(o)[i + 1])
      BY <2>1, <2>2, <2>5
    <2>7. \A i \in 1..2 : TerminalPath(o)[i] = Way(o)[i + 1]
      BY <2>1, <2>5
    <2> QED BY <2>1, <2>4, <2>6, <2>7
  <1> QED BY <1>1, <1>2

(* The signals depend on nothing but the run and the payload.              *)
LEMMA SignalsStay ==
  ASSUME UNCHANGED <<config, finding, decision, reasoning, trace, payload>>
  PROVE  /\ Status' = Status /\ AiOutcome' = AiOutcome /\ AuditOutcome' = AuditOutcome
         /\ Signals' = Signals
  <1>1. Status' = Status BY DEF Status
  <1>2. AiOutcome' = AiOutcome BY DEF AiOutcome
  <1>3. AuditOutcome' = AuditOutcome BY <1>1, <1>2 DEF AuditOutcome
  <1>4. Signals' = Signals BY <1>1, <1>2 DEF Signals
  <1> QED BY <1>1, <1>2, <1>3, <1>4

-----------------------------------------------------------------------------
LEMMA AskInitial == AskInit => AskInv
  <1> SUFFICES ASSUME AskInit PROVE AskInv
    OBVIOUS
  <1>1. AskTypeOK
    BY AttemptsAssumption DEF AskInit, AskTypeOK, NoReasoning, Reasoning, NoTrace, Trace
  <1> QED BY <1>1 DEF AskInit, AskInv, RunIsClear, SessionIsClear

LEMMA BeginStep ==
  ASSUME AskInv, Refuse \/ BeginRun
  PROVE  AskInv'
  BY DEF AskInv, Refuse, BeginRun, AskTypeOK, RunIsClear, SessionIsClear, runVars, sessionVars

LEMMA EarlyStep ==
  ASSUME AskInv, NEW intent \in {"plain", "insufficient"}, EndEarly(intent)
  PROVE  AskInv'
  <1>1. /\ at = "running" /\ at' = "payload"
        /\ payload' = [NoPayload EXCEPT !.intent = intent]
        /\ UNCHANGED <<config, finding, decision, reasoning, trace, attempt, written,
                       stored, ledger, path>>
    BY DEF EndEarly, runVars, sessionVars
  <1>2. AskTypeOK' /\ SessionIsClear'
    BY <1>1 DEF AskInv, AskTypeOK, SessionIsClear
  <1>3. EarlyPayload'
    BY <1>1 DEF AskInv, EarlyPayload, RunIsClear, NoPayload
  <1> QED BY <1>1, <1>2, <1>3 DEF AskInv

(* What a decision may be, for any gate and any cause.                     *)
LEMMA GateType ==
  ASSUME NEW e \in Findings
  PROVE  /\ e.gate.evidence \in {"none", "definition", "sql"}
         /\ e.gate.reproduced \in BOOLEAN /\ e.gate.condition \in BOOLEAN
         /\ e.gate.absence \in BOOLEAN
  <1>1. PICK f \in Facts : e.gate = Gate(f)
    BY DEF Findings
  <1>2. /\ f.evidence \in {"none", "definition", "sql"}
        /\ f.condition \in BOOLEAN /\ f.absence \in BOOLEAN /\ f.negative \in BOOLEAN
    BY DEF Facts
  <1>3. Reproduced(f) \in BOOLEAN /\ ConditionExists(f) \in BOOLEAN
    BY <1>2 DEF Reproduced, Required, ConditionExists
  <1> QED BY <1>1, <1>2, <1>3 DEF Gate

LEMMA DispatchDecides ==
  ASSUME NEW e \in Findings, NEW cause \in Causes
  PROVE  LET d == Dispatch(e.gate, cause) IN
         /\ d.mode \in {Normal, Summary, Skip}
         /\ d.mode = Normal => d.permission = Allow
         /\ d.reproduced \in BOOLEAN
         /\ d.reproduced => d.mode # Summary /\ ConditionVerified(e.gate)
  BY GateType DEF Dispatch, ReasoningMode, Permission, ConditionVerified,
                  Normal, Summary, Skip, Allow, Deny

LEMMA DeterministicType ==
  ASSUME NEW mode \in {Normal, Summary, Skip}, NEW cause \in Causes,
         NEW r \in Deterministic(mode, cause)
  PROVE  /\ r \in Reasoning
         /\ mode # Normal /\ ~r.verified => r.type = NotReproduced
  <1>1. CASE cause # "none"
    <2>1. r = [type |-> Confirmed, verified |-> TRUE]
      BY <1>1 DEF Deterministic
    <2> QED BY <2>1 DEF Reasoning
  <1>2. CASE cause = "none" /\ mode = Normal
    <2>1. r \in Diagnoses
      BY <1>2 DEF Deterministic
    <2>2. CASE r = [type |-> Confirmed, verified |-> TRUE]
      BY <1>2, <2>2 DEF Reasoning
    <2>3. CASE r \in [type : {Insufficient, "multiple_possible_causes",
                             "inconclusive_verified_null"}, verified : {FALSE}]
      BY <1>2, <2>3 DEF Reasoning
    <2> QED BY <2>1, <2>2, <2>3 DEF Diagnoses
  <1>3. CASE cause = "none" /\ mode # Normal
    <2>1. r = [type |-> NotReproduced, verified |-> FALSE]
      BY <1>3 DEF Deterministic
    <2> QED BY <2>1 DEF Reasoning
  <1> QED BY <1>1, <1>2, <1>3

(* The trace as it is opened has its type, and asks only where it may.     *)
Opened(a, i, o) == [NoTrace EXCEPT !.asked = a, !.invocation = i, !.outcome = o]

LEMMA TraceType ==
  ASSUME NEW a \in BOOLEAN, NEW i \in {"pending", "skipped_by_evidence_gate", "skipped"},
         NEW o \in {"unset", "deterministic_verified_root_cause", "evidence_gate"}
  PROVE  /\ Opened(a, i, o) \in Trace /\ ~Opened(a, i, o).used
         /\ Opened(a, i, o).asked = a /\ Opened(a, i, o).outcome = o
  BY DEF Opened, NoTrace, Trace

LEMMA OpeningType ==
  ASSUME NEW d, NEW r
  PROVE  LET t == OpeningTrace(d, r) IN
         /\ t \in Trace /\ ~t.used
         /\ t.asked <=> MayAsk(d, r) /\ config.ai /\ config.key
         /\ t.outcome = "unset" <=> MayAsk(d, r)
  <1> DEFINE a == MayAsk(d, r) /\ config.ai /\ config.key
             i == IF ~MayAsk(d, r) THEN "skipped_by_evidence_gate"
                  ELSE IF config.ai /\ config.key THEN "pending" ELSE "skipped"
             o == IF MayAsk(d, r) THEN "unset"
                  ELSE IF r.verified THEN "deterministic_verified_root_cause"
                  ELSE "evidence_gate"
  <1>1. /\ a \in BOOLEAN
        /\ i \in {"pending", "skipped_by_evidence_gate", "skipped"}
        /\ o \in {"unset", "deterministic_verified_root_cause", "evidence_gate"}
        /\ o = "unset" <=> MayAsk(d, r)
    OBVIOUS
  <1>2. OpeningTrace(d, r) = Opened(a, i, o)
    BY Zenon DEF OpeningTrace, Opened
  <1> HIDE DEF a, i, o
  <1>3. LET t == OpeningTrace(d, r) IN
        t \in Trace /\ ~t.used /\ t.asked = a /\ t.outcome = o
    BY <1>1, <1>2, TraceType
  <1>4. a <=> MayAsk(d, r) /\ config.ai /\ config.key
    BY DEF a
  <1> QED BY <1>1, <1>3, <1>4

LEMMA DeliberateStep ==
  ASSUME AskInv, Deliberate
  PROVE  AskInv'
  <1>1. PICK e \in Findings, cause \in Causes :
          LET d == Dispatch(e.gate, cause) IN
          /\ finding' = e /\ decision' = d
          /\ \E r \in Deterministic(d.mode, cause) :
               /\ reasoning' = r
               /\ trace' = OpeningTrace(d, r)
               /\ at' = IF MayAsk(d, r) /\ config.ai /\ config.key
                          THEN "asking" ELSE "composing"
    BY DEF Deliberate
  <1>2. /\ at = "running"
        /\ UNCHANGED <<config, attempt, written, payload, stored, ledger, path>>
        /\ attempt = 0 /\ written = 0 /\ SessionIsClear
    BY DEF Deliberate, sessionVars, AskInv, RunIsClear
  <1>3. Decided'
    BY <1>1, GateType, DispatchDecides DEF Decided, ConditionVerified
  <1>4. Reasoned' /\ reasoning' \in Reasoning
    BY <1>1, DispatchDecides, DeterministicType DEF Reasoned
  <1>5. AskTypeOK' /\ SessionIsClear'
    BY <1>1, <1>2, <1>4, OpeningType DEF AskInv, AskTypeOK, SessionIsClear
  <1>6. /\ trace' = OpeningTrace(decision', reasoning')
        /\ at' = IF MayAsk(decision', reasoning') /\ config.ai /\ config.key
                   THEN "asking" ELSE "composing"
    BY <1>1
  <1>7. CASE MayAsk(decision', reasoning') /\ config.ai /\ config.key
    <2>1. Asking'
      BY <1>3, <1>4, <1>6, <1>7, OpeningType DEF Asking, MayAsk
    <2> QED BY <1>2, <1>5, <1>6, <1>7, <2>1, AttemptsAssumption DEF AskInv
  <1>8. CASE ~(MayAsk(decision', reasoning') /\ config.ai /\ config.key)
    <2>1. Traced'
      BY <1>2, <1>6, <1>8, OpeningType DEF Traced
    <2> QED BY <1>3, <1>4, <1>5, <1>6, <1>8, <2>1 DEF AskInv
  <1> QED BY <1>7, <1>8

-----------------------------------------------------------------------------
(* The provider.                                                           *)
LEMMA SubmitStep ==
  ASSUME AskInv, SubmitCall
  PROVE  AskInv'
  <1>1. /\ at = "asking" /\ at' = "waiting" /\ attempt' = attempt + 1
        /\ written' \in {written, written + 1}
        /\ UNCHANGED <<config, finding, decision, reasoning, trace, payload, stored, ledger,
                       path>>
    BY DEF SubmitCall, sessionVars
  <1>2. AskTypeOK'
    BY <1>1, AttemptsAssumption DEF AskInv, AskTypeOK
  <1>3. Asking' /\ SessionIsClear' /\ attempt' > 0
    BY <1>1 DEF AskInv, AskTypeOK, Asking, Decided, Reasoned, SessionIsClear
  <1> QED BY <1>1, <1>2, <1>3 DEF AskInv

LEMMA TryAgainStep ==
  ASSUME AskInv, TryAgain
  PROVE  AskInv'
  BY DEF AskInv, TryAgain, AskTypeOK, Asking, Decided, Reasoned, SessionIsClear, runVars,
         sessionVars

LEMMA FailedCallStep ==
  ASSUME AskInv, CallRefused \/ GiveUpCall
  PROVE  AskInv'
  <1>1. /\ at \in {"asking", "waiting"} /\ at' = "composing"
        /\ trace' = [trace EXCEPT !.outcome = "provider_failure",
                                  !.invocation = "provider_failure"]
        /\ UNCHANGED <<config, finding, decision, reasoning, attempt, written, payload,
                       stored, ledger, path>>
    BY DEF CallRefused, GiveUpCall, ProviderFailed, sessionVars
  <1>2. AskTypeOK' /\ SessionIsClear'
    BY <1>1 DEF AskInv, AskTypeOK, Trace, SessionIsClear
  <1>3. Decided' /\ Reasoned'
    BY <1>1 DEF AskInv, Asking, Decided, Reasoned
  <1>4. trace'.asked /\ ~trace'.used /\ trace'.outcome = "provider_failure"
    BY <1>1 DEF AskInv, AskTypeOK, Trace, Asking
  <1>5. Traced'
    BY <1>4 DEF Traced
  <1> QED BY <1>1, <1>2, <1>3, <1>5 DEF AskInv

(* Merging keeps the type of the reasoning, and in a mode other than the   *)
(* normal one everything else too.                                         *)
LEMMA MergeType ==
  ASSUME NEW r \in Reasoning, NEW c \in Claims, NEW mode
  PROVE  /\ Merge(mode, r, c) \in Reasoning
         /\ mode # Normal => Merge(mode, r, c) = r
  <1>1. r.verified \in BOOLEAN /\ c.verified \in BOOLEAN
    BY DEF Reasoning, Claims
  <1>2. (r.verified \/ c.verified) \in BOOLEAN
    BY <1>1
  <1> DEFINE v == r.verified \/ c.verified
  <1>3. [r EXCEPT !.verified = v] \in Reasoning
    <2> HIDE DEF v
    <2> QED BY <1>2 DEF Reasoning, v
  <1> QED BY <1>3 DEF Merge

LEMMA AnswerStep ==
  ASSUME AskInv, NEW c \in Claims, ProviderAnswers(c)
  PROVE  AskInv'
  <1>1. /\ at = "waiting" /\ at' = "composing"
        /\ reasoning' = Merge(decision.mode, reasoning, c)
        /\ UNCHANGED <<config, finding, decision, attempt, written, payload, stored, ledger,
                       path>>
    BY DEF ProviderAnswers, sessionVars
  <1>2. /\ Asking /\ attempt > 0 /\ SessionIsClear /\ trace \in Trace /\ reasoning \in Reasoning
    BY <1>1 DEF AskInv, AskTypeOK
  <1>3. /\ reasoning' \in Reasoning
        /\ decision.mode # Normal => reasoning' = reasoning
    BY <1>1, <1>2, MergeType
  <1>4. Used(decision.mode, c) \in BOOLEAN /\ c.rejected \in BOOLEAN
        /\ InvocationStatus(c) \in {"completed_zero_claims", "completed_no_verified_claims",
                                    "completed"}
    <2>1. /\ c.verified \in BOOLEAN /\ c.rejected \in BOOLEAN /\ c.generated \in BOOLEAN
          /\ c.verified => c.generated
      BY DEF Claims
    <2> QED BY <2>1 DEF Used, InvocationStatus
  <1>5. trace' \in Trace /\ trace'.asked
    <2> DEFINE o == IF decision.mode = Summary THEN NotReproduced ELSE trace.outcome
               u == Used(decision.mode, c)
    <2>1. o \in {"unset", NotReproduced}
      BY <1>2 DEF Asking
    <2>2. trace' = [trace EXCEPT !.invocation = InvocationStatus(c), !.used = u,
                                 !.rejected = c.rejected, !.outcome = o]
      BY DEF ProviderAnswers
    <2>3. trace.asked
      BY <1>2 DEF Asking
    <2> HIDE DEF o, u
    <2> QED BY <1>2, <1>4, <2>1, <2>2, <2>3 DEF Trace, u
  <1>6. AskTypeOK' /\ SessionIsClear' /\ Decided' /\ Reasoned'
    BY <1>1, <1>2, <1>3, <1>5
       DEF AskInv, AskTypeOK, SessionIsClear, Asking, Decided, Reasoned
  <1>7. Traced'
    <2>1. decision.mode = Summary => ~reasoning'.verified /\ reasoning'.type = NotReproduced
      BY <1>2, <1>3 DEF Asking, Reasoned, Normal, Summary
    <2> QED BY <1>1, <1>2, <1>5, <2>1 DEF Traced, AskInv, AskTypeOK
  <1> QED BY <1>1, <1>6, <1>7 DEF AskInv

-----------------------------------------------------------------------------
(* The payload.                                                            *)
LEMMA FinalizeType ==
  ASSUME NEW r \in Reasoning, NEW g, NEW failures, NEW rejected
  PROVE  LET f == Finalize(r, g, failures, rejected) IN
         /\ f \in Reasoning /\ f.verified = r.verified
         /\ ~r.verified /\ r.type \in {NotReproduced, Insufficient} =>
              f.type \in {NotReproduced, Insufficient}
  <1>1. \A t \in {Confirmed, Insufficient, NotReproduced} :
          /\ [r EXCEPT !.type = t] \in Reasoning
          /\ [r EXCEPT !.type = t].verified = r.verified
          /\ [r EXCEPT !.type = t].type = t
    BY DEF Reasoning
  <1>2. \/ Finalize(r, g, failures, rejected) = r
        \/ Finalize(r, g, failures, rejected) = [r EXCEPT !.type = Insufficient]
        \/ r.verified /\ Finalize(r, g, failures, rejected) = [r EXCEPT !.type = Confirmed]
        \/ Finalize(r, g, failures, rejected) = [r EXCEPT !.type = NotReproduced]
    BY Zenon DEF Finalize
  <1> QED BY <1>1, <1>2

LEMMA ComposeStep ==
  ASSUME AskInv, ComposeReport
  PROVE  AskInv'
  <1> DEFINE p == Provenance(decision.mode, trace.used, trace.invocation, trace.asked, config.ai)
             n == IF finding.planned THEN "plain" ELSE "EVIDENCE_PLANNING_FAILED"
  <1>1. /\ at = "composing" /\ at' = "payload"
        /\ reasoning' = Finalize(reasoning, finding.gate, finding.failures, trace.rejected)
        /\ payload' = [full |-> TRUE, provenance |-> p, intent |-> n]
        /\ UNCHANGED <<config, finding, decision, trace, attempt, written, stored, ledger,
                       path>>
    BY DEF ComposeReport, sessionVars
  <1>2. Decided /\ Traced /\ Reasoned /\ SessionIsClear /\ reasoning \in Reasoning
    BY <1>1 DEF AskInv, AskTypeOK
  <1>3. /\ reasoning' \in Reasoning /\ reasoning'.verified = reasoning.verified
        /\ ~reasoning.verified /\ reasoning.type \in {NotReproduced, Insufficient} =>
             reasoning'.type \in {NotReproduced, Insufficient}
    BY <1>1, <1>2, FinalizeType
  <1>4. AskTypeOK' /\ SessionIsClear' /\ Decided'
    BY <1>1, <1>2, <1>3 DEF AskInv, AskTypeOK, SessionIsClear, Decided
  <1>5. Traced'
    BY <1>1, <1>2, <1>3 DEF Traced
  <1>6. /\ p \in {"AI_SUMMARIZED_NOT_REPRODUCED", "AI_SKIPPED_BY_EVIDENCE_GATE", "AI_ANSWERED",
                  "AI_REASONING_UNVERIFIED", "AI_INVOCATION_FAILED", "AI_SKIPPED_BY_POLICY",
                  "DETERMINISTIC_ANSWERED"}
        /\ p = "AI_SUMMARIZED_NOT_REPRODUCED" => decision.mode = Summary /\ trace.used
        /\ n \in {"plain", "EVIDENCE_PLANNING_FAILED"}
    BY DEF Provenance
  <1> HIDE DEF p, n
  <1>7. FullPayload'
    BY <1>1, <1>4, <1>5, <1>6 DEF FullPayload
  <1> QED BY <1>1, <1>4, <1>7 DEF AskInv

LEMMA RerunStep ==
  ASSUME AskInv, Rerun
  PROVE  AskInv'
  <1>1. /\ at = "payload" /\ at' = "running" /\ RunIsClear'
        /\ UNCHANGED <<config, stored, ledger, path>>
    BY DEF Rerun, ClearRun, RunIsClear, sessionVars
  <1>2. AskTypeOK'
    BY <1>1, AttemptsAssumption
       DEF AskInv, AskTypeOK, RunIsClear, NoReasoning, Reasoning, NoTrace, Trace
  <1> QED BY <1>1, <1>2 DEF AskInv, SessionIsClear

LEMMA FailStep ==
  ASSUME AskInv, Fail
  PROVE  AskInv'
  <1>1. at' = "failed" /\ RunIsClear' /\ SessionIsClear' /\ UNCHANGED config
    BY DEF Fail, ClearRun, ClearSession, RunIsClear, SessionIsClear
  <1>2. AskTypeOK'
    BY <1>1, AttemptsAssumption
       DEF AskInv, AskTypeOK, RunIsClear, SessionIsClear, NoReasoning, Reasoning, NoTrace, Trace
  <1> QED BY <1>1, <1>2 DEF AskInv

-----------------------------------------------------------------------------
(* The session.                                                            *)
LEMMA StoreStep ==
  ASSUME AskInv, StoreInvestigation
  PROVE  AskInv'
  <1>1. /\ at = "payload" /\ at' = "concluding"
        /\ UNCHANGED <<config, finding, decision, reasoning, trace, attempt, written, payload>>
    BY DEF StoreInvestigation, runVars
  <1>2. FullPayload \/ EarlyPayload
    BY <1>1 DEF AskInv
  <1>3. FullPayload' \/ EarlyPayload'
    BY <1>1, <1>2 DEF FullPayload, EarlyPayload, RunIsClear, Decided, Traced
  <1>4. ledger = <<>> /\ path = <<>>
    BY <1>1 DEF AskInv, SessionIsClear
  <1> DEFINE o == CanonicalOutcome(Signals)
  <1>5. o \in Outcomes
    BY <1>2, Resolved
  <1>6. CASE config.agentic
    <2>1. ledger' = <<"INITIALIZATION">> /\ path' = TerminalPath(o)
      BY <1>6 DEF StoreInvestigation
    <2>2. /\ ledger' \in Seq(InvestigationState) /\ path' \in Seq(InvestigationState)
          /\ Len(ledger') = 1 /\ ledger'[1] = "INITIALIZATION" /\ ledger' # <<>>
      BY <1>5, <2>1, WayStates DEF InvestigationState, TransientStates
    <2>3. OnTheWay(Way(o))'
      <3>1. o' = o
        BY <1>1, SignalsStay
      <3> HIDE DEF o
      <3>2. /\ Len(Way(o)) = Len(path') + 1
            /\ \A i \in 1..Len(path') : path'[i] = Way(o)[i + 1]
            /\ Way(o)[1] = "INITIALIZATION" /\ Len(path') \in Nat
        BY <1>5, <2>1, <2>2, WayStates
      <3> QED BY <2>2, <3>1, <3>2 DEF OnTheWay
    <2>4. Stored'
      BY <1>1, <1>6, <2>2, <2>3, SignalsStay DEF StoreInvestigation, Stored
    <2>5. AskTypeOK'
      BY <1>1, <2>2 DEF AskInv, AskTypeOK
    <2> QED BY <1>1, <1>3, <2>4, <2>5 DEF AskInv
  <1>7. CASE ~config.agentic
    <2>1. ledger' = ledger /\ path' = path
      BY <1>7 DEF StoreInvestigation
    <2>2. Stored'
      BY <1>1, <1>4, <1>7, <2>1, SignalsStay DEF StoreInvestigation, Stored
    <2>3. AskTypeOK'
      BY <1>1, <2>1 DEF AskInv, AskTypeOK
    <2> QED BY <1>1, <1>3, <2>2, <2>3 DEF AskInv
  <1> QED BY <1>6, <1>7

LEMMA ConcludeStep ==
  ASSUME AskInv, Conclude
  PROVE  AskInv'
  <1>1. /\ at = "concluding" /\ at' = "concluding" /\ path # <<>>
        /\ ledger' = Append(ledger, Head(path)) /\ path' = Tail(path)
        /\ UNCHANGED <<config, finding, decision, reasoning, trace, attempt, written, payload,
                       stored>>
    BY DEF Conclude, runVars, AskInv
  <1>2. ledger \in Seq(InvestigationState) /\ path \in Seq(InvestigationState)
    BY DEF AskInv, AskTypeOK
  <1>3. /\ ledger' \in Seq(InvestigationState) /\ path' \in Seq(InvestigationState)
        /\ Len(ledger') = Len(ledger) + 1 /\ Len(path) = Len(path') + 1 /\ ledger' # <<>>
        /\ \A i \in 1..Len(ledger) : ledger'[i] = ledger[i]
        /\ ledger'[Len(ledger) + 1] = path[1]
        /\ \A i \in 1..Len(path') : path'[i] = path[i + 1]
    BY <1>1, <1>2
  <1> DEFINE w == Way(CanonicalOutcome(Signals))
  <1>4. config.agentic /\ OnTheWay(w)
    BY <1>1 DEF AskInv, Stored
  <1>5. w' = w
    BY <1>1, SignalsStay
  <1>6. OnTheWay(w)'
    <2> HIDE DEF w
    <2>1. Len(ledger) \in Nat /\ Len(path') \in Nat
      BY <1>2, <1>3
    <2>2. Len(w) = Len(ledger') + Len(path')
      BY <1>3, <1>4, <2>1 DEF OnTheWay
    <2>3. \A i \in 1..Len(ledger') : ledger'[i] = w[i]
      <3> SUFFICES ASSUME NEW i \in 1..Len(ledger') PROVE ledger'[i] = w[i]
        OBVIOUS
      <3>1. CASE i \in 1..Len(ledger)
        BY <1>3, <1>4, <3>1 DEF OnTheWay
      <3>2. CASE i = Len(ledger) + 1
        BY <1>3, <1>4, <2>1, <3>2 DEF OnTheWay
      <3> QED BY <1>3, <2>1, <3>1, <3>2
    <2>4. \A i \in 1..Len(path') : path'[i] = w[Len(ledger') + i]
      <3> SUFFICES ASSUME NEW i \in 1..Len(path') PROVE path'[i] = w[Len(ledger') + i]
        OBVIOUS
      <3>1. i + 1 \in 1..Len(path) /\ Len(ledger') + i = Len(ledger) + (i + 1)
        BY <1>3, <2>1
      <3> QED BY <1>3, <1>4, <3>1 DEF OnTheWay
    <2> QED BY <1>5, <2>2, <2>3, <2>4 DEF OnTheWay
  <1>7. Stored'
    BY <1>1, <1>3, <1>4, <1>6, SignalsStay DEF AskInv, Stored
  <1>8. AskTypeOK' /\ (FullPayload' \/ EarlyPayload')
    BY <1>1, <1>3
       DEF AskInv, AskTypeOK, FullPayload, EarlyPayload, RunIsClear, Decided, Traced
  <1> QED BY <1>1, <1>7, <1>8 DEF AskInv

LEMMA CommitStep ==
  ASSUME AskInv, CommitAnswer
  PROVE  AskInv'
  <1>1. /\ at = "concluding" /\ at' = "answered" /\ path = <<>>
        /\ UNCHANGED <<config, finding, decision, reasoning, trace, attempt, written, payload,
                       stored, ledger, path>>
    BY DEF CommitAnswer, runVars, sessionVars
  <1>2. Stored'
    BY <1>1, SignalsStay DEF AskInv, Stored, OnTheWay
  <1>3. AskTypeOK' /\ (FullPayload' \/ EarlyPayload')
    BY <1>1 DEF AskInv, AskTypeOK, FullPayload, EarlyPayload, RunIsClear, Decided, Traced
  <1> QED BY <1>1, <1>2, <1>3 DEF AskInv

-----------------------------------------------------------------------------
LEMMA AskStep == AskInv /\ [AskNext]_askVars => AskInv'
  <1> SUFFICES ASSUME AskInv, [AskNext]_askVars PROVE AskInv'
    OBVIOUS
  <1>1. CASE Refuse \/ BeginRun
    BY <1>1, BeginStep
  <1>2. CASE EndEarly("plain") \/ EndEarly("insufficient")
    BY <1>2, EarlyStep
  <1>3. CASE Deliberate
    BY <1>3, DeliberateStep
  <1>4. CASE SubmitCall
    BY <1>4, SubmitStep
  <1>5. CASE CallRefused \/ GiveUpCall
    BY <1>5, FailedCallStep
  <1>6. CASE TryAgain
    BY <1>6, TryAgainStep
  <1>7. CASE \E c \in Claims : ProviderAnswers(c)
    BY <1>7, AnswerStep
  <1>8. CASE ComposeReport
    BY <1>8, ComposeStep
  <1>9. CASE Rerun \/ Fail
    BY <1>9, RerunStep, FailStep
  <1>10. CASE StoreInvestigation
    BY <1>10, StoreStep
  <1>11. CASE Conclude
    BY <1>11, ConcludeStep
  <1>12. CASE CommitAnswer
    BY <1>12, CommitStep
  <1>13. CASE UNCHANGED askVars
    <2>1. UNCHANGED <<config, at, finding, decision, reasoning, trace, attempt, written,
                      payload, stored, ledger, path>>
      BY <1>13 DEF askVars, runVars, sessionVars
    <2>2. Stored => Stored'
      BY <2>1, SignalsStay DEF Stored, OnTheWay
    <2>3. AskTypeOK'
      BY <2>1 DEF AskInv, AskTypeOK
    <2>4. /\ RunIsClear' = RunIsClear /\ SessionIsClear' = SessionIsClear
          /\ Asking' = Asking /\ Decided' = Decided /\ Reasoned' = Reasoned
          /\ Traced' = Traced /\ FullPayload' = FullPayload /\ EarlyPayload' = EarlyPayload
      BY <2>1 DEF RunIsClear, SessionIsClear, Asking, Decided, Reasoned, Traced, FullPayload,
                  EarlyPayload
    <2> QED BY <2>1, <2>2, <2>3, <2>4 DEF AskInv
  <1> QED
    BY <1>1, <1>2, <1>3, <1>4, <1>5, <1>6, <1>7, <1>8, <1>9, <1>10, <1>11, <1>12, <1>13
    DEF AskNext, AnswerFindings, ValidateMetadata, SearchKnowledge, DiscoverBusinessRules,
        NoConnection, TargetMissing, ObjectNotFound, NothingRelevant, EntityBlocked

LEMMA AskInvariance == AskSpec => []AskInv
  <1> QED BY AskInitial, AskStep, PTL DEF AskSpec

-----------------------------------------------------------------------------
(* In an investigation that has its row, the ledger that is complete ends  *)
(* with the outcome of the signals.                                        *)
LEMMA LedgerEnds ==
  ASSUME AskInv, at = "answered", config.agentic
  PROVE  Now = CanonicalOutcome(Signals)
  <1>1. /\ OnTheWay(Way(CanonicalOutcome(Signals))) /\ path = <<>> /\ ledger # <<>>
        /\ ledger \in Seq(InvestigationState)
    BY DEF AskInv, Stored, AskTypeOK
  <1>2. CanonicalOutcome(Signals) \in Outcomes
    BY Resolved DEF AskInv
  <1> DEFINE o == CanonicalOutcome(Signals)
  <1> HIDE DEF o
  <1>3. Way(o)[Len(Way(o))] = o
    BY <1>2, WayStates DEF o
  <1>4. Len(path) = 0 /\ Len(ledger) \in Nat /\ Len(ledger) > 0
    BY <1>1
  <1>5. Len(Way(o)) = Len(ledger) /\ ledger[Len(ledger)] = Way(o)[Len(ledger)]
    BY <1>1, <1>4 DEF OnTheWay, o
  <1> QED BY <1>3, <1>5 DEF Now, o

(* Whatever the run found, the ledger takes every transition its outcome   *)
(* asks for, and an answered investigation has a terminal state in it.     *)
THEOREM LedgerAlwaysConcludes == AskSpec => []LedgerConcludes
  <1>1. ASSUME AskInv PROVE LedgerNeverRefuses
    <2> SUFFICES ASSUME at = "concluding", path # <<>>
                 PROVE  ValidTransition(Now, Head(path))
      BY DEF LedgerNeverRefuses
    <2> DEFINE o == CanonicalOutcome(Signals)
    <2>1. /\ o \in Outcomes /\ ledger \in Seq(InvestigationState)
          /\ path \in Seq(InvestigationState)
      BY <1>1, Resolved DEF AskInv, AskTypeOK
    <2>2. ledger # <<>> /\ OnTheWay(Way(o))
      BY <1>1 DEF AskInv, Stored
    <2> HIDE DEF o
    <2> DEFINE n == Len(ledger)
    <2>3. /\ n \in Nat /\ n > 0 /\ Len(path) \in Nat /\ Len(path) > 0
          /\ Head(path) = path[1]
      BY <2>1, <2>2
    <2>4. /\ Len(Way(o)) = n + Len(path)
          /\ ledger[n] = Way(o)[n] /\ path[1] = Way(o)[n + 1]
      BY <2>2, <2>3 DEF OnTheWay
    <2>5. n \in 1..(Len(Way(o)) - 1)
      BY <2>3, <2>4
    <2>6. ValidTransition(Way(o)[n], Way(o)[n + 1])
      BY <2>1, <2>5, WayStates
    <2> QED BY <2>3, <2>4, <2>6 DEF Now
  <1>2. ASSUME AskInv PROVE EveryInvestigationIsConcluded
    <2> SUFFICES ASSUME at = "answered", config.agentic PROVE Now \in TerminalStates
      BY DEF EveryInvestigationIsConcluded
    <2>1. Now \in Outcomes
      BY <1>2, LedgerEnds, Resolved DEF AskInv
    <2> QED BY <2>1 DEF Outcomes, TerminalStates
  <1>3. AskInv => LedgerConcludes
    BY <1>1, <1>2 DEF LedgerConcludes
  <1> QED BY <1>3, AskInvariance, PTL

(* The audit outcome of the stored row tells the truth about the requests  *)
(* sent for the run that was kept, and every variable keeps its type.      *)
THEOREM AuditAlwaysAgrees == AskSpec => []AuditAgreesWithCalls
  <1>1. ASSUME AskInv, at \in {"concluding", "answered"}
        PROVE  /\ stored.audit = "PROVIDER_INVOKED" => attempt > 0
               /\ attempt + written > 0 =>
                    stored.audit \in {"PROVIDER_INVOKED", "PROVIDER_FAILED"}
    <2>1. stored.audit = AuditOutcome /\ attempt \in Nat /\ written \in 0..attempt
      BY <1>1, AttemptsAssumption DEF AskInv, Stored, AskTypeOK
    <2>2. CASE FullPayload
      <3>1. attempt > 0 => trace.asked
        BY <2>2 DEF FullPayload, Traced
      <3>2. trace.asked /\ attempt = 0 => trace.outcome = "provider_failure"
        BY <2>2 DEF FullPayload, Traced
      <3>3. trace.outcome = "provider_failure" => AiOutcome = "provider_failure"
        BY DEF AiOutcome
      <3>4. AuditOutcome = "PROVIDER_INVOKED" => trace.asked /\ AiOutcome # "provider_failure"
        <4>1. Status # "PROVIDER_INVOKED"
          BY <2>2 DEF Status, FullPayload, NoState
        <4> QED BY <4>1 DEF AuditOutcome
      <3>5. trace.asked => AuditOutcome \in {"PROVIDER_INVOKED", "PROVIDER_FAILED"}
        BY DEF AuditOutcome
      <3> QED BY <2>1, <3>1, <3>2, <3>3, <3>4, <3>5
    <2>3. CASE EarlyPayload
      <3>1. attempt = 0 /\ written = 0 /\ ~trace.asked
        BY <2>3 DEF EarlyPayload, RunIsClear, NoTrace
      <3>2. AuditOutcome # "PROVIDER_INVOKED"
        BY <3>1 DEF AuditOutcome
      <3> QED BY <2>1, <3>1, <3>2
    <2> QED BY <1>1, <2>2, <2>3 DEF AskInv
  <1>2. AskInv => AuditAgreesWithCalls
    BY <1>1 DEF AskInv, AuditAgreesWithCalls
  <1> QED BY <1>2, AskInvariance, PTL

(* A confirmed cause was reproduced, or its condition reported and not     *)
(* shown absent, had evidence, and is in the report; the summary of a      *)
(* problem that was not reproduced never presents a cause.                 *)
THEOREM CausesAlwaysEarned == AskSpec => []CausesAreEarned
  <1>1. ASSUME AskInv, at = "answered", config.agentic, Now = "ROOT_CAUSE_CONFIRMED"
        PROVE  /\ finding.gate.reproduced \/ (finding.gate.condition /\ ~finding.gate.absence)
               /\ finding.gate.evidence # "none"
               /\ stored.claims /\ reasoning.verified
    <2>1. CanonicalOutcome(Signals) = "ROOT_CAUSE_CONFIRMED"
      BY <1>1, LedgerEnds
    <2>2. /\ Signals.reproduction = "reproduced" /\ Signals.cause = "met"
          /\ Signals.counted
      BY <2>1 DEF CanonicalOutcome, NoState
    <2>3. payload.full /\ decision.reproduced /\ reasoning.verified
          /\ finding.gate.evidence # "none"
      BY <2>2, SignalFields
    <2>4. ConditionVerified(finding.gate)
      BY <1>1, <2>3 DEF AskInv, FullPayload, EarlyPayload, Decided
    <2>5. stored.claims = (payload.full /\ ReportsCause(reasoning))
      BY <1>1 DEF AskInv, Stored
    <2> QED BY <2>3, <2>4, <2>5 DEF ConditionVerified, ReportsCause
  <1>2. ASSUME AskInv, at = "answered", stored.status = "AI_SUMMARIZED_NOT_REPRODUCED"
        PROVE  ~stored.claims
    <2>1. /\ Status = "AI_SUMMARIZED_NOT_REPRODUCED"
          /\ stored.claims = (payload.full /\ ReportsCause(reasoning))
      BY <1>2 DEF AskInv, Stored
    <2>2. CASE FullPayload
      <3>1. payload.provenance = "AI_SUMMARIZED_NOT_REPRODUCED"
        BY <2>1, <2>2 DEF Status, FullPayload, NoState
      <3>2. ~reasoning.verified /\ reasoning.type \in {NotReproduced, Insufficient}
        BY <2>2, <3>1 DEF FullPayload, Traced
      <3> QED BY <2>1, <3>2 DEF ReportsCause, Confirmed, NotReproduced, Insufficient
    <2>3. CASE EarlyPayload
      BY <2>1, <2>3 DEF EarlyPayload
    <2> QED BY <1>2, <2>2, <2>3 DEF AskInv
  <1>3. AskInv => CausesAreEarned
    BY <1>1, <1>2 DEF CausesAreEarned
  <1> QED BY <1>3, AskInvariance, PTL

(* Where the evaluation reader derives an outcome from the row alone, the  *)
(* ledger has the same one, but for a run that was skipped for want of     *)
(* evidence.                                                               *)
THEOREM ReaderAlwaysAgrees == AskSpec => []ReaderAgreesWithLedger
  <1>1. ASSUME AskInv, at = "answered", config.agentic, LegacyOutcome(stored) # NoState
        PROVE  \/ Now = LegacyOutcome(stored)
               \/ /\ LegacyOutcome(stored) = "INSUFFICIENT_EVIDENCE"
                  /\ Now = "ISSUE_NOT_REPRODUCED" /\ stored.mode = Skip
    <2>1. Now = CanonicalOutcome(Signals) /\ Now \in Outcomes
      BY <1>1, LedgerEnds, Resolved DEF AskInv
    <2>2. /\ stored.status = Signals.status /\ stored.mode = Signals.mode
          /\ stored.outcome = Signals.outcome
      BY <1>1, SignalFields DEF AskInv, Stored
    <2>3. CASE FullPayload
      <3>1. /\ Signals.status = payload.provenance
            /\ Signals.status # "INSUFFICIENT_DATABASE_EVIDENCE"
            /\ Signals.status = "AI_SUMMARIZED_NOT_REPRODUCED" => Signals.mode = Summary
        BY <2>3, SignalFields DEF FullPayload, Status, NoState
      <3>2. Signals.outcome # Insufficient
        <4>1. trace.outcome # Insufficient
          BY <1>1 DEF AskInv, AskTypeOK, Trace, Insufficient, NotReproduced
        <4>2. payload.intent # "insufficient"
          BY <2>3 DEF FullPayload
        <4> QED BY <4>1, <4>2, SignalFields DEF AiOutcome, Insufficient
      <3> QED BY <1>1, <2>1, <2>2, <3>1, <3>2
              DEF LegacyOutcome, CanonicalOutcome, SaysNotReproduced, NoState, Summary, Skip
    <2>4. CASE EarlyPayload
      <3>1. /\ Signals.mode = Skip /\ Signals.reproduction = "none"
            /\ Signals.status \in {"INSUFFICIENT_DATABASE_EVIDENCE", "AI_ANSWERED"}
        BY <2>4, SignalFields DEF EarlyPayload, RunIsClear, NoDecision, Status
      <3>2. Signals.outcome # NotReproduced
        BY <2>4, SignalFields
           DEF EarlyPayload, RunIsClear, NoTrace, AiOutcome, NoState, NotReproduced, Insufficient
      <3> QED BY <1>1, <2>1, <2>2, <3>1, <3>2
              DEF LegacyOutcome, CanonicalOutcome, SaysNotReproduced, NoState, Summary, Skip
    <2> QED BY <1>1, <2>3, <2>4 DEF AskInv
  <1>2. AskInv => ReaderAgreesWithLedger
    BY <1>1 DEF ReaderAgreesWithLedger
  <1> QED BY <1>2, AskInvariance, PTL

-----------------------------------------------------------------------------
(* The rows of the ledger, with the previous state and the iteration the   *)
(* service gives them: initialize() starts with 0, and no transition of    *)
(* the path starts another iteration.                                      *)
RowsOf(states) ==
  [i \in 1..Len(states) |->
     [prev |-> IF i = 1 THEN NoState ELSE states[i - 1], cur |-> states[i], iter |-> 0]]

(* What other sessions see of it: nothing before the answer is committed.  *)
Published == IF at = "answered" THEN RowsOf(ledger) ELSE <<>>
Lifecycle == INSTANCE InvestigationLifecycle WITH history <- Published

(* The instance brings its own copy of the transition relation.            *)
LEMMA LifecycleSame ==
  \A h : Lifecycle!IsLifecycle(h) <=> IsLifecycle(h)
  <1>1. \A row : Lifecycle!StartsLifecycle(row) <=> StartsLifecycle(row)
    BY DEF Lifecycle!StartsLifecycle, StartsLifecycle, Lifecycle!NoState, NoState
  <1>2. Lifecycle!TerminalStates = TerminalStates
    BY DEF Lifecycle!TerminalStates, TerminalStates
  <1>3. Lifecycle!AllowedTransitions = AllowedTransitions
    BY DEF Lifecycle!AllowedTransitions, AllowedTransitions,
           Lifecycle!InvestigationState, InvestigationState,
           Lifecycle!TransientStates, TransientStates,
           Lifecycle!TerminalStates, TerminalStates,
           Lifecycle!FailOrCancel, FailOrCancel
  <1>4. \A a, b : Lifecycle!Continues(a, b) <=> Continues(a, b)
    BY <1>2, <1>3 DEF Lifecycle!Continues, Continues,
           Lifecycle!ValidTransition, ValidTransition,
           Lifecycle!IterationAfter, IterationAfter
  <1> QED BY <1>1, <1>4 DEF Lifecycle!IsLifecycle, IsLifecycle

(* The way to an outcome starts no further iteration.                      *)
LEMMA WayStaysInIteration ==
  ASSUME NEW o \in Outcomes, NEW i \in 1..Len(Way(o))
  PROVE  Way(o)[i] # "STOP_EVALUATION"
  <1>1. CASE o = "POLICY_BLOCKED"
    <2>1. Way(o) = <<"INITIALIZATION", "EVIDENCE_ASSESSMENT", "GAP_IDENTIFICATION",
                     "ACTION_SELECTION", "POLICY_BLOCKED">>
      BY <1>1 DEF Way
    <2>2. i \in {1, 2, 3, 4, 5}
      BY <2>1
    <2> QED BY <2>1, <2>2
  <1>2. CASE o # "POLICY_BLOCKED"
    <2>1. Way(o) = <<"INITIALIZATION", "EVIDENCE_ASSESSMENT", o>>
      BY <1>2 DEF Way
    <2>2. i \in {1, 2, 3}
      BY <2>1
    <2> QED BY <2>1, <2>2 DEF Outcomes
  <1> QED BY <1>1, <1>2

(* What is committed with an answer is a lifecycle from its beginning.     *)
LEMMA PublishedIsLawful ==
  ASSUME AskInv
  PROVE  IsLifecycle(Published)
  <1>1. CASE at # "answered" \/ ~config.agentic
    <2>1. Published = <<>> \/ Published = RowsOf(<<>>)
      BY <1>1 DEF AskInv, Stored, Published
    <2>2. Len(<<>>) = 0 /\ Len(RowsOf(<<>>)) = 0
      BY DEF RowsOf
    <2> QED BY <2>1, <2>2 DEF IsLifecycle
  <1>2. CASE at = "answered" /\ config.agentic
    <2> DEFINE o == CanonicalOutcome(Signals)
               w == Way(o)
    <2>1. /\ ledger \in Seq(InvestigationState) /\ path = <<>>
          /\ OnTheWay(w) /\ o \in Outcomes
      BY <1>2, Resolved DEF AskInv, Stored, AskTypeOK
    <2>2. /\ Len(w) = Len(ledger) /\ Len(ledger) \in Nat
          /\ \A i \in 1..Len(ledger) : ledger[i] = w[i]
      BY <2>1 DEF OnTheWay
    <2>3. /\ w[1] = "INITIALIZATION"
          /\ \A i \in 1..(Len(w) - 1) : ValidTransition(w[i], w[i + 1])
          /\ \A i \in 1..Len(w) : w[i] # "STOP_EVALUATION"
      BY <2>1, WayStates, WayStaysInIteration
    <2> HIDE DEF o, w
    <2> DEFINE h == RowsOf(ledger)
    <2>4. /\ Len(h) = Len(ledger)
          /\ \A i \in 1..Len(ledger) :
               /\ h[i].prev = IF i = 1 THEN NoState ELSE ledger[i - 1]
               /\ h[i].cur = ledger[i] /\ h[i].iter = 0
      BY <2>2 DEF RowsOf
    <2> HIDE DEF h
    <2>5. ASSUME NEW i \in 1..Len(h), i = 1 PROVE StartsLifecycle(h[1])
      BY <2>2, <2>3, <2>4, <2>5 DEF StartsLifecycle
    <2>6. ASSUME NEW i \in 1..Len(h), i # 1 PROVE Continues(h[i - 1], h[i])
      <3>1. /\ i - 1 \in 1..Len(ledger) /\ i \in 1..Len(ledger)
            /\ i - 1 \in 1..(Len(w) - 1) /\ (i - 1) + 1 = i
        BY <2>2, <2>4, <2>6
      <3>2. /\ h[i].prev = ledger[i - 1] /\ h[i].cur = ledger[i] /\ h[i].iter = 0
            /\ h[i - 1].cur = ledger[i - 1] /\ h[i - 1].iter = 0
        BY <2>4, <2>6, <3>1
      <3>3. ValidTransition(ledger[i - 1], ledger[i]) /\ ledger[i - 1] # "STOP_EVALUATION"
        BY <2>2, <2>3, <3>1
      <3> QED BY <3>2, <3>3 DEF Continues, IterationAfter
    <2>7. IsLifecycle(h)
      BY <2>5, <2>6 DEF IsLifecycle
    <2> QED BY <1>2, <2>7 DEF Published, h
  <1> QED BY <1>1, <1>2

LEMMA AnsweredForGood ==
  ASSUME AskNext PROVE at # "answered"
  BY DEF AskNext, Refuse, BeginRun, AnswerFindings, ValidateMetadata, SearchKnowledge,
         DiscoverBusinessRules, NoConnection, TargetMissing, ObjectNotFound, NothingRelevant,
         EntityBlocked, EndEarly, Deliberate, SubmitCall, CallRefused, TryAgain, GiveUpCall,
         ProviderAnswers, ComposeReport, Rerun, StoreInvestigation, Conclude, CommitAnswer,
         Fail

(* A request implements InvestigationLifecycle: in one step, at the        *)
(* commit, its whole ledger appears, and that is a lawful history.         *)
THEOREM AnswerRefinesLifecycle == AskSpec => Lifecycle!Spec
  <1> DEFINE Lawful == IsLifecycle(Published)
  <1>1. AskInv => Lawful /\ Lifecycle!Init
    BY PublishedIsLawful, LifecycleSame DEF Lifecycle!Init
  <1>2. ASSUME AskInv, AskInv', Lawful', [AskNext]_askVars
        PROVE  [Lifecycle!Advance]_Published
    <2> SUFFICES ASSUME Published' # Published PROVE Lifecycle!Advance
      OBVIOUS
    <2>1. CASE UNCHANGED askVars
      <3>1. UNCHANGED <<at, ledger>>
        BY <2>1 DEF askVars, sessionVars
      <3>2. Published' = Published
        BY <3>1 DEF Published, RowsOf
      <3> QED BY <3>2
    <2>2. CASE AskNext
      <3>1. Published = <<>>
        BY <2>2, AnsweredForGood DEF Published
      <3>2. at' = "answered" /\ Published' = RowsOf(ledger')
        BY <3>1 DEF Published
      <3>3. ledger' \in Seq(InvestigationState)
        BY <1>2 DEF AskInv, AskTypeOK
      <3>4. Len(Published') = Len(ledger') /\ Len(ledger') \in Nat
        BY <3>2, <3>3 DEF RowsOf
      <3>5. Len(ledger') # 0
        <4> SUFFICES ASSUME Len(ledger') = 0 PROVE FALSE
          OBVIOUS
        <4>1. ledger' = <<>>
          BY <3>3
        <4>2. RowsOf(<<>>) = <<>>
          BY DEF RowsOf
        <4> QED BY <3>1, <3>2, <4>1, <4>2
      <3>6. Lifecycle!Extends(Published, Published')
        BY <3>1, <3>4, <3>5 DEF Lifecycle!Extends
      <3>7. IsLifecycle(Published')
        BY <1>2 DEF IsLifecycle, StartsLifecycle, Continues
      <3>8. Lifecycle!IsLifecycle(Published')
        BY <3>7, LifecycleSame
      <3> QED BY <3>6, <3>8 DEF Lifecycle!Advance
    <2> QED BY <1>2, <2>1, <2>2
  <1> QED BY <1>1, <1>2, AskInvariance, PTL DEF AskSpec, Lifecycle!Spec
=============================================================================
