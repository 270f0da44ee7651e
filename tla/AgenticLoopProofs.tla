--------------------------- MODULE AgenticLoopProofs ---------------------------
(***************************************************************************)
(* The invariants of AgenticLoop for any actions and any limits.           *)
(***************************************************************************)
EXTENDS AgenticLoop, FiniteSetTheorems, TLAPS

(* The assumption of these proofs: run() is given a new investigation, or  *)
(* one that has ended.  Its callers (scripts/validation and the tests)     *)
(* make a new one, which a user may have ended in the meantime.            *)
FreshOrEnded == StartStates \subseteq {"INITIALIZATION"} \cup TerminalStates

Usage == [iterations : Nat, sql : Nat, rows : Nat, late : BOOLEAN, llm : Nat, retries : Nat]
Decision == [action : Actions \cup {NoAction}, retry : 0..1]
StepRow == [iteration : Nat, ledger : Nat, action : Actions, outcome : StepOutcome]

Planned == {"plan", "validate", "cleared", "running", "verify", "update"}

(* The state of the ledger at each point of run().                         *)
WhereInv ==
  /\ pc = "top" => state \in {"INITIALIZATION", "STOP_EVALUATION"} \cup TerminalStates
  /\ pc = "assess" => state \in {"EVIDENCE_ASSESSMENT"} \cup TerminalStates
  /\ pc = "gap" => state = "GAP_IDENTIFICATION"
  /\ pc = "plan" => state = "PLANNING"
  /\ pc = "validate" => state = "VALIDATION"
  /\ pc \in {"cleared", "running"} => state = "EXECUTION"
  /\ pc = "verify" => state = "VERIFICATION"
  /\ pc = "update" => state = "STATE_UPDATE"
  /\ pc = "done" => state \in TerminalStates
  /\ pc \in Planned => action \in Actions
  /\ OnlyBatchesRefused

(* What is left of the budgets at each point.                              *)
BudgetInv ==
  /\ WithinLimits
  /\ Running => usage.iterations < MaxIterations /\ usage.retries <= MaxRetries
  /\ Running /\ pc \notin {"verify", "update"} =>
       usage.sql < MaxSql /\ usage.rows < MaxRows
  /\ pc \in {"cleared", "running"} => usage.sql + batch <= MaxSql
  /\ pc \in {"top", "assess"} => usage.llm <= MaxLlm

(* How far each of the three records has come.                             *)
RecordInv ==
  /\ usage.iterations = Len(steps)
  /\ pc \in {"top", "assess", "gap"} => Len(decisions) = Len(steps)
  /\ pc \in Planned => /\ Len(decisions) = Len(steps) + 1
                       /\ decisions[Len(decisions)].action = action
  /\ pc = "top" => Len(steps) = IF state = "STOP_EVALUATION" THEN iter + 1 ELSE iter
  /\ Running /\ pc # "top" => Len(steps) = iter
  /\ RecordsAgree

CancelInv ==
  cancel.made /\ ~cancel.running => pc # "running" /\ usage.sql <= cancel.sql

-----------------------------------------------------------------------------
LEMMA Allowed ==
  /\ \A s \in TerminalStates : \A t : ~ValidTransition(s, t)
  /\ \A s \in TransientStates : \A t \in FailOrCancel : ValidTransition(s, t)
  /\ ValidTransition("INITIALIZATION", "EVIDENCE_ASSESSMENT")
  /\ \A t \in {"GAP_IDENTIFICATION", "ROOT_CAUSE_CONFIRMED", "ISSUE_NOT_REPRODUCED",
               "INSUFFICIENT_EVIDENCE"} : ValidTransition("EVIDENCE_ASSESSMENT", t)
  /\ \A t \in {"ACTION_SELECTION", "BLOCKED_BY_MISSING_SOURCE"} :
       ValidTransition("GAP_IDENTIFICATION", t)
  /\ \A t \in {"PLANNING", "INSUFFICIENT_EVIDENCE", "BLOCKED_BY_MISSING_SOURCE",
               "POLICY_BLOCKED"} : ValidTransition("ACTION_SELECTION", t)
  /\ \A t \in {"VALIDATION", "STATE_UPDATE"} : ValidTransition("PLANNING", t)
  /\ \A t \in {"EXECUTION", "STATE_UPDATE"} : ValidTransition("VALIDATION", t)
  /\ ~ValidTransition("VALIDATION", "QUERY_BUDGET_EXHAUSTED")
  /\ ValidTransition("EXECUTION", "VERIFICATION")
  /\ ValidTransition("VERIFICATION", "STATE_UPDATE")
  /\ ValidTransition("STATE_UPDATE", "STOP_EVALUATION")
  /\ \A t \in {"EVIDENCE_ASSESSMENT"} \cup TerminalStates : ValidTransition("STOP_EVALUATION", t)
BY DEF ValidTransition, AllowedTransitions, InvestigationState, TransientStates, TerminalStates,
       FailOrCancel

(* What a call of state.transition() does to where the loop is.            *)
Moves(next, s) == pc' = next /\ state' = s /\ UNCHANGED <<iter, reason>>
Ends(s, why) ==
  pc' = "done" /\ state' = s /\ s \in TerminalStates /\ reason' = why /\ UNCHANGED iter
Raises == pc' = "raised" /\ UNCHANGED <<ledgerVars, reason>>

LEMMA GoOne ==
  ASSUME NEW t, NEW next, NEW why, Go(<<t>>, next, why),
         ~(state = "STOP_EVALUATION" /\ t = "EVIDENCE_ASSESSMENT")
  PROVE  IF ~ValidTransition(state, t) THEN Raises
         ELSE IF t \in TerminalStates THEN Ends(t, why) ELSE Moves(next, t)
<1>1. Lawful(<<t>>) <=> ValidTransition(state, t) BY DEF Lawful
<1>2. <<t>>[Len(<<t>>)] = t /\ <<t>>[1] = t OBVIOUS
<1> QED BY <1>1, <1>2 DEF Go, IterationAfter, Ends, Moves, Raises

LEMMA GoTwo ==
  ASSUME NEW s, NEW t, NEW next, NEW why, Go(<<s, t>>, next, why),
         state # "STOP_EVALUATION", ValidTransition(state, s), ValidTransition(s, t)
  PROVE  IF t \in TerminalStates THEN Ends(t, why) ELSE Moves(next, t)
<1>1. Lawful(<<s, t>>)
  <2>1. Len(<<s, t>>) = 2 /\ <<s, t>>[1] = s /\ <<s, t>>[2] = t OBVIOUS
  <2>2. \A i \in 1..2 : i = 1 \/ i = 2 OBVIOUS
  <2> QED BY <2>1, <2>2 DEF Lawful
<1>2. <<s, t>>[Len(<<s, t>>)] = t /\ <<s, t>>[1] = s OBVIOUS
<1> QED BY <1>1, <1>2 DEF Go, IterationAfter, Ends, Moves

-----------------------------------------------------------------------------
(* What every step does to where the loop is.                              *)
Where == TypeOK /\ WhereInv /\ BudgetInv

LEMMA Sane ==
  ASSUME Where
  PROVE  /\ usage \in Usage /\ batch \in Nat /\ iter \in Nat /\ late \in BOOLEAN
         /\ {MaxIterations, MaxSql, MaxRows, MaxBatch} \subseteq Nat \ {0}
         /\ {MaxLlm, MaxRetries, MaxBatchRows, MaxAssessCalls, MaxBatch} \subseteq Nat
<1>1. batch \in Nat BY LoopAssumption DEF LoopAssumption, Where, TypeOK
<1> QED BY <1>1, LoopAssumption DEF LoopAssumption, Where, TypeOK, Usage

LEMMA CancelWhere ==
  ASSUME Where, StopForCancel
  PROVE  Ends("CANCELLED", "cancel") \/ (Raises /\ state \in TerminalStates)
<1>1. pc \in Checkpoints /\ Go(<<"CANCELLED">>, "done", "cancel") BY DEF StopForCancel, Cancelled
<1>2. state \in TransientStates \cup TerminalStates
  BY <1>1 DEF Where, TypeOK, InvestigationState
<1>3. "CANCELLED" \in FailOrCancel /\ "CANCELLED" \in TerminalStates
  BY DEF FailOrCancel, TerminalStates
<1> QED BY <1>1, <1>2, <1>3, GoOne, Allowed

LEMMA ErrorWhere ==
  ASSUME Where, CallRaises
  PROVE  Ends("FAILED", "error") \/ (Raises /\ state \in TerminalStates)
<1>1. Go(<<"FAILED">>, "done", "error") BY DEF CallRaises
<1>2. state \in TransientStates \cup TerminalStates
  BY DEF Where, TypeOK, InvestigationState
<1>3. "FAILED" \in FailOrCancel /\ "FAILED" \in TerminalStates
  BY DEF FailOrCancel, TerminalStates
<1> QED BY <1>1, <1>2, <1>3, GoOne, Allowed

LEMMA BudgetStates ==
  \A u : BudgetTerminal(u) # NoState =>
    BudgetTerminal(u) \in {"QUERY_BUDGET_EXHAUSTED", "ITERATION_BUDGET_EXHAUSTED"}
BY DEF BudgetTerminal

LEMMA BeginWhere ==
  ASSUME Where, BeginIteration
  PROVE  \/ /\ state = "STOP_EVALUATION" /\ BudgetTerminal(usage') # NoState
            /\ Ends(BudgetTerminal(usage'), "budget")
         \/ /\ pc' = "assess" /\ state' = "EVIDENCE_ASSESSMENT" /\ UNCHANGED reason
            /\ state = "STOP_EVALUATION" => iter' = iter + 1 /\ BudgetTerminal(usage') = NoState
            /\ state # "STOP_EVALUATION" => UNCHANGED iter /\ state = "INITIALIZATION"
         \/ state \in TerminalStates /\ Moves("assess", state)
<1>1. pc = "top" /\ usage' = [usage EXCEPT !.late = late] BY DEF BeginIteration
<1>2. state \in {"INITIALIZATION", "STOP_EVALUATION"} \cup TerminalStates
  BY <1>1 DEF Where, WhereInv
<1>3. CASE state = "STOP_EVALUATION" /\ BudgetTerminal(usage') # NoState
  <2>1. Go(<<BudgetTerminal(usage')>>, "done", "budget") BY <1>1, <1>3 DEF BeginIteration
  <2>2. BudgetTerminal(usage') \in TerminalStates /\ BudgetTerminal(usage') # "EVIDENCE_ASSESSMENT"
    BY <1>3, BudgetStates DEF TerminalStates
  <2> QED BY <1>3, <2>1, <2>2, GoOne, Allowed
<1>4. CASE /\ state \in {"INITIALIZATION", "STOP_EVALUATION"}
           /\ ~(state = "STOP_EVALUATION" /\ BudgetTerminal(usage') # NoState)
  <2>1. Go(<<"EVIDENCE_ASSESSMENT">>, "assess", "none") BY <1>1, <1>4 DEF BeginIteration
  <2>2. ValidTransition(state, "EVIDENCE_ASSESSMENT") BY <1>4, Allowed
  <2>3. Lawful(<<"EVIDENCE_ASSESSMENT">>) BY <2>2 DEF Lawful
  <2>4. "EVIDENCE_ASSESSMENT" \notin TerminalStates BY DEF TerminalStates
  <2> QED BY <1>4, <2>1, <2>3, <2>4 DEF Go, IterationAfter
<1>5. CASE state \in TerminalStates
  <2>1. state \notin {"INITIALIZATION", "STOP_EVALUATION"} BY <1>5 DEF TerminalStates
  <2> QED BY <1>5, <2>1 DEF BeginIteration, Moves, ledgerVars
<1> QED BY <1>2, <1>3, <1>4, <1>5

LEMMA AssessWhere ==
  ASSUME Where
  PROVE  /\ \A terminal \in Conclusion, calls \in 0..MaxAssessCalls :
              AssessConcludes(terminal, calls) =>
                Ends(terminal, "assessment") \/ (Raises /\ state \in TerminalStates)
         /\ \A candidates, blocked, external, calls :
              AssessContinues(candidates, blocked, external, calls) =>
                Moves("gap", "GAP_IDENTIFICATION") \/ (Raises /\ state \in TerminalStates)
<1>1. pc = "assess" => state \in {"EVIDENCE_ASSESSMENT"} \cup TerminalStates
  BY DEF Where, WhereInv
<1>2. "GAP_IDENTIFICATION" \notin TerminalStates /\ Conclusion \subseteq TerminalStates
  BY DEF TerminalStates, Conclusion
<1>3. ASSUME NEW terminal \in Conclusion, NEW calls, AssessConcludes(terminal, calls)
      PROVE  Ends(terminal, "assessment") \/ (Raises /\ state \in TerminalStates)
  <2>1. CASE terminal # "BLOCKED_BY_MISSING_SOURCE"
    <3>1. Go(<<terminal>>, "done", "assessment") /\ pc = "assess"
      BY <1>3, <2>1 DEF AssessConcludes
    <3>2. terminal \in {"ROOT_CAUSE_CONFIRMED", "ISSUE_NOT_REPRODUCED", "INSUFFICIENT_EVIDENCE"}
      BY <2>1 DEF Conclusion
    <3> QED BY <1>1, <1>2, <3>1, <3>2, GoOne, Allowed
  <2>2. CASE terminal = "BLOCKED_BY_MISSING_SOURCE"
    <3>1. Go(<<"GAP_IDENTIFICATION", terminal>>, "done", "assessment") /\ pc = "assess"
      BY <1>3, <2>2 DEF AssessConcludes
    <3>2. CASE state = "EVIDENCE_ASSESSMENT"
      <4>1. ValidTransition(state, "GAP_IDENTIFICATION") BY <3>2, Allowed
      <4>2. ValidTransition("GAP_IDENTIFICATION", terminal) BY <2>2, Allowed
      <4> QED BY <1>2, <3>1, <3>2, <4>1, <4>2, GoTwo
    <3>3. CASE state \in TerminalStates
      <4>1. ~Lawful(<<"GAP_IDENTIFICATION", terminal>>)
        <5>1. ~ValidTransition(state, "GAP_IDENTIFICATION") BY <3>3, Allowed
        <5> QED BY <5>1 DEF Lawful
      <4> QED BY <3>1, <3>3, <4>1 DEF Go, Raises
    <3> QED BY <1>1, <3>1, <3>2, <3>3
  <2> QED BY <2>1, <2>2
<1>4. ASSUME NEW candidates, NEW blocked, NEW external, NEW calls,
             AssessContinues(candidates, blocked, external, calls)
      PROVE  Moves("gap", "GAP_IDENTIFICATION") \/ (Raises /\ state \in TerminalStates)
  <2>1. Go(<<"GAP_IDENTIFICATION">>, "gap", "none") /\ pc = "assess"
    BY <1>4 DEF AssessContinues
  <2> QED BY <1>1, <1>2, <2>1, GoOne, Allowed
<1> QED BY <1>3, <1>4

LEMMA GateOpen ==
  ASSUME Where, pc = "gap"
  PROVE  PlannerGate = NoState
BY Sane DEF Where, BudgetInv, Running, PlannerGate, Usage

LEMMA SelectWhere ==
  ASSUME Where
  PROVE  /\ NothingToSelect => Ends(PlannerTerminal, "planner")
         /\ \A a : Select(a) =>
              IF RetryNumber(a) > 0 /\ usage.retries + RetryNumber(a) > MaxRetries
                THEN Ends("INSUFFICIENT_EVIDENCE", "retries") ELSE Moves("plan", "PLANNING")
<1>1. pc = "gap" => state = "GAP_IDENTIFICATION" BY DEF Where, WhereInv
<1>2. ValidTransition("GAP_IDENTIFICATION", "ACTION_SELECTION") BY Allowed
<1>3. /\ "PLANNING" \notin TerminalStates
      /\ {"POLICY_BLOCKED", "BLOCKED_BY_MISSING_SOURCE", "INSUFFICIENT_EVIDENCE"}
           \subseteq TerminalStates
  BY DEF TerminalStates
<1>4. NothingToSelect => Ends(PlannerTerminal, "planner")
  <2> SUFFICES ASSUME NothingToSelect PROVE Ends(PlannerTerminal, "planner") OBVIOUS
  <2>1. pc = "gap" /\ Go(<<"ACTION_SELECTION", PlannerTerminal>>, "done", "planner")
    BY DEF NothingToSelect
  <2>2. PlannerTerminal \in {"POLICY_BLOCKED", "BLOCKED_BY_MISSING_SOURCE", "INSUFFICIENT_EVIDENCE"}
    BY <2>1, GateOpen DEF PlannerTerminal
  <2>3. ValidTransition("ACTION_SELECTION", PlannerTerminal) BY <2>2, Allowed
  <2> QED BY <1>1, <1>2, <1>3, <2>1, <2>2, <2>3, GoTwo
<1>5. ASSUME NEW a, Select(a)
      PROVE  IF RetryNumber(a) > 0 /\ usage.retries + RetryNumber(a) > MaxRetries
                THEN Ends("INSUFFICIENT_EVIDENCE", "retries") ELSE Moves("plan", "PLANNING")
  <2>1. pc = "gap" BY <1>5 DEF Select
  <2>2. CASE RetryNumber(a) > 0 /\ usage.retries + RetryNumber(a) > MaxRetries
    <3>1. Go(<<"ACTION_SELECTION", "INSUFFICIENT_EVIDENCE">>, "done", "retries")
      BY <1>5, <2>2 DEF Select
    <3> QED BY <1>1, <1>2, <1>3, <2>1, <2>2, <3>1, GoTwo, Allowed
  <2>3. CASE ~(RetryNumber(a) > 0 /\ usage.retries + RetryNumber(a) > MaxRetries)
    <3>1. Go(<<"ACTION_SELECTION", "PLANNING">>, "plan", "none")
      BY <1>5, <2>3 DEF Select
    <3> QED BY <1>1, <1>2, <1>3, <2>1, <2>3, <3>1, GoTwo, Allowed
  <2> QED BY <2>2, <2>3
<1> QED BY <1>4, <1>5

LEMMA QueryWhere ==
  ASSUME Where
  PROVE  /\ \A n : PlanQueries(n) => Moves("validate", "VALIDATION")
         /\ \A n : Approve(n) =>
              IF usage.sql + n > MaxSql THEN Raises /\ state = "VALIDATION"
              ELSE Moves("cleared", "EXECUTION")
         /\ StartExecution => Moves("running", "EXECUTION")
         /\ \A rows : ExecuteReturns(rows) => Moves("verify", "VERIFICATION")
         /\ \A result : PlanEmpty \/ RejectAll \/ Verified(result) =>
              Moves("update", "STATE_UPDATE")
<1>1. /\ pc = "plan" => state = "PLANNING"
      /\ pc = "validate" => state = "VALIDATION"
      /\ pc \in {"cleared", "running"} => state = "EXECUTION"
      /\ pc = "verify" => state = "VERIFICATION"
  BY DEF Where, WhereInv
<1>2. {"VALIDATION", "EXECUTION", "VERIFICATION", "STATE_UPDATE"} \cap TerminalStates = {}
  BY DEF TerminalStates
<1>3. \A n : PlanQueries(n) => Moves("validate", "VALIDATION")
  BY <1>1, <1>2, GoOne, Allowed DEF PlanQueries
<1>4. \A n : Approve(n) =>
              IF usage.sql + n > MaxSql THEN Raises /\ state = "VALIDATION"
              ELSE Moves("cleared", "EXECUTION")
  BY <1>1, <1>2, GoOne, Allowed DEF Approve
<1>5. StartExecution => Moves("running", "EXECUTION")
  BY <1>1 DEF StartExecution, Moves, ledgerVars
<1>6. \A rows : ExecuteReturns(rows) => Moves("verify", "VERIFICATION")
  BY <1>1, <1>2, GoOne, Allowed DEF ExecuteReturns
<1>7. \A result : PlanEmpty \/ RejectAll \/ Verified(result) => Moves("update", "STATE_UPDATE")
  BY <1>1, <1>2, GoOne, Allowed DEF PlanEmpty, RejectAll, Verified, GiveUpAction
<1> QED BY <1>3, <1>4, <1>5, <1>6, <1>7

LEMMA PersistWhere ==
  ASSUME Where, PersistStep
  PROVE  IF BudgetTerminal(usage') = NoState THEN Moves("top", "STOP_EVALUATION")
         ELSE Ends(BudgetTerminal(usage'), "budget")
<1>1. pc = "update" /\ state = "STATE_UPDATE"
  BY DEF PersistStep, Where, WhereInv
<1>2. "STOP_EVALUATION" \notin TerminalStates /\ ValidTransition(state, "STOP_EVALUATION")
  BY <1>1, Allowed DEF TerminalStates
<1>3. CASE BudgetTerminal(usage') = NoState
  <2>1. Go(<<"STOP_EVALUATION">>, "top", "none") BY <1>3 DEF PersistStep
  <2> QED BY <1>1, <1>2, <1>3, <2>1, GoOne
<1>4. CASE BudgetTerminal(usage') # NoState
  <2>1. Go(<<"STOP_EVALUATION", BudgetTerminal(usage')>>, "done", "budget")
    BY <1>4 DEF PersistStep
  <2>2. BudgetTerminal(usage') \in TerminalStates BY <1>4, BudgetStates DEF TerminalStates
  <2>3. ValidTransition("STOP_EVALUATION", BudgetTerminal(usage')) BY <2>2, Allowed
  <2> QED BY <1>1, <1>2, <1>4, <2>1, <2>2, <2>3, GoTwo
<1> QED BY <1>3, <1>4

-----------------------------------------------------------------------------
(* Types.                                                                  *)

(* v is a usage with these amounts.                                        *)
Charged(v, iterations, sql, rows, llm, retries) ==
  /\ v \in Usage
  /\ v.iterations = iterations /\ v.sql = sql /\ v.rows = rows
  /\ v.llm = llm /\ v.retries = retries

LEMMA Spent ==
  ASSUME NEW u \in Usage, NEW b \in BOOLEAN, NEW n \in Nat, NEW m \in Nat
  PROVE  /\ Charged([u EXCEPT !.late = b], u.iterations, u.sql, u.rows, u.llm, u.retries)
         /\ Charged([u EXCEPT !.llm = n], u.iterations, u.sql, u.rows, n, u.retries)
         /\ Charged([u EXCEPT !.retries = n], u.iterations, u.sql, u.rows, u.llm, n)
         /\ Charged([u EXCEPT !.sql = n, !.rows = m], u.iterations, n, m, u.llm, u.retries)
         /\ Charged([u EXCEPT !.iterations = n, !.late = b], n, u.sql, u.rows, u.llm, u.retries)
BY DEF Usage, Charged

LEMMA UsageStep ==
  ASSUME Where
  PROVE  LET u == usage IN
         /\ BeginIteration =>
              Charged(usage', u.iterations, u.sql, u.rows, u.llm, u.retries)
         /\ \A calls \in 0..MaxAssessCalls : Charge(calls) =>
              Charged(usage', u.iterations, u.sql, u.rows, u.llm + calls, u.retries)
         /\ \A a : Select(a) =>
              Charged(usage', u.iterations, u.sql, u.rows, u.llm, u.retries + RetryNumber(a))
         /\ \A rows \in 0..MaxBatchRows : ExecuteReturns(rows) =>
              Charged(usage', u.iterations, u.sql + batch, u.rows + rows, u.llm, u.retries)
         /\ PersistStep =>
              Charged(usage', u.iterations + 1, u.sql, u.rows, u.llm, u.retries)
<1>1. /\ usage \in Usage /\ batch \in Nat /\ late \in BOOLEAN
      /\ MaxAssessCalls \in Nat /\ MaxBatchRows \in Nat
  BY Sane
<1>2. /\ usage.iterations \in Nat /\ usage.sql \in Nat /\ usage.rows \in Nat /\ usage.llm \in Nat
      /\ usage.retries \in Nat
  BY <1>1 DEF Usage
<1>3. BeginIteration =>
        Charged(usage', usage.iterations, usage.sql, usage.rows, usage.llm, usage.retries)
  <2>1. BeginIteration => usage' = [usage EXCEPT !.late = late] BY DEF BeginIteration
  <2> QED BY <1>1, <2>1, Spent
<1>4. ASSUME NEW calls \in 0..MaxAssessCalls, Charge(calls)
      PROVE  Charged(usage', usage.iterations, usage.sql, usage.rows, usage.llm + calls,
                     usage.retries)
  <2>1. usage' = [usage EXCEPT !.llm = usage.llm + calls] BY <1>1, <1>4 DEF Charge, Usage
  <2>2. usage.llm + calls \in Nat BY <1>1, <1>2
  <2> QED BY <1>1, <2>1, <2>2, Spent
<1>5. ASSUME NEW a, Select(a)
      PROVE  Charged(usage', usage.iterations, usage.sql, usage.rows, usage.llm,
                     usage.retries + RetryNumber(a))
  <2>1. usage' = [usage EXCEPT !.retries = usage.retries + RetryNumber(a)] BY <1>5 DEF Select
  <2>2. usage.retries + RetryNumber(a) \in Nat BY <1>2 DEF RetryNumber
  <2> QED BY <1>1, <2>1, <2>2, Spent
<1>6. ASSUME NEW rows \in 0..MaxBatchRows, ExecuteReturns(rows)
      PROVE  Charged(usage', usage.iterations, usage.sql + batch, usage.rows + rows,
                     usage.llm, usage.retries)
  <2>1. usage' = [usage EXCEPT !.sql = usage.sql + batch, !.rows = usage.rows + rows]
    BY <1>1, <1>6 DEF ExecuteReturns, Usage
  <2>2. usage.sql + batch \in Nat /\ usage.rows + rows \in Nat BY <1>1, <1>2
  <2> QED BY <1>1, <2>1, <2>2, Spent
<1>7. PersistStep =>
        Charged(usage', usage.iterations + 1, usage.sql, usage.rows, usage.llm, usage.retries)
  <2>1. PersistStep => usage' = [usage EXCEPT !.iterations = usage.iterations + 1, !.late = late]
    BY <1>1 DEF PersistStep, Usage
  <2>2. usage.iterations + 1 \in Nat BY <1>2
  <2> QED BY <1>1, <2>1, <2>2, Spent
<1> QED BY <1>3, <1>4, <1>5, <1>6, <1>7

LEMMA TypedAgain ==
  ASSUME state' \in InvestigationState, iter' \in Nat, pc' \in Control, usage' \in Usage,
         history' \in [Actions -> Seq(Outcome)],
         found' \in [candidates : SUBSET Actions, blocked : SUBSET Actions, external : BOOLEAN],
         action' \in Actions \cup {NoAction}, batch' \in 0..MaxBatch, outcome' \in StepOutcome,
         decisions' \in Seq(Decision), steps' \in Seq(StepRow),
         reason' \in {"none", "cancel", "error", "budget", "assessment", "planner", "retries",
                      "approved"},
         cancel' \in [sql : Nat, running : BOOLEAN, made : BOOLEAN], late' \in BOOLEAN
  PROVE  TypeOK'
BY DEF TypeOK, Usage, Decision, StepRow

Reasons == {"none", "cancel", "error", "budget", "assessment", "planner", "retries", "approved"}

LEMMA Typed ==
  ASSUME Where
  PROVE  /\ state \in InvestigationState /\ iter \in Nat /\ pc \in Control /\ usage \in Usage
         /\ history \in [Actions -> Seq(Outcome)]
         /\ found \in [candidates : SUBSET Actions, blocked : SUBSET Actions, external : BOOLEAN]
         /\ action \in Actions \cup {NoAction} /\ batch \in 0..MaxBatch /\ outcome \in StepOutcome
         /\ decisions \in Seq(Decision) /\ steps \in Seq(StepRow) /\ reason \in Reasons
         /\ cancel \in [sql : Nat, running : BOOLEAN, made : BOOLEAN] /\ late \in BOOLEAN
BY DEF Where, TypeOK, Usage, Decision, StepRow, Reasons

LEMMA WhereTypes ==
  ASSUME Where,
         \/ \E s, why : Ends(s, why) /\ why \in Reasons
         \/ Raises
         \/ \E next \in Control, s \in InvestigationState : Moves(next, s)
  PROVE  state' \in InvestigationState /\ iter' \in Nat /\ pc' \in Control /\ reason' \in Reasons
BY Typed DEF Ends, Raises, Moves, ledgerVars, Control, InvestigationState

LEMMA StepTypes ==
  ASSUME Where, Step
  PROVE  TypeOK'
<1> USE DEF Control, Reasons
<1>0. /\ TerminalStates \subseteq InvestigationState
      /\ {"EVIDENCE_ASSESSMENT", "GAP_IDENTIFICATION", "PLANNING", "VALIDATION", "EXECUTION",
          "VERIFICATION", "STATE_UPDATE", "STOP_EVALUATION"} \subseteq InvestigationState
      /\ UNCHANGED cancel /\ UNCHANGED late
  BY DEF InvestigationState, TransientStates, Step, StopForCancel, CallRaises, BeginIteration,
         AssessConcludes, AssessContinues, NothingToSelect, Select, PlanEmpty, PlanQueries,
         Approve, RejectAll, GiveUpAction, StartExecution, ExecuteReturns, Verified, PersistStep,
         envVars
<1>1. CASE StopForCancel \/ CallRaises
  <2>1. state' \in InvestigationState /\ iter' \in Nat /\ pc' \in Control /\ reason' \in Reasons
    BY <1>1, CancelWhere, ErrorWhere, WhereTypes
  <2> QED BY <1>0, <1>1, <2>1, Typed, TypedAgain DEF StopForCancel, CallRaises, stepVars
<1>2. CASE BeginIteration
  <2>1. state' \in InvestigationState /\ iter' \in Nat /\ pc' \in Control /\ reason' \in Reasons
    <3>1. CASE \E s, why : Ends(s, why) /\ why \in Reasons BY <3>1, WhereTypes
    <3>2. CASE Moves("assess", state) BY <3>2, Typed, WhereTypes
    <3>3. CASE pc' = "assess" /\ state' = "EVIDENCE_ASSESSMENT" /\ UNCHANGED reason
               /\ iter' \in {iter, iter + 1}
      BY <1>0, <3>3, Typed
    <3> QED BY <1>2, <3>1, <3>2, <3>3, BeginWhere
  <2> QED BY <1>0, <1>2, <2>1, Typed, TypedAgain, UsageStep DEF BeginIteration, stepVars, Charged
<1>3. ASSUME NEW calls \in 0..MaxAssessCalls, NEW terminal \in Conclusion,
             AssessConcludes(terminal, calls)
      PROVE  TypeOK'
  <2>1. state' \in InvestigationState /\ iter' \in Nat /\ pc' \in Control /\ reason' \in Reasons
    BY <1>3, AssessWhere, WhereTypes
  <2>2. usage' \in Usage BY <1>3, UsageStep DEF AssessConcludes, Charged
  <2> QED BY <1>0, <1>3, <2>1, <2>2, Typed, TypedAgain DEF AssessConcludes, stepVars
<1>4. ASSUME NEW calls \in 0..MaxAssessCalls, NEW candidates \in SUBSET Actions,
             NEW blocked \in SUBSET candidates, NEW external \in BOOLEAN,
             AssessContinues(candidates, blocked, external, calls)
      PROVE  TypeOK'
  <2>1. state' \in InvestigationState /\ iter' \in Nat /\ pc' \in Control /\ reason' \in Reasons
    BY <1>0, <1>4, AssessWhere, WhereTypes
  <2>2. usage' \in Usage BY <1>4, UsageStep DEF AssessContinues, Charged
  <2>3. found' \in [candidates : SUBSET Actions, blocked : SUBSET Actions, external : BOOLEAN]
    BY <1>4 DEF AssessContinues
  <2> QED BY <1>0, <1>4, <2>1, <2>2, <2>3, Typed, TypedAgain DEF AssessContinues
<1>5. CASE NothingToSelect
  <2>1. state' \in InvestigationState /\ iter' \in Nat /\ pc' \in Control /\ reason' \in Reasons
    BY <1>5, SelectWhere, WhereTypes
  <2>2. decisions' \in Seq(Decision)
    <3>1. [action |-> NoAction, retry |-> 0] \in Decision BY DEF Decision
    <3> QED BY <1>5, <3>1, Typed DEF NothingToSelect
  <2> QED BY <1>0, <1>5, <2>1, <2>2, Typed, TypedAgain DEF NothingToSelect, stepVars
<1>6. ASSUME NEW a \in Actions, Select(a) PROVE TypeOK'
  <2>1. state' \in InvestigationState /\ iter' \in Nat /\ pc' \in Control /\ reason' \in Reasons
    <3>1. (\E s, why : Ends(s, why) /\ why \in Reasons) \/ Moves("plan", "PLANNING")
      BY <1>6, SelectWhere
    <3> QED BY <1>0, <3>1, WhereTypes
  <2>2. decisions' \in Seq(Decision)
    <3>1. [action |-> a, retry |-> RetryNumber(a)] \in Decision BY DEF Decision, RetryNumber
    <3> QED BY <1>6, <3>1, Typed DEF Select
  <2>3. usage' \in Usage BY <1>6, UsageStep DEF Charged
  <2> QED BY <1>0, <1>6, <2>1, <2>2, <2>3, Typed, TypedAgain DEF Select
<1>7. ASSUME NEW n \in 1..MaxBatch, PlanQueries(n) \/ Approve(n) PROVE TypeOK'
  <2>1. state' \in InvestigationState /\ iter' \in Nat /\ pc' \in Control /\ reason' \in Reasons
    BY <1>0, <1>7, QueryWhere, WhereTypes
  <2>2. batch' \in 0..MaxBatch BY <1>7, Sane DEF PlanQueries, Approve
  <2> QED BY <1>0, <1>7, <2>1, <2>2, Typed, TypedAgain DEF PlanQueries, Approve
<1>8. CASE StartExecution \/ \E rows \in 0..MaxBatchRows : ExecuteReturns(rows)
  <2>1. state' \in InvestigationState /\ iter' \in Nat /\ pc' \in Control /\ reason' \in Reasons
    BY <1>0, <1>8, QueryWhere, WhereTypes
  <2>2. usage' \in Usage BY <1>8, Typed, UsageStep DEF StartExecution, Charged
  <2> QED BY <1>0, <1>8, <2>1, <2>2, Typed, TypedAgain DEF StartExecution, ExecuteReturns, stepVars
<1>9. CASE PlanEmpty \/ RejectAll \/ \E result \in Outcome : Verified(result)
  <2>1. state' \in InvestigationState /\ iter' \in Nat /\ pc' \in Control /\ reason' \in Reasons
    BY <1>0, <1>9, QueryWhere, WhereTypes
  <2>2. PICK x \in Outcome, o \in StepOutcome :
          /\ history' = [history EXCEPT ![action] = Append(history[action], x)] /\ outcome' = o
          /\ UNCHANGED <<usage, found, action, batch, decisions, steps>>
    BY <1>9 DEF PlanEmpty, RejectAll, GiveUpAction, Verified, Settle, Outcome, StepOutcome
  <2>3. action \in Actions
    BY <1>9 DEF PlanEmpty, RejectAll, GiveUpAction, Verified, Where, WhereInv, Planned
  <2>4. history' \in [Actions -> Seq(Outcome)] BY <2>2, <2>3, Typed
  <2> QED BY <1>0, <2>1, <2>2, <2>4, Typed, TypedAgain
<1>10. CASE PersistStep
  <2>1. state' \in InvestigationState /\ iter' \in Nat /\ pc' \in Control /\ reason' \in Reasons
    <3>1. (\E s, why : Ends(s, why) /\ why \in Reasons) \/ Moves("top", "STOP_EVALUATION")
      BY <1>10, PersistWhere
    <3> QED BY <1>0, <3>1, WhereTypes
  <2>2. usage' \in Usage BY <1>10, UsageStep DEF Charged
  <2>3. steps' \in Seq(StepRow)
    <3>1. usage'.iterations \in Nat BY <2>2 DEF Usage
    <3>2. steps' = Append(steps, [iteration |-> usage'.iterations, ledger |-> iter,
                                  action |-> action, outcome |-> outcome])
      BY <1>10 DEF PersistStep
    <3>3. action \in Actions BY <1>10 DEF PersistStep, Where, WhereInv, Planned
    <3> QED BY <3>1, <3>2, <3>3, Typed DEF StepRow
  <2> QED BY <1>0, <1>10, <2>1, <2>2, <2>3, Typed, TypedAgain DEF PersistStep, stepVars
<1> QED BY <1>1, <1>2, <1>3, <1>4, <1>5, <1>6, <1>7, <1>8, <1>9, <1>10 DEF Step

-----------------------------------------------------------------------------
(* Places and budgets.                                                     *)
LEMMA BudgetLeft ==
  ASSUME NEW u \in Usage
  PROVE  /\ BudgetTerminal(u) = NoState =>
              /\ u.iterations < MaxIterations /\ u.sql < MaxSql /\ u.rows < MaxRows
              /\ ~u.late /\ u.llm <= MaxLlm
         /\ BudgetTerminal(u) = "QUERY_BUDGET_EXHAUSTED" => u.sql >= MaxSql \/ u.rows >= MaxRows
         /\ BudgetTerminal(u) = "ITERATION_BUDGET_EXHAUSTED" =>
              \/ u.iterations >= MaxIterations
              \/ u.rows < MaxRows /\ (u.late \/ u.llm > MaxLlm)
<1>1. {MaxIterations, MaxSql, MaxRows, MaxLlm} \subseteq Nat
  BY LoopAssumption DEF LoopAssumption
<1>2. "ITERATION_BUDGET_EXHAUSTED" # NoState /\ "QUERY_BUDGET_EXHAUSTED" # NoState BY DEF NoState
<1>3. u.iterations \in Nat /\ u.sql \in Nat /\ u.rows \in Nat /\ u.llm \in Nat BY DEF Usage
<1> QED BY <1>1, <1>2, <1>3 DEF BudgetTerminal

(* A call that is over stays within its limits.                            *)
LEMMA Over ==
  ASSUME Where, WithinLimits',
         (\E s, why : Ends(s, why)) \/ (Raises /\ state \in TerminalStates)
  PROVE  WhereInv' /\ BudgetInv'
BY DEF Ends, Raises, WhereInv, BudgetInv, OnlyBatchesRefused, Running, Planned, ledgerVars

LEMMA EnvSame ==
  ASSUME RequestCancel \/ DeadlinePasses \/ Ended \/ UNCHANGED vars
  PROVE  UNCHANGED <<ledgerVars, pc, usage, history, stepVars, decisions, steps, reason>>
BY DEF RequestCancel, DeadlinePasses, Ended, vars

LEMMA WhereEnv ==
  ASSUME Where, RequestCancel \/ DeadlinePasses \/ Ended \/ UNCHANGED vars
  PROVE  WhereInv' /\ BudgetInv'
BY EnvSame DEF Where, WhereInv, BudgetInv, WithinLimits, OnlyBatchesRefused, Running, ledgerVars,
               stepVars

LEMMA WhereNext ==
  ASSUME Where, Step
  PROVE  WhereInv' /\ BudgetInv'
<1>0. /\ usage.iterations \in Nat /\ usage.sql \in Nat /\ usage.rows \in Nat
      /\ usage.llm \in Nat /\ usage.retries \in Nat /\ batch \in Nat
      /\ MaxIterations \in Nat /\ MaxSql \in Nat /\ MaxRows \in Nat \ {0} /\ MaxLlm \in Nat
      /\ MaxRetries \in Nat /\ MaxBatchRows \in Nat /\ MaxAssessCalls \in Nat /\ MaxBatch \in Nat
  BY Sane DEF Usage
<1>1. CASE StopForCancel \/ CallRaises
  <2>1. UNCHANGED usage BY <1>1 DEF StopForCancel, CallRaises
  <2>2. WithinLimits' BY <2>1 DEF Where, BudgetInv, WithinLimits
  <2> QED BY <1>1, <2>2, CancelWhere, ErrorWhere, Over
<1>2. CASE BeginIteration
  <2>1. /\ Charged(usage', usage.iterations, usage.sql, usage.rows, usage.llm, usage.retries)
        /\ pc = "top"
    BY <1>2, UsageStep DEF BeginIteration
  <2>2. WithinLimits' BY <2>1 DEF Where, BudgetInv, WithinLimits, Charged
  <2>3. CASE pc' = "assess" /\ state' \in {"EVIDENCE_ASSESSMENT"} \cup TerminalStates
    BY <2>1, <2>2, <2>3 DEF Where, WhereInv, BudgetInv, Running, Charged, Planned, OnlyBatchesRefused
  <2> QED BY <1>2, <2>2, <2>3, BeginWhere, Over DEF Moves
<1>3. ASSUME NEW calls \in 0..MaxAssessCalls, NEW terminal \in Conclusion,
             AssessConcludes(terminal, calls)
      PROVE  WhereInv' /\ BudgetInv'
  <2>1. /\ Charged(usage', usage.iterations, usage.sql, usage.rows, usage.llm + calls, usage.retries)
        /\ pc = "assess"
    BY <1>3, UsageStep DEF AssessConcludes
  <2>2. WithinLimits' BY <1>0, <2>1 DEF Where, BudgetInv, WithinLimits, Charged
  <2> QED BY <1>3, <2>2, AssessWhere, Over
<1>4. ASSUME NEW calls \in 0..MaxAssessCalls, NEW candidates, NEW blocked, NEW external,
             AssessContinues(candidates, blocked, external, calls)
      PROVE  WhereInv' /\ BudgetInv'
  <2>1. /\ Charged(usage', usage.iterations, usage.sql, usage.rows, usage.llm + calls, usage.retries)
        /\ pc = "assess"
    BY <1>4, UsageStep DEF AssessContinues
  <2>2. WithinLimits' BY <1>0, <2>1 DEF Where, BudgetInv, WithinLimits, Charged
  <2>3. CASE Moves("gap", "GAP_IDENTIFICATION")
    BY <2>1, <2>2, <2>3 DEF Moves, Where, WhereInv, BudgetInv, Running, Charged, Planned,
                            OnlyBatchesRefused
  <2> QED BY <1>4, <2>2, <2>3, AssessWhere, Over
<1>5. CASE NothingToSelect
  <2>1. UNCHANGED usage BY <1>5 DEF NothingToSelect
  <2>2. WithinLimits' BY <2>1 DEF Where, BudgetInv, WithinLimits
  <2> QED BY <1>5, <2>2, SelectWhere, Over
<1>6. ASSUME NEW a \in Actions, Select(a) PROVE WhereInv' /\ BudgetInv'
  <2>1. /\ Charged(usage', usage.iterations, usage.sql, usage.rows, usage.llm,
                   usage.retries + RetryNumber(a))
        /\ pc = "gap" /\ action' = a
    BY <1>6, UsageStep DEF Select
  <2>2. WithinLimits' BY <2>1 DEF Where, BudgetInv, WithinLimits, Charged
  <2>3. CASE Moves("plan", "PLANNING") /\ ~(RetryNumber(a) > 0 /\ usage.retries + RetryNumber(a) > MaxRetries)
    <3>1. usage'.retries <= MaxRetries
      BY <1>0, <2>1, <2>3 DEF Charged, RetryNumber, Where, BudgetInv, Running
    <3> QED BY <1>6, <2>1, <2>2, <2>3, <3>1 DEF Moves, Where, WhereInv, BudgetInv, Running,
                                                Charged, OnlyBatchesRefused
  <2> QED BY <1>6, <2>2, <2>3, SelectWhere, Over
<1>7. ASSUME NEW n \in 1..MaxBatch, PlanQueries(n) PROVE WhereInv' /\ BudgetInv'
  <2>1. Moves("validate", "VALIDATION") /\ UNCHANGED <<usage, action>> /\ pc = "plan"
    BY <1>7, QueryWhere DEF PlanQueries
  <2> QED BY <2>1 DEF Moves, Where, WhereInv, BudgetInv, WithinLimits, Running, Planned,
                      OnlyBatchesRefused
<1>8. ASSUME NEW n \in 1..MaxBatch, Approve(n) PROVE WhereInv' /\ BudgetInv'
  <2>1. UNCHANGED <<usage, action>> /\ pc = "validate" /\ batch' = n /\ n \in Nat
    BY <1>0, <1>8 DEF Approve
  <2>2. CASE usage.sql + n > MaxSql
    <3>1. Raises /\ state = "VALIDATION" BY <1>8, <2>2, QueryWhere
    <3> QED BY <2>1, <2>2, <3>1 DEF Raises, Where, WhereInv, BudgetInv, WithinLimits, Running,
                                    Planned, OnlyBatchesRefused, ledgerVars
  <2>3. CASE usage.sql + n <= MaxSql
    <3>1. Moves("cleared", "EXECUTION") BY <1>0, <1>8, <2>1, <2>3, QueryWhere
    <3> QED BY <2>1, <2>3, <3>1 DEF Moves, Where, WhereInv, BudgetInv, WithinLimits, Running,
                                    Planned, OnlyBatchesRefused
  <2> QED BY <1>0, <2>1, <2>2, <2>3
<1>9. CASE StartExecution
  <2>1. Moves("running", "EXECUTION") /\ UNCHANGED <<usage, action, batch>> /\ pc = "cleared"
    BY <1>9, QueryWhere DEF StartExecution, stepVars
  <2> QED BY <2>1 DEF Moves, Where, WhereInv, BudgetInv, WithinLimits, Running, Planned,
                      OnlyBatchesRefused
<1>10. ASSUME NEW rows \in 0..MaxBatchRows, ExecuteReturns(rows) PROVE WhereInv' /\ BudgetInv'
  <2>1. /\ Moves("verify", "VERIFICATION") /\ UNCHANGED <<action, batch>> /\ pc = "running"
        /\ Charged(usage', usage.iterations, usage.sql + batch, usage.rows + rows, usage.llm,
                   usage.retries)
    BY <1>10, QueryWhere, UsageStep DEF ExecuteReturns, stepVars
  <2>2. WithinLimits'
    <3>1. usage.rows < MaxRows /\ usage.sql + batch <= MaxSql
      BY <2>1 DEF Where, BudgetInv, Running
    <3> QED BY <1>0, <2>1, <3>1 DEF Where, BudgetInv, WithinLimits, Charged
  <2> QED BY <2>1, <2>2 DEF Moves, Where, WhereInv, BudgetInv, Running, Planned, Charged,
                            OnlyBatchesRefused
<1>11. CASE PlanEmpty \/ RejectAll \/ \E result \in Outcome : Verified(result)
  <2>1. /\ Moves("update", "STATE_UPDATE") /\ UNCHANGED <<usage, action>>
        /\ pc \in {"plan", "validate", "verify"}
    BY <1>11, QueryWhere DEF PlanEmpty, RejectAll, GiveUpAction, Verified
  <2> QED BY <2>1 DEF Moves, Where, WhereInv, BudgetInv, WithinLimits, Running, Planned,
                      OnlyBatchesRefused
<1>12. CASE PersistStep
  <2>1. /\ Charged(usage', usage.iterations + 1, usage.sql, usage.rows, usage.llm, usage.retries)
        /\ pc = "update"
    BY <1>12, UsageStep DEF PersistStep
  <2>2. WithinLimits' BY <1>0, <2>1 DEF Where, BudgetInv, WithinLimits, Charged, Running
  <2>3. CASE BudgetTerminal(usage') = NoState
    <3>1. Moves("top", "STOP_EVALUATION") BY <1>12, <2>3, PersistWhere
    <3>2. usage' \in Usage BY <2>1 DEF Charged
    <3>3. /\ usage'.iterations < MaxIterations /\ usage'.sql < MaxSql /\ usage'.rows < MaxRows
          /\ usage'.llm <= MaxLlm
      BY <2>3, <3>2, BudgetLeft
    <3> QED BY <2>1, <2>2, <3>1, <3>3 DEF Moves, Where, WhereInv, BudgetInv, Running, Planned,
                                          Charged, OnlyBatchesRefused
  <2> QED BY <1>12, <2>2, <2>3, PersistWhere, Over
<1> QED
  BY <1>1, <1>2, <1>3, <1>4, <1>5, <1>6, <1>7, <1>8, <1>9, <1>10, <1>11, <1>12 DEF Step

-----------------------------------------------------------------------------
(* Reasons.                                                                *)
OfNoBudget(s) == s \notin {"QUERY_BUDGET_EXHAUSTED", "ITERATION_BUDGET_EXHAUSTED"}

LEMMA Reasoned ==
  ASSUME \/ \E s, why : Ends(s, why) /\ why # "planner" /\ OfNoBudget(s)
         \/ Raises /\ state # "STOP_EVALUATION"
         \/ \E next, s : Moves(next, s) /\ next # "done" /\ s # "STOP_EVALUATION"
  PROVE  StopsForAReason'
<1>1. "STOP_EVALUATION" \notin TerminalStates BY DEF TerminalStates
<1> QED BY <1>1 DEF StopsForAReason, Ends, Raises, Moves, OfNoBudget, ledgerVars

LEMMA ReasonedBudget ==
  ASSUME usage' \in Usage, BudgetTerminal(usage') # NoState,
         Ends(BudgetTerminal(usage'), "budget")
  PROVE  StopsForAReason'
<1>1. "STOP_EVALUATION" \notin TerminalStates BY DEF TerminalStates
<1>2. BudgetTerminal(usage') = "QUERY_BUDGET_EXHAUSTED" => usage'.sql >= MaxSql \/ usage'.rows >= MaxRows
  BY BudgetLeft
<1>3. BudgetTerminal(usage') = "ITERATION_BUDGET_EXHAUSTED" =>
        \/ usage'.iterations >= MaxIterations
        \/ usage'.rows < MaxRows /\ (usage'.late \/ usage'.llm > MaxLlm)
  BY BudgetLeft
<1> DEFINE b == BudgetTerminal(usage')
<1>4. pc' = "done" /\ state' = b /\ reason' = "budget" /\ b \in TerminalStates BY DEF Ends
<1> HIDE DEF b
<1> QED BY <1>1, <1>2, <1>3, <1>4 DEF StopsForAReason, b

LEMMA StopsNext ==
  ASSUME Where, Step
  PROVE  StopsForAReason'
<1>0. TerminalStates \cap {"STOP_EVALUATION", "VALIDATION"} = {} BY DEF TerminalStates
<1>1. CASE StopForCancel \/ CallRaises
  BY <1>0, <1>1, CancelWhere, ErrorWhere, Reasoned DEF OfNoBudget
<1>2. CASE BeginIteration
  <2>1. usage' \in Usage BY <1>2, UsageStep DEF Charged
  <2>2. CASE pc' = "assess" /\ state' = "EVIDENCE_ASSESSMENT" BY <2>2 DEF StopsForAReason
  <2>3. CASE state \in TerminalStates /\ Moves("assess", state) BY <1>0, <2>3, Reasoned
  <2> QED BY <1>2, <2>1, <2>2, <2>3, BeginWhere, ReasonedBudget
<1>3. ASSUME NEW calls \in 0..MaxAssessCalls, NEW terminal \in Conclusion,
             AssessConcludes(terminal, calls)
      PROVE  StopsForAReason'
  BY <1>0, <1>3, AssessWhere, Reasoned DEF Conclusion, OfNoBudget
<1>4. ASSUME NEW calls \in 0..MaxAssessCalls, NEW candidates, NEW blocked, NEW external,
             AssessContinues(candidates, blocked, external, calls)
      PROVE  StopsForAReason'
  BY <1>0, <1>4, AssessWhere, Reasoned
<1>5. CASE NothingToSelect
  <2>1. /\ Ends(PlannerTerminal, "planner") /\ pc = "gap" /\ Eligible = {}
        /\ UNCHANGED <<history, found>>
    BY <1>5, SelectWhere DEF NothingToSelect, stepVars
  <2>2. PlannerGate = NoState BY <2>1, GateOpen
  <2>3. \A a \in found.candidates : a \in found.blocked \/ history[a] # <<>>
    BY <2>1, <2>2 DEF Eligible, Repeatable
  <2>4. /\ PlannerTerminal \in {"POLICY_BLOCKED", "BLOCKED_BY_MISSING_SOURCE",
                                "INSUFFICIENT_EVIDENCE"}
        /\ PlannerTerminal = "POLICY_BLOCKED" => \E a \in found.blocked : Repeatable(a)
    BY <2>2 DEF PlannerTerminal, PolicyRejected
  <2>5. pc' = "done" /\ state' = PlannerTerminal BY <2>1 DEF Ends
  <2>6. state' = "POLICY_BLOCKED" => (\E a \in found.blocked : Repeatable(a))'
    BY <2>1, <2>4, <2>5 DEF Repeatable
  <2>7. state' \in {"POLICY_BLOCKED", "BLOCKED_BY_MISSING_SOURCE", "INSUFFICIENT_EVIDENCE"}
    BY <2>4, <2>5
  <2> QED BY <2>1, <2>3, <2>6, <2>7 DEF StopsForAReason
<1>6. ASSUME NEW a \in Actions, Select(a) PROVE StopsForAReason'
  BY <1>6, SelectWhere, Reasoned DEF OfNoBudget
<1>7. ASSUME NEW n \in 1..MaxBatch, PlanQueries(n) \/ Approve(n) PROVE StopsForAReason'
  BY <1>7, QueryWhere, Reasoned
<1>8. CASE StartExecution \/ \E rows \in 0..MaxBatchRows : ExecuteReturns(rows)
  BY <1>8, QueryWhere, Reasoned
<1>9. CASE PlanEmpty \/ RejectAll \/ \E result \in Outcome : Verified(result)
  BY <1>9, QueryWhere, Reasoned
<1>10. CASE PersistStep
  <2>1. usage' \in Usage BY <1>10, UsageStep DEF Charged
  <2>2. CASE BudgetTerminal(usage') = NoState
    <3>1. /\ usage'.iterations < MaxIterations /\ usage'.sql < MaxSql /\ usage'.rows < MaxRows
          /\ usage'.llm <= MaxLlm
      BY <2>1, <2>2, BudgetLeft
    <3>2. pc' = "top" BY <1>10, <2>2, PersistWhere DEF Moves
    <3> QED BY <3>1, <3>2 DEF StopsForAReason
  <2> QED BY <1>10, <2>1, <2>2, PersistWhere, ReasonedBudget
<1> QED BY <1>1, <1>2, <1>3, <1>4, <1>5, <1>6, <1>7, <1>8, <1>9, <1>10 DEF Step

LEMMA StopsEnv ==
  ASSUME StopsForAReason, RequestCancel \/ DeadlinePasses \/ Ended \/ UNCHANGED vars
  PROVE  StopsForAReason'
BY EnvSame DEF StopsForAReason, Repeatable, ledgerVars, stepVars

-----------------------------------------------------------------------------
(* Cancellation.                                                           *)
LEMMA CancelNext ==
  ASSUME Where, CancelInv, Step
  PROVE  CancelInv'
<1>1. UNCHANGED cancel
  BY DEF Step, StopForCancel, CallRaises, BeginIteration, AssessConcludes, AssessContinues,
         NothingToSelect, Select, PlanEmpty, PlanQueries, Approve, RejectAll, GiveUpAction,
         StartExecution, ExecuteReturns, Verified, PersistStep, envVars
<1>2. CASE StartExecution
  <2>1. ~cancel.made BY <1>2 DEF StartExecution, Cancelled, Checkpoints
  <2> QED BY <1>1, <2>1 DEF CancelInv
<1>3. CASE \E rows \in 0..MaxBatchRows : ExecuteReturns(rows)
  <2>1. pc = "running" BY <1>3 DEF ExecuteReturns
  <2> QED BY <1>1, <2>1 DEF CancelInv
<1>4. CASE ~StartExecution /\ ~\E rows \in 0..MaxBatchRows : ExecuteReturns(rows)
  <2>1. pc' # "running"
    BY <1>4, CancelWhere, ErrorWhere, BeginWhere, AssessWhere, SelectWhere, QueryWhere, PersistWhere
    DEF Step, Ends, Raises, Moves
  <2>2. usage'.sql = usage.sql
    BY <1>4, UsageStep
    DEF Step, StopForCancel, CallRaises, AssessConcludes, AssessContinues,
        NothingToSelect, PlanEmpty, PlanQueries, Approve, RejectAll, GiveUpAction,
        Verified, Charged
  <2> QED BY <1>1, <2>1, <2>2 DEF CancelInv
<1> QED BY <1>2, <1>3, <1>4

LEMMA CancelEnv ==
  ASSUME Where, CancelInv, RequestCancel \/ DeadlinePasses \/ Ended \/ UNCHANGED vars
  PROVE  CancelInv'
<1>1. CASE RequestCancel
  <2>1. /\ cancel'.sql = usage.sql /\ UNCHANGED <<pc, usage>>
        /\ pc = "running" => cancel'.running
    BY <1>1 DEF RequestCancel
  <2>2. usage.sql \in Nat BY Sane DEF Usage
  <2> QED BY <2>1, <2>2 DEF CancelInv
<1>2. CASE DeadlinePasses \/ Ended \/ UNCHANGED vars
  BY <1>2 DEF DeadlinePasses, Ended, vars, CancelInv, envVars
<1> QED BY <1>1, <1>2

-----------------------------------------------------------------------------
(* Records.                                                                *)
LEMMA SameRecords ==
  ASSUME Where, RecordInv, UNCHANGED <<steps, decisions>>, usage'.iterations = usage.iterations,
         \/ pc' \in {"done", "raised"}
         \/ pc \in {"assess", "gap"} /\ pc' \in {"assess", "gap"} /\ UNCHANGED iter
         \/ pc \in Planned /\ pc' \in Planned /\ UNCHANGED <<iter, action>>
         \/ UNCHANGED <<pc, state, iter, action>>
  PROVE  RecordInv'
<1>1. RecordsAgree' BY DEF RecordInv, RecordsAgree
<1>2. CASE pc' \in {"done", "raised"} BY <1>1, <1>2 DEF RecordInv, Running, Planned
<1>3. CASE pc \in {"assess", "gap"} /\ pc' \in {"assess", "gap"} /\ UNCHANGED iter
  BY <1>1, <1>3 DEF RecordInv, Running, Planned
<1>4. CASE pc \in Planned /\ pc' \in Planned /\ UNCHANGED <<iter, action>>
  BY <1>1, <1>4 DEF RecordInv, Running, Planned
<1>5. CASE UNCHANGED <<pc, state, iter, action>>
  BY <1>1, <1>5 DEF RecordInv, Running, Planned
<1> QED BY <1>2, <1>3, <1>4, <1>5

LEMMA Selected ==
  ASSUME Where, RecordInv, pc = "gap", NEW d \in Decision, decisions' = Append(decisions, d),
         UNCHANGED steps, usage'.iterations = usage.iterations,
         \/ pc' \in {"done", "raised"}
         \/ pc' = "plan" /\ UNCHANGED iter /\ d.action = action'
  PROVE  RecordInv'
<1>1. decisions \in Seq(Decision) /\ steps \in Seq(StepRow) BY Typed
<1>2. /\ Len(decisions) = Len(steps) /\ RecordsAgree /\ usage.iterations = Len(steps)
      /\ Len(steps) = iter
  BY DEF RecordInv, Running
<1>3. /\ Len(decisions') = Len(steps) + 1 /\ decisions'[Len(steps) + 1] = d
      /\ \A k \in 1..Len(steps) : decisions'[k] = decisions[k]
  BY <1>1, <1>2
<1>4. RecordsAgree' BY <1>2, <1>3 DEF RecordsAgree
<1> QED BY <1>2, <1>3, <1>4 DEF RecordInv, Running, Planned

LEMMA RecordNext ==
  ASSUME Where, RecordInv, Step
  PROVE  RecordInv'
<1>1. CASE StopForCancel \/ CallRaises
  <2>1. UNCHANGED <<usage, steps, decisions>> BY <1>1 DEF StopForCancel, CallRaises
  <2>2. pc' \in {"done", "raised"} BY <1>1, CancelWhere, ErrorWhere DEF Ends, Raises
  <2> QED BY <2>1, <2>2, SameRecords DEF Planned
<1>2. CASE BeginIteration
  <2>1. /\ usage'.iterations = usage.iterations /\ UNCHANGED <<steps, decisions>> /\ pc = "top"
        /\ iter \in Nat
    BY <1>2, UsageStep, Typed DEF BeginIteration, Charged
  <2>2. CASE pc' = "done" BY <2>1, <2>2, SameRecords DEF Planned
  <2>3. CASE pc' = "assess"
    <3>1. Len(steps) = IF state = "STOP_EVALUATION" THEN iter + 1 ELSE iter
      BY <2>1 DEF RecordInv
    <3>2. "STOP_EVALUATION" \notin TerminalStates BY DEF TerminalStates
    <3>3. Len(steps) = iter' BY <1>2, <2>3, <3>1, <3>2, BeginWhere DEF Moves, Ends
    <3>4. RecordsAgree' BY <2>1 DEF RecordInv, RecordsAgree
    <3> QED BY <2>1, <2>3, <3>3, <3>4 DEF RecordInv, Running, Planned
  <2> QED BY <1>2, <2>2, <2>3, BeginWhere DEF Moves, Ends
<1>3. ASSUME NEW calls \in 0..MaxAssessCalls, NEW terminal \in Conclusion,
             AssessConcludes(terminal, calls)
      PROVE  RecordInv'
  <2>1. usage'.iterations = usage.iterations /\ UNCHANGED <<steps, decisions>>
    BY <1>3, UsageStep DEF AssessConcludes, Charged
  <2>2. pc' \in {"done", "raised"} BY <1>3, AssessWhere DEF Ends, Raises
  <2> QED BY <2>1, <2>2, SameRecords DEF Planned
<1>4. ASSUME NEW calls \in 0..MaxAssessCalls, NEW candidates, NEW blocked, NEW external,
             AssessContinues(candidates, blocked, external, calls)
      PROVE  RecordInv'
  <2>1. usage'.iterations = usage.iterations /\ UNCHANGED <<steps, decisions>> /\ pc = "assess"
    BY <1>4, UsageStep DEF AssessContinues, Charged
  <2>2. pc' = "raised" \/ (pc' = "gap" /\ UNCHANGED iter)
    BY <1>4, AssessWhere DEF Moves, Raises
  <2> QED BY <2>1, <2>2, SameRecords DEF Planned
<1>5. CASE NothingToSelect
  <2>1. /\ UNCHANGED <<usage, steps>> /\ pc = "gap"
        /\ decisions' = Append(decisions, [action |-> NoAction, retry |-> 0])
    BY <1>5 DEF NothingToSelect
  <2>2. [action |-> NoAction, retry |-> 0] \in Decision BY DEF Decision
  <2>3. pc' = "done" BY <1>5, SelectWhere DEF Ends
  <2> QED BY <2>1, <2>2, <2>3, Selected
<1>6. ASSUME NEW a \in Actions, Select(a) PROVE RecordInv'
  <2>1. /\ usage'.iterations = usage.iterations /\ UNCHANGED steps /\ pc = "gap" /\ action' = a
        /\ decisions' = Append(decisions, [action |-> a, retry |-> RetryNumber(a)])
    BY <1>6, UsageStep DEF Select, Charged
  <2>2. [action |-> a, retry |-> RetryNumber(a)] \in Decision BY DEF Decision, RetryNumber
  <2>3. pc' = "done" \/ (pc' = "plan" /\ UNCHANGED iter)
    BY <1>6, SelectWhere DEF Ends, Moves
  <2> QED BY <2>1, <2>2, <2>3, Selected
<1>7. ASSUME NEW n \in 1..MaxBatch, PlanQueries(n) \/ Approve(n) PROVE RecordInv'
  <2>1. UNCHANGED <<usage, steps, decisions, action>> /\ pc \in Planned
    BY <1>7 DEF PlanQueries, Approve, Planned
  <2>2. pc' = "raised" \/ (pc' \in Planned /\ UNCHANGED iter)
    BY <1>7, QueryWhere DEF Moves, Raises, Planned
  <2> QED BY <2>1, <2>2, SameRecords DEF Planned
<1>8. CASE StartExecution \/ \E rows \in 0..MaxBatchRows : ExecuteReturns(rows)
  <2>1. /\ usage'.iterations = usage.iterations /\ UNCHANGED <<steps, decisions, action>>
        /\ pc \in Planned
    BY <1>8, UsageStep DEF StartExecution, ExecuteReturns, Planned, Charged, stepVars
  <2>2. pc' \in Planned /\ UNCHANGED iter BY <1>8, QueryWhere DEF Moves, Planned
  <2> QED BY <2>1, <2>2, SameRecords
<1>9. CASE PlanEmpty \/ RejectAll \/ \E result \in Outcome : Verified(result)
  <2>1. UNCHANGED <<usage, steps, decisions, action>> /\ pc \in Planned
    BY <1>9 DEF PlanEmpty, RejectAll, GiveUpAction, Verified, Planned
  <2>2. pc' \in Planned /\ UNCHANGED iter BY <1>9, QueryWhere DEF Moves, Planned
  <2> QED BY <2>1, <2>2, SameRecords
<1>10. CASE PersistStep
  <2> DEFINE row == [iteration |-> usage'.iterations, ledger |-> iter, action |-> action,
                     outcome |-> outcome]
  <2>1. /\ usage'.iterations = usage.iterations + 1 /\ UNCHANGED decisions /\ pc = "update"
        /\ steps' = Append(steps, row)
    BY <1>10, UsageStep DEF PersistStep, Charged
  <2>2. /\ steps \in Seq(StepRow) /\ decisions \in Seq(Decision) /\ iter \in Nat
    BY Typed
  <2>3. /\ usage.iterations = Len(steps) /\ Len(steps) = iter /\ RecordsAgree
        /\ Len(decisions) = Len(steps) + 1 /\ decisions[Len(decisions)].action = action
    BY <2>1 DEF RecordInv, Planned, Running
  <2>4. row.iteration = Len(steps) + 1 /\ row.ledger = Len(steps) /\ row.action = action
    BY <2>1, <2>3
  <2> HIDE DEF row
  <2>5. /\ Len(steps') = Len(steps) + 1 /\ steps'[Len(steps) + 1] = row
        /\ \A k \in 1..Len(steps) : steps'[k] = steps[k]
    <3>1. Len(Append(steps, row)) = Len(steps) + 1 BY <2>2
    <3> QED BY <2>1, <2>2, <3>1
  <2>6. RecordsAgree'
    <3>1. \A k \in 1..Len(steps') : k \in 1..Len(steps) \/ k = Len(steps) + 1
      BY <2>2, <2>5
    <3>2. \A k \in 1..Len(steps') :
            /\ steps'[k].iteration = k /\ steps'[k].ledger = k - 1
            /\ steps'[k].action = decisions[k].action
      BY <2>2, <2>3, <2>4, <2>5, <3>1 DEF RecordsAgree
    <3> QED BY <2>1, <2>3, <2>5, <3>2 DEF RecordsAgree
  <2>7. pc' \in {"top", "done"} /\ UNCHANGED iter /\ (pc' = "top" => state' = "STOP_EVALUATION")
    BY <1>10, PersistWhere DEF Moves, Ends
  <2> QED BY <2>1, <2>3, <2>5, <2>6, <2>7 DEF RecordInv, Running, Planned
<1> QED BY <1>1, <1>2, <1>3, <1>4, <1>5, <1>6, <1>7, <1>8, <1>9, <1>10 DEF Step

LEMMA RecordEnv ==
  ASSUME Where, RecordInv, RequestCancel \/ DeadlinePasses \/ Ended \/ UNCHANGED vars
  PROVE  RecordInv'
BY EnvSame, SameRecords DEF ledgerVars, stepVars

-----------------------------------------------------------------------------
(* Repeated actions: what the history of an action says of its steps.      *)
Transient == "FAILED_TRANSIENT"
Of(a) == {k \in 1..Len(steps) : steps[k].action = a}

Controlled(a) ==
  \A i, j \in Of(a) : i < j => steps[i].outcome = Transient /\ Of(a) \subseteq {i, j}

Log(a, h) ==
  /\ h = <<>> => Of(a) = {}
  /\ h = <<Transient>> => \E i : Of(a) = {i} /\ steps[i].outcome = Transient
  /\ Controlled(a)

(* The history is one outcome ahead of the steps while a step is settled   *)
(* and not yet persisted.                                                  *)
Pending ==
  \E h \in {<<>>, <<Transient>>}, x \in Outcome :
    history[action] = Append(h, x) /\ (x = Transient => outcome = Transient) /\ Log(action, h)

(* The retry that was charged and has no step yet.                         *)
Due == IF pc \in Planned /\ Of(action) # {} THEN 1 ELSE 0

HistoryInv ==
  /\ \A a \in Actions : ~(pc = "update" /\ a = action) => Log(a, history[a])
  /\ pc = "update" => Pending
  /\ pc \in Planned \ {"update"} => Repeatable(action)
  /\ Cardinality(Repeats) + Due <= usage.retries
  /\ Cardinality(Repeats) <= MaxRetries

LEMMA RepeatsFinite ==
  ASSUME Where
  PROVE  IsFiniteSet(Repeats) /\ Cardinality(Repeats) \in Nat
<1>1. Len(steps) \in Nat BY Typed
<1>2. IsFiniteSet(1..Len(steps)) BY <1>1, FS_Interval
<1>3. Repeats \subseteq 1..Len(steps) BY DEF Repeats
<1> QED BY <1>2, <1>3, FS_Subset, FS_CardinalityType

LEMMA SameHistory ==
  ASSUME HistoryInv, UNCHANGED <<steps, history>>, usage'.retries = usage.retries, Where,
         \/ pc # "update" /\ pc' \notin Planned
         \/ /\ pc \in Planned \ {"update"} /\ pc' \in Planned \ {"update"} /\ UNCHANGED action
         \/ UNCHANGED <<pc, action, outcome>>
  PROVE  HistoryInv'
<1>1. /\ Repeats' = Repeats /\ \A a : Of(a)' = Of(a) BY DEF Repeats, Of
<1>2. /\ \A a, h : Log(a, h)' <=> Log(a, h)
      /\ \A a : Repeatable(a)' <=> Repeatable(a)
  BY <1>1 DEF Log, Controlled, Repeatable
<1>3. Cardinality(Repeats) \in Nat /\ usage.retries \in Nat
  BY RepeatsFinite, Sane DEF Usage
<1>4. CASE pc # "update" /\ pc' \notin Planned
  <2>1. Due' = 0 /\ Due \in {0, 1} /\ pc' # "update" BY <1>4 DEF Due, Planned
  <2> QED BY <1>1, <1>2, <1>3, <1>4, <2>1 DEF HistoryInv
<1>5. CASE /\ pc \in Planned \ {"update"} /\ pc' \in Planned \ {"update"} /\ UNCHANGED action
  <2>1. Due' = Due BY <1>1, <1>5 DEF Due
  <2>2. Repeatable(action)' BY <1>5 DEF HistoryInv, Repeatable
  <2> QED BY <1>1, <1>2, <1>5, <2>1, <2>2 DEF HistoryInv
<1>6. CASE UNCHANGED <<pc, action, outcome>>
  <2>1. Due' = Due BY <1>1, <1>6 DEF Due
  <2>2. Pending => Pending' BY <1>1, <1>2, <1>6 DEF Pending, Log, Controlled
  <2>3. Repeatable(action) => Repeatable(action)' BY <1>6 DEF Repeatable
  <2> QED BY <1>1, <1>2, <1>6, <2>1, <2>2, <2>3 DEF HistoryInv
<1> QED BY <1>4, <1>5, <1>6

(* A selected action that has steps is charged as a retry.                 *)
LEMMA SelectedHistory ==
  ASSUME Where, HistoryInv, NEW a \in Actions, Select(a)
  PROVE  HistoryInv'
<1>1. /\ pc = "gap" /\ a \in Eligible /\ action' = a /\ UNCHANGED <<steps, history>>
      /\ Charged(usage', usage.iterations, usage.sql, usage.rows, usage.llm,
                 usage.retries + RetryNumber(a))
  BY UsageStep DEF Select
<1>2. pc' \in {"done", "plan"} BY SelectWhere DEF Ends, Moves
<1>3. Repeats' = Repeats /\ \A b : Of(b)' = Of(b) BY <1>1 DEF Repeats, Of
<1>4. /\ \A b, h : Log(b, h)' <=> Log(b, h)
      /\ \A b : Repeatable(b)' <=> Repeatable(b)
  BY <1>1, <1>3 DEF Log, Controlled, Repeatable
<1>5. Repeatable(a) BY <1>1 DEF Eligible
<1>6. Cardinality(Repeats) \in Nat /\ usage.retries \in Nat
  BY RepeatsFinite, Sane DEF Usage
<1>7. Due = 0 BY <1>1 DEF Due, Planned
<1>8. Due' <= RetryNumber(a) /\ RetryNumber(a) \in {0, 1} /\ Due' \in {0, 1}
  <2>1. history[a] = <<>> => Of(a) = {} BY <1>1 DEF HistoryInv, Log
  <2>2. Due' = IF pc' \in Planned /\ Of(a) # {} THEN 1 ELSE 0 BY <1>1, <1>3 DEF Due
  <2> QED BY <2>1, <2>2 DEF RetryNumber
<1>9. Cardinality(Repeats)' + Due' <= usage'.retries
  <2>1. Cardinality(Repeats) <= usage.retries BY <1>6, <1>7 DEF HistoryInv
  <2>2. usage'.retries = usage.retries + RetryNumber(a) BY <1>1 DEF Charged
  <2> QED BY <1>3, <1>6, <1>8, <2>1, <2>2
<1>10. pc' # "update" /\ pc # "update" BY <1>1, <1>2
<1>11. Repeatable(action)' BY <1>1, <1>5 DEF Repeatable
<1> QED BY <1>1, <1>3, <1>4, <1>9, <1>10, <1>11 DEF HistoryInv

(* The outcome of a step is in the history before the step is persisted.   *)
LEMMA SettledHistory ==
  ASSUME Where, HistoryInv, NEW x \in Outcome, NEW o, pc \in Planned \ {"update"}, pc' = "update",
         history' = [history EXCEPT ![action] = Append(history[action], x)], outcome' = o,
         x = Transient => o = Transient, UNCHANGED <<usage, action, steps>>
  PROVE  HistoryInv'
<1>1. action \in Actions /\ history \in [Actions -> Seq(Outcome)]
  BY Typed DEF Where, WhereInv
<1>2. Repeats' = Repeats /\ \A b : Of(b)' = Of(b) BY DEF Repeats, Of
<1>3. \A b, h : Log(b, h)' <=> Log(b, h)
  BY <1>2 DEF Log, Controlled
<1>4. Due' = Due BY <1>2 DEF Due, Planned
<1>5. history[action] \in {<<>>, <<Transient>>} /\ Log(action, history[action])
  BY <1>1 DEF HistoryInv, Repeatable, Transient
<1>6. history'[action] = Append(history[action], x) BY <1>1
<1>7. Pending' BY <1>3, <1>5, <1>6 DEF Pending
<1>8. \A a \in Actions : a # action' => history'[a] = history[a] BY <1>1
<1>9. \A a \in Actions : a # action' => Log(a, history[a])' BY <1>3, <1>8 DEF HistoryInv
<1> QED BY <1>2, <1>4, <1>7, <1>9 DEF HistoryInv

LEMMA LongerByOne ==
  ASSUME NEW S, NEW s \in Seq(S), NEW x \in S
  PROVE  Len(Append(s, x)) = Len(s) + 1
OBVIOUS

(* A persisted step brings the steps level with the history.               *)
LEMMA PersistedHistory ==
  ASSUME Where, HistoryInv, PersistStep
  PROVE  HistoryInv'
<1> DEFINE n == Len(steps) + 1
           row == [iteration |-> usage'.iterations, ledger |-> iter, action |-> action,
                   outcome |-> outcome]
<1>1. /\ pc = "update" /\ steps' = Append(steps, row) /\ UNCHANGED <<history, action, outcome>>
      /\ Charged(usage', usage.iterations + 1, usage.sql, usage.rows, usage.llm, usage.retries)
  BY UsageStep DEF PersistStep, stepVars
<1>2. /\ steps \in Seq(StepRow) /\ Len(steps) \in Nat /\ action \in Actions
      /\ row.action = action /\ row.outcome = outcome
  BY <1>1, Typed DEF Where, WhereInv, Planned
<1> HIDE DEF row
<1>3. /\ Len(steps') = n /\ steps'[n] = row /\ n \in Nat
      /\ \A k \in 1..Len(steps) : steps'[k] = steps[k] /\ k < n
  BY <1>1, <1>2
<1> HIDE DEF n
<1>4. 1..Len(steps') = 1..Len(steps) \cup {n} BY <1>2, <1>3 DEF n
<1>5. \A a : a # action => Of(a)' = Of(a) BY <1>2, <1>3, <1>4 DEF Of
<1>6. Of(action)' = Of(action) \cup {n} /\ Of(action) \subseteq 1..Len(steps)
  BY <1>1, <1>2, <1>3, <1>4 DEF Of
<1>7. pc' \in {"top", "done"} BY PersistWhere DEF Moves, Ends
<1>8. \A a \in Actions : a # action => Log(a, history[a])'
  <2> SUFFICES ASSUME NEW a \in Actions, a # action PROVE Log(a, history[a])' OBVIOUS
  <2>1. Log(a, history[a]) BY DEF HistoryInv
  <2>2. \A k \in Of(a) : steps'[k] = steps[k] BY <1>3 DEF Of
  <2>3. Controlled(a)' BY <1>5, <2>1, <2>2 DEF Log, Controlled
  <2>4. history[a] = <<Transient>> => \E i : Of(a)' = {i} /\ steps'[i].outcome = Transient
    BY <1>5, <2>1, <2>2 DEF Log
  <2> QED BY <1>1, <1>5, <2>1, <2>3, <2>4 DEF Log
<1>9. Log(action, history[action])'
  <2>1. PICK h \in {<<>>, <<Transient>>}, x \in Outcome :
          /\ history[action] = Append(h, x) /\ (x = Transient => outcome = Transient)
          /\ Log(action, h)
    BY <1>1 DEF HistoryInv, Pending
  <2>2. CASE h = <<>>
    <3>1. Of(action)' = {n} BY <1>6, <2>1, <2>2 DEF Log
    <3>2. history[action] = <<x>> BY <2>1, <2>2
    <3>3. history[action] # <<>> /\ (history[action] = <<Transient>> => x = Transient)
      BY <3>2
    <3>4. Controlled(action)'
      <4>1. \A i, j \in Of(action)' : ~(i < j) BY <1>3, <3>1
      <4> QED BY <1>1, <4>1 DEF Controlled
    <3> QED BY <1>1, <1>2, <1>3, <2>1, <3>1, <3>3, <3>4 DEF Log
  <2>3. CASE h = <<Transient>>
    <3>1. PICK i : Of(action) = {i} /\ steps[i].outcome = Transient BY <2>1, <2>3 DEF Log
    <3>2. i \in 1..Len(steps) /\ Of(action)' = {i, n} BY <1>6, <3>1
    <3>3. steps'[i].outcome = Transient /\ i < n /\ i \in Nat BY <1>2, <1>3, <3>1, <3>2
    <3>4. Len(history[action]) = 2
      <4>1. h \in Seq(Outcome) /\ Len(h) = 1 BY <2>3 DEF Outcome, Transient
      <4>2. Len(Append(h, x)) = Len(h) + 1 BY <2>1, <4>1, LongerByOne
      <4>3. Len(Append(h, x)) = 2 BY <4>1, <4>2
      <4> QED BY <2>1, <4>3
    <3>5. history[action] # <<>> /\ history[action] # <<Transient>>
      <4>1. Len(<<Transient>>) = 1 /\ Len(<<>>) = 0 OBVIOUS
      <4> QED BY <3>4, <4>1
    <3>6. Controlled(action)'
      <4>1. \A k, l \in Of(action)' : k < l => k = i /\ l = n BY <1>3, <3>2, <3>3
      <4> QED BY <1>1, <3>2, <3>3, <4>1 DEF Controlled
    <3> QED BY <1>1, <3>5, <3>6 DEF Log
  <2> QED BY <2>2, <2>3
<1>10. Repeats' = Repeats \cup (IF Of(action) = {} THEN {} ELSE {n})
  <2>1. \A j \in 1..Len(steps) : j \in Repeats' <=> j \in Repeats
    <3> SUFFICES ASSUME NEW j \in 1..Len(steps) PROVE j \in Repeats' <=> j \in Repeats OBVIOUS
    <3>1. \A i \in 1..(j - 1) : i \in 1..Len(steps) BY <1>2
    <3>2. j \in 1..Len(steps') BY <1>4
    <3> QED BY <1>3, <3>1, <3>2 DEF Repeats
  <2>2. n \in Repeats' <=> Of(action) # {}
    <3>1. n - 1 = Len(steps) /\ n \in 1..Len(steps') BY <1>2, <1>4 DEF n
    <3> QED BY <1>2, <1>3, <3>1 DEF Repeats, Of
  <2>3. n \notin 1..Len(steps) BY <1>2 DEF n
  <2> QED BY <1>4, <2>1, <2>2, <2>3 DEF Repeats
<1>11. Cardinality(Repeats') <= Cardinality(Repeats) + Due
  <2>1. Due = IF Of(action) = {} THEN 0 ELSE 1 BY <1>1 DEF Due, Planned
  <2>2. IsFiniteSet(Repeats) /\ Cardinality(Repeats) \in Nat BY RepeatsFinite
  <2>3. CASE Of(action) = {}
    <3>1. Repeats' = Repeats BY <1>10, <2>3
    <3> QED BY <2>1, <2>2, <2>3, <3>1
  <2>4. CASE Of(action) # {}
    <3>1. Repeats' = Repeats \cup {n} BY <1>10, <2>4
    <3> QED BY <2>1, <2>2, <2>4, <3>1, FS_AddElement
  <2> QED BY <2>3, <2>4
<1>12. Cardinality(Repeats') \in Nat
  <2>1. IsFiniteSet(Repeats) BY RepeatsFinite
  <2>2. IsFiniteSet(Repeats') BY <1>10, <2>1, FS_AddElement
  <2> QED BY <2>2, FS_CardinalityType
<1>13. Cardinality(Repeats)' + Due' <= usage'.retries /\ Cardinality(Repeats)' <= MaxRetries
  <2>1. Due' = 0 BY <1>7 DEF Due, Planned
  <2>2. usage'.retries = usage.retries /\ usage.retries <= MaxRetries
    BY <1>1 DEF Charged, Where, BudgetInv, Running
  <2>3. Cardinality(Repeats) + Due <= usage.retries BY DEF HistoryInv
  <2>4. /\ usage.retries \in Nat /\ MaxRetries \in Nat /\ Cardinality(Repeats) \in Nat
        /\ Due \in Nat
    BY Sane, RepeatsFinite DEF Usage, Due
  <2> QED BY <1>11, <1>12, <2>1, <2>2, <2>3, <2>4
<1> QED BY <1>1, <1>7, <1>8, <1>9, <1>13 DEF HistoryInv, Planned

LEMMA HistoryNext ==
  ASSUME Where, HistoryInv, Step
  PROVE  HistoryInv'
<1>1. CASE StopForCancel \/ CallRaises
  <2>1. UNCHANGED <<usage, steps, history>> /\ pc # "update"
    BY <1>1 DEF StopForCancel, CallRaises, Cancelled, Checkpoints
  <2>2. pc' \notin Planned BY <1>1, CancelWhere, ErrorWhere DEF Ends, Raises, Planned
  <2> QED BY <2>1, <2>2, SameHistory
<1>2. CASE BeginIteration
  <2>1. UNCHANGED <<steps, history>> /\ pc # "update" /\ usage'.retries = usage.retries
    BY <1>2, UsageStep DEF BeginIteration, Charged
  <2>2. pc' \notin Planned BY <1>2, BeginWhere DEF Ends, Moves, Planned
  <2> QED BY <2>1, <2>2, SameHistory
<1>3. ASSUME NEW calls \in 0..MaxAssessCalls, NEW terminal \in Conclusion,
             AssessConcludes(terminal, calls)
      PROVE  HistoryInv'
  <2>1. UNCHANGED <<steps, history>> /\ pc # "update" /\ usage'.retries = usage.retries
    BY <1>3, UsageStep DEF AssessConcludes, Charged
  <2>2. pc' \notin Planned BY <1>3, AssessWhere DEF Ends, Raises, Planned
  <2> QED BY <2>1, <2>2, SameHistory
<1>4. ASSUME NEW calls \in 0..MaxAssessCalls, NEW candidates, NEW blocked, NEW external,
             AssessContinues(candidates, blocked, external, calls)
      PROVE  HistoryInv'
  <2>1. UNCHANGED <<steps, history>> /\ pc # "update" /\ usage'.retries = usage.retries
    BY <1>4, UsageStep DEF AssessContinues, Charged
  <2>2. pc' \notin Planned BY <1>4, AssessWhere DEF Moves, Raises, Planned
  <2> QED BY <2>1, <2>2, SameHistory
<1>5. CASE NothingToSelect
  <2>1. UNCHANGED <<usage, steps, history>> /\ pc # "update" BY <1>5 DEF NothingToSelect
  <2>2. pc' \notin Planned BY <1>5, SelectWhere DEF Ends, Planned
  <2> QED BY <2>1, <2>2, SameHistory
<1>6. ASSUME NEW a \in Actions, Select(a) PROVE HistoryInv'
  BY <1>6, SelectedHistory
<1>7. ASSUME NEW n \in 1..MaxBatch, PlanQueries(n) \/ Approve(n) PROVE HistoryInv'
  <2>1. UNCHANGED <<usage, steps, history, action>> /\ pc \in Planned \ {"update"}
    BY <1>7 DEF PlanQueries, Approve, Planned
  <2>2. pc' \notin Planned \/ pc' \in Planned \ {"update"}
    BY <1>7, QueryWhere DEF Moves, Raises, Planned
  <2> QED BY <2>1, <2>2, SameHistory
<1>8. CASE StartExecution \/ \E rows \in 0..MaxBatchRows : ExecuteReturns(rows)
  <2>1. /\ UNCHANGED <<steps, history, action>> /\ pc \in Planned \ {"update"}
        /\ usage'.retries = usage.retries
    BY <1>8, UsageStep DEF StartExecution, ExecuteReturns, Planned, Charged, stepVars
  <2>2. pc' \in Planned \ {"update"} BY <1>8, QueryWhere DEF Moves, Planned
  <2> QED BY <2>1, <2>2, SameHistory
<1>9. CASE PlanEmpty \/ RejectAll \/ \E result \in Outcome : Verified(result)
  <2>1. PICK x \in Outcome, o \in StepOutcome :
          /\ history' = [history EXCEPT ![action] = Append(history[action], x)] /\ outcome' = o
          /\ x = Transient => o = Transient
          /\ UNCHANGED <<usage, action, steps>>
    BY <1>9 DEF PlanEmpty, RejectAll, GiveUpAction, Verified, Settle, Outcome, StepOutcome,
                Transient
  <2>2. pc \in Planned \ {"update"}
    BY <1>9 DEF PlanEmpty, RejectAll, GiveUpAction, Verified, Planned
  <2>3. pc' = "update" BY <1>9, QueryWhere DEF Moves
  <2> QED BY <2>1, <2>2, <2>3, SettledHistory
<1>10. CASE PersistStep BY <1>10, PersistedHistory
<1> QED BY <1>1, <1>2, <1>3, <1>4, <1>5, <1>6, <1>7, <1>8, <1>9, <1>10 DEF Step

LEMMA HistoryEnv ==
  ASSUME Where, HistoryInv, RequestCancel \/ DeadlinePasses \/ Ended \/ UNCHANGED vars
  PROVE  HistoryInv'
BY EnvSame, SameHistory DEF stepVars

-----------------------------------------------------------------------------
(* The invariant.                                                          *)
LoopInv == Where /\ StopsForAReason /\ CancelInv /\ RecordInv /\ HistoryInv

LEMMA EnvTypes ==
  ASSUME Where, RequestCancel \/ DeadlinePasses \/ Ended \/ UNCHANGED vars
  PROVE  TypeOK'
<1>1. cancel' \in [sql : Nat, running : BOOLEAN, made : BOOLEAN] /\ late' \in BOOLEAN
  <2>1. CASE RequestCancel
    <3>1. usage.sql \in Nat BY Sane DEF Usage
    <3> QED BY <2>1, <3>1, Typed DEF RequestCancel
  <2>2. CASE DeadlinePasses \/ Ended \/ UNCHANGED vars
    BY <2>2, Typed DEF DeadlinePasses, Ended, vars, envVars
  <2> QED BY <2>1, <2>2
<1> QED BY <1>1, EnvSame, Typed, TypedAgain DEF ledgerVars, stepVars, Reasons

LEMMA LoopStarts ==
  ASSUME FreshOrEnded, Init
  PROVE  LoopInv
<1>1. state \in {"INITIALIZATION"} \cup TerminalStates BY DEF FreshOrEnded, Init
<1>2. /\ MaxBatch \in Nat /\ {MaxIterations, MaxSql, MaxRows} \subseteq Nat \ {0}
      /\ {MaxLlm, MaxRetries, MaxBatchRows, MaxAssessCalls} \subseteq Nat
  BY LoopAssumption DEF LoopAssumption
<1>3. TypeOK
  <2>1. state \in InvestigationState
    BY <1>1 DEF InvestigationState, TransientStates
  <2>2. <<>> \in Seq(Decision) /\ <<>> \in Seq(StepRow) /\ <<>> \in Seq(Outcome) OBVIOUS
  <2>3. usage \in Usage BY DEF Init, Usage
  <2>4. cancel \in [sql : Nat, running : BOOLEAN, made : BOOLEAN] BY DEF Init, NotRequested
  <2>5. found \in [candidates : SUBSET Actions, blocked : SUBSET Actions, external : BOOLEAN]
    BY DEF Init, NothingFound
  <2>6. history \in [Actions -> Seq(Outcome)] BY <2>2 DEF Init
  <2>7. /\ iter \in Nat /\ pc \in Control /\ action \in Actions \cup {NoAction}
        /\ batch \in 0..MaxBatch /\ outcome \in StepOutcome /\ reason \in Reasons
    <3>1. 0 \in Nat /\ 0 \in 0..MaxBatch BY <1>2
    <3> QED BY <3>1 DEF Init, Control, StepOutcome, Outcome, Reasons
  <2>9. late \in BOOLEAN BY DEF Init
  <2>8. decisions \in Seq(Decision) /\ steps \in Seq(StepRow) BY <2>2 DEF Init
  <2> QED BY <2>1, <2>3, <2>4, <2>5, <2>6, <2>7, <2>8, <2>9
      DEF TypeOK, Decision, StepRow, Usage, Reasons
<1>4. WhereInv BY <1>1 DEF Init, WhereInv, OnlyBatchesRefused, Planned
<1>5. BudgetInv BY <1>2 DEF Init, BudgetInv, WithinLimits
<1>6. state # "STOP_EVALUATION" BY <1>1 DEF TerminalStates
<1>7. StopsForAReason BY <1>6 DEF Init, StopsForAReason
<1>8. CancelInv BY DEF Init, CancelInv, NotRequested
<1>9. RecordInv
  <2>1. Len(<<>>) = 0 OBVIOUS
  <2> QED BY <1>6, <2>1 DEF Init, RecordInv, RecordsAgree, Running, Planned
<1>10. HistoryInv
  <2>1. Repeats = {} /\ \A a : Of(a) = {} BY DEF Init, Repeats, Of
  <2>2. Cardinality(Repeats) = 0 BY <2>1, FS_EmptySet
  <2>3. \A a \in Actions : history[a] = <<>> /\ <<>> # <<Transient>> BY DEF Init
  <2>4. \A a \in Actions : Log(a, history[a]) BY <2>1, <2>3 DEF Log, Controlled
  <2>5. Due = 0 /\ usage.retries = 0 /\ 0 <= MaxRetries BY <1>2 DEF Init, Due, Planned
  <2> QED BY <2>2, <2>4, <2>5 DEF Init, HistoryInv, Planned
<1> QED BY <1>3, <1>4, <1>5, <1>7, <1>8, <1>9, <1>10 DEF LoopInv, Where

LEMMA LoopGoesOn ==
  ASSUME LoopInv, [Next]_vars
  PROVE  LoopInv'
<1>1. CASE Step
  BY <1>1, StepTypes, WhereNext, StopsNext, CancelNext, RecordNext, HistoryNext
  DEF LoopInv, Where
<1>2. CASE RequestCancel \/ DeadlinePasses \/ Ended \/ UNCHANGED vars
  BY <1>2, EnvTypes, WhereEnv, StopsEnv, CancelEnv, RecordEnv, HistoryEnv
  DEF LoopInv, Where
<1> QED BY <1>1, <1>2 DEF Next

LEMMA LoopInvariant ==
  ASSUME FreshOrEnded
  PROVE  Spec => []LoopInv
<1>1. Init => LoopInv BY LoopStarts
<1>2. LoopInv /\ [Next]_vars => LoopInv' BY LoopGoesOn
<1> QED BY <1>1, <1>2, PTL DEF Spec

-----------------------------------------------------------------------------
(* The loop's local variables and the rows it persists have their types.   *)
THEOREM LoopTypeCorrect ==
  ASSUME FreshOrEnded
  PROVE  Spec => []TypeOK
<1>1. LoopInv => TypeOK BY DEF LoopInv, Where
<1> QED BY <1>1, LoopInvariant, PTL

(* Whatever the caller's code returns, run() stays within the limits it    *)
(* was given and ends for the reason it states; and it is refused a        *)
(* transition of an open ledger only for an approved batch that is too     *)
(* large: the run that violates QueryExhaustionEndsSafely shows the one    *)
(* way there is.                                                           *)
THEOREM LoopEndsWithinLimits ==
  ASSUME FreshOrEnded
  PROVE  Spec => [](EndsWithinLimits /\ OnlyBatchesRefused)
<1>1. LoopInv => EndsWithinLimits /\ OnlyBatchesRefused
  BY DEF LoopInv, Where, WhereInv, BudgetInv, EndsWithinLimits
<1> QED BY <1>1, LoopInvariant, PTL

(* The step rows, the planner's selections and the ledger count the same   *)
(* iterations.                                                             *)
THEOREM LoopRecordsAgree ==
  ASSUME FreshOrEnded
  PROVE  Spec => []RecordsAgree
<1>1. LoopInv => RecordsAgree BY DEF LoopInv, RecordInv
<1> QED BY <1>1, LoopInvariant, PTL

(* After a cancellation request no new batch of SQL is run.                *)
THEOREM LoopNoSqlAfterCancel ==
  ASSUME FreshOrEnded
  PROVE  Spec => []NoSqlAfterCancel
<1>1. LoopInv => NoSqlAfterCancel
  <2> SUFFICES ASSUME LoopInv, cancel.made, usage.sql > cancel.sql, ~cancel.running
               PROVE  FALSE
    <3>1. cancel.running \in BOOLEAN \/ ~LoopInv BY Typed DEF LoopInv
    <3> QED BY <3>1 DEF NoSqlAfterCancel
  <2>1. usage.sql \in Nat /\ cancel.sql \in Nat BY Sane, Typed DEF LoopInv, Usage
  <2> QED BY <2>1 DEF LoopInv, CancelInv
<1> QED BY <1>1, LoopInvariant, PTL

(* An action that failed transiently is repeated at most once, one that    *)
(* succeeded or failed for good never, and all repetitions together stay   *)
(* within max_retries.                                                     *)
THEOREM LoopRetriesAreControlled ==
  ASSUME FreshOrEnded
  PROVE  Spec => []OneControlledRetry
<1>1. LoopInv => OneControlledRetry
  <2> SUFFICES ASSUME LoopInv PROVE OneControlledRetry OBVIOUS
  <2>1. Cardinality(Repeats) <= MaxRetries BY DEF LoopInv, HistoryInv
  <2>2. \A a \in Actions : Controlled(a)
    <3> SUFFICES ASSUME NEW a \in Actions PROVE Controlled(a) OBVIOUS
    <3>1. CASE pc = "update" /\ a = action
      BY <3>1 DEF LoopInv, HistoryInv, Pending, Log
    <3>2. CASE ~(pc = "update" /\ a = action) BY <3>2 DEF LoopInv, HistoryInv, Log
    <3> QED BY <3>1, <3>2
  <2>3. \A k \in 1..Len(steps) : steps[k].action \in Actions /\ k \in Of(steps[k].action)
    <3>1. steps \in Seq(StepRow) BY Typed DEF LoopInv
    <3>2. \A k \in 1..Len(steps) : steps[k] \in StepRow BY <3>1
    <3>3. \A r \in StepRow : r.action \in Actions BY DEF StepRow
    <3> QED BY <3>2, <3>3 DEF Of
  <2>4. ASSUME NEW i \in 1..Len(steps), NEW j \in 1..Len(steps),
               i < j, steps[i].action = steps[j].action
        PROVE  /\ steps[i].outcome = "FAILED_TRANSIENT"
               /\ \A k \in 1..Len(steps) : steps[k].action = steps[i].action => k \in {i, j}
    <3>1. i \in Of(steps[i].action) /\ j \in Of(steps[i].action) BY <2>3, <2>4
    <3>2. steps[i].outcome = Transient /\ Of(steps[i].action) \subseteq {i, j}
      BY <2>2, <2>3, <2>4, <3>1 DEF Controlled
    <3> QED BY <3>2 DEF Of, Transient
  <2> QED BY <2>1, <2>4 DEF OneControlledRetry
<1> QED BY <1>1, LoopInvariant, PTL

-----------------------------------------------------------------------------
(* How far run() is from its end: the iterations it still may begin, and   *)
(* the way through the one it is in.                                       *)
Rank ==
  [top |-> 9, assess |-> 8, gap |-> 7, plan |-> 6, validate |-> 5, cleared |-> 4,
   running |-> 3, verify |-> 2, update |-> 1, done |-> 0, raised |-> 0]

Left == 10 * (MaxIterations - usage.iterations) + Rank[pc]

LEMMA Ranks ==
  /\ Rank["top"] = 9 /\ Rank["assess"] = 8 /\ Rank["gap"] = 7 /\ Rank["plan"] = 6
  /\ Rank["validate"] = 5 /\ Rank["cleared"] = 4 /\ Rank["running"] = 3
  /\ Rank["verify"] = 2 /\ Rank["update"] = 1 /\ Rank["done"] = 0 /\ Rank["raised"] = 0
  /\ \A p \in Control : Rank[p] \in 0..9
BY DEF Rank, Control

LEMMA GoSomewhere ==
  ASSUME NEW path, NEW next, NEW why, Go(path, next, why)
  PROVE  pc' \in {next, "done", "raised"}
BY DEF Go

LEMMA LeftIsFinite ==
  ASSUME Where PROVE Left \in Nat
<1>1. /\ usage.iterations \in Nat /\ MaxIterations \in Nat
      /\ usage.iterations <= MaxIterations /\ Rank[pc] \in 0..9
  BY Sane, Ranks DEF Where, TypeOK, BudgetInv, WithinLimits, Usage
<1> QED BY <1>1 DEF Left

(* Every step but the last of an iteration moves on within it.             *)
Onward == Rank[pc'] < Rank[pc] /\ usage'.iterations = usage.iterations

LEMMA StepMovesOn ==
  ASSUME Where, Step
  PROVE  \/ Onward
         \/ /\ pc = "update" /\ usage'.iterations = usage.iterations + 1
            /\ pc' \in {"top", "done", "raised"}
<1>1. usage \in Usage BY Sane
<1>2. CASE StopForCancel
  <2>1. pc \in Checkpoints /\ pc' \in {"done", "raised"} /\ UNCHANGED usage
    BY <1>2, GoSomewhere DEF StopForCancel, Cancelled
  <2> QED BY <2>1, Ranks DEF Checkpoints, Onward
<1>3. CASE CallRaises
  <2>1. pc \in {"assess", "plan", "validate", "running", "verify"}
        /\ pc' \in {"done", "raised"} /\ UNCHANGED usage
    BY <1>3, GoSomewhere DEF CallRaises
  <2> QED BY <2>1, Ranks DEF Onward
<1>4. CASE BeginIteration
  <2>1. pc = "top" /\ pc' \in {"assess", "done", "raised"}
    BY <1>4, GoSomewhere DEF BeginIteration
  <2>2. usage'.iterations = usage.iterations
    BY <1>1, <1>4 DEF BeginIteration, Usage
  <2> QED BY <2>1, <2>2, Ranks DEF Onward
<1>5. ASSUME NEW terminal, NEW calls, AssessConcludes(terminal, calls)
      PROVE  Onward
  <2>1. pc = "assess" /\ pc' \in {"done", "raised"}
    BY <1>5, GoSomewhere DEF AssessConcludes
  <2>2. usage'.iterations = usage.iterations
    BY <1>1, <1>5 DEF AssessConcludes, Charge, Usage
  <2> QED BY <2>1, <2>2, Ranks DEF Onward
<1>6. ASSUME NEW calls, NEW candidates, NEW blocked, NEW external,
             AssessContinues(candidates, blocked, external, calls)
      PROVE  Onward
  <2>1. pc = "assess" /\ pc' \in {"gap", "done", "raised"}
    BY <1>6, GoSomewhere DEF AssessContinues
  <2>2. usage'.iterations = usage.iterations
    BY <1>1, <1>6 DEF AssessContinues, Charge, Usage
  <2> QED BY <2>1, <2>2, Ranks DEF Onward
<1>7. CASE NothingToSelect
  <2>1. pc = "gap" /\ pc' \in {"done", "raised"} /\ UNCHANGED usage
    BY <1>7, GoSomewhere DEF NothingToSelect
  <2> QED BY <2>1, Ranks DEF Onward
<1>8. ASSUME NEW a, Select(a)
      PROVE  Onward
  <2>1. pc = "gap" /\ pc' \in {"plan", "done", "raised"}
    BY <1>8, GoSomewhere DEF Select
  <2>2. usage'.iterations = usage.iterations
    BY <1>1, <1>8 DEF Select, Usage
  <2> QED BY <2>1, <2>2, Ranks DEF Onward
<1>9. CASE PlanEmpty \/ RejectAll \/ \E result \in Outcome : Verified(result)
  <2>1. pc \in {"plan", "validate", "verify"} /\ pc' \in {"update", "done", "raised"}
        /\ UNCHANGED usage
    BY <1>9, GoSomewhere DEF PlanEmpty, RejectAll, GiveUpAction, Verified
  <2> QED BY <2>1, Ranks DEF Onward
<1>10. ASSUME NEW n, PlanQueries(n) \/ Approve(n)
       PROVE  Onward
  <2>1. UNCHANGED usage
        /\ \/ pc = "plan" /\ pc' \in {"validate", "done", "raised"}
           \/ pc = "validate" /\ pc' \in {"cleared", "done", "raised"}
    BY <1>10, GoSomewhere DEF PlanQueries, Approve
  <2> QED BY <2>1, Ranks DEF Onward
<1>11. CASE StartExecution
  BY <1>11, Ranks DEF StartExecution, Onward
<1>12. ASSUME NEW rows, ExecuteReturns(rows)
       PROVE  Onward
  <2>1. pc = "running" /\ pc' \in {"verify", "done", "raised"}
    BY <1>12, GoSomewhere DEF ExecuteReturns
  <2>2. usage'.iterations = usage.iterations
    BY <1>1, <1>12 DEF ExecuteReturns, Usage
  <2> QED BY <2>1, <2>2, Ranks DEF Onward
<1>13. CASE PersistStep
  <2>1. pc = "update" /\ pc' \in {"top", "done", "raised"}
    BY <1>13, GoSomewhere DEF PersistStep
  <2>2. usage'.iterations = usage.iterations + 1
    BY <1>1, <1>13 DEF PersistStep, Usage
  <2> QED BY <2>1, <2>2
<1> QED
  BY <1>2, <1>3, <1>4, <1>5, <1>6, <1>7, <1>8, <1>9, <1>10, <1>11, <1>12, <1>13 DEF Step

(* run() cannot go on for ever, whatever its caller's code proposes: each  *)
(* of its steps uses up some of a bound that is fixed when it starts, and  *)
(* nothing gives any of it back.  (What is left to assume is that the next *)
(* step is taken.)                                                         *)
THEOREM LoopUsesUpItsBound ==
  ASSUME FreshOrEnded
  PROVE  Spec => [](Left \in Nat) /\ [][IF Step THEN Left' < Left ELSE Left' = Left]_vars
<1>1. LoopInv => Left \in Nat BY LeftIsFinite DEF LoopInv
<1>2. ASSUME LoopInv, LoopInv', Next
      PROVE  IF Step THEN Left' < Left ELSE Left' = Left
  <2>1. /\ usage.iterations \in Nat /\ usage'.iterations \in Nat /\ MaxIterations \in Nat
        /\ Rank[pc] \in 0..9 /\ Rank[pc'] \in 0..9
    <3>1. Rank[pc] \in 0..9 /\ Rank[pc'] \in 0..9
      BY <1>2, Ranks DEF LoopInv, Where, TypeOK
    <3>2. usage.iterations \in Nat /\ usage'.iterations \in Nat
      BY <1>2 DEF LoopInv, Where, TypeOK
    <3> QED BY <3>1, <3>2, LoopAssumption DEF LoopAssumption
  <2>2. CASE Step
    <3>1. CASE Onward
      BY <2>1, <2>2, <3>1 DEF Left, Onward
    <3>2. CASE /\ pc = "update" /\ usage'.iterations = usage.iterations + 1
               /\ pc' \in {"top", "done", "raised"}
      <4>1. Rank[pc] = 1 BY <3>2, Ranks
      <4> QED BY <2>1, <2>2, <3>2, <4>1 DEF Left
    <3> QED BY <1>2, <2>2, <3>1, <3>2, StepMovesOn DEF LoopInv
  <2>3. CASE ~Step
    <3>1. UNCHANGED <<pc, usage>>
      BY <1>2, <2>3 DEF Next, RequestCancel, DeadlinePasses, Ended, vars
    <3> QED BY <2>3, <3>1 DEF Left
  <2> QED BY <2>2, <2>3
<1>3. LoopInv /\ LoopInv' /\ [Next]_vars => [IF Step THEN Left' < Left ELSE Left' = Left]_vars
  BY <1>2
<1> QED BY <1>1, <1>3, LoopInvariant, PTL DEF Spec
==============================================================================
