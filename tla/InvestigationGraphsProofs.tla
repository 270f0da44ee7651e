----------------------- MODULE InvestigationGraphsProofs -----------------------
(***************************************************************************)
(* The graphs of graph.py, for any objects and any limits: the budgets and *)
(* the verdict of CandidateGraph, and the records of EvidenceLoop.         *)
(***************************************************************************)
EXTENDS CandidateGraph, EvidenceLoop, FiniteSetTheorems, TLAPS

-----------------------------------------------------------------------------
(* The production walk.                                                    *)

(* The nodes on the way to a run of the pipeline, those between a run and  *)
(* its evaluation, and those behind the verdict.                           *)
Searching == {"initialize", "resolve_entity", "discover_objects", "select_candidate",
              "create_plan", "validate_sql", "execute_sql", "reject_candidate",
              "expand_discovery"}
Reading == {"preserve_evidence", "classify_results"}
Ending == Conclusions \cup {"done"}

(* The search goes on only while nothing has reproduced the problem.       *)
NotReproduced ==
  /\ node \in Searching => response.outcome # "VALUE_PRESENT"
  /\ node \in Searching \cup Reading =>
       \A d \in Candidates : <<d, "VALUE_PRESENT">> \notin findings

(* What classify_results hands to evaluate_candidate.                      *)
Classified ==
  node = "evaluate_candidate" =>
    /\ \A d \in Candidates :
         <<d, "VALUE_PRESENT">> \in findings =>
           d = active /\ response.outcome = "VALUE_PRESENT"
    /\ active # Nothing =>
         /\ active = response.primary /\ status[active] # Absent
         /\ response.outcome = "VALUE_PRESENT" => <<active, "VALUE_PRESENT">> \in findings
    /\ active = Nothing => response.primary \notin With(CandidateStatus)

(* The verdict is fixed when the search ends, not only when the walk does. *)
Concluded ==
  node \in Ending =>
    \A c \in Candidates :
      active = c /\ status[c] = "SUPPORTED"
        <=> /\ response.primary = c /\ c \in With(CandidateStatus)
            /\ response.outcome = "VALUE_PRESENT"

(* A contradicted candidate is rejected before the search goes on.         *)
Rejected ==
  /\ node \in Searching \cup Reading \cup {"evaluate_candidate"} =>
       /\ node = "reject_candidate" \/ With({"CONTRADICTED"}) = {}
       /\ backtracks < MaxBacktracks \/ backtracks = 0
  /\ node = "reject_candidate" => active \in Candidates
  /\ RejectionsArePaid

(* How many steps a node is reached with after that many runs.             *)
Steps ==
  /\ node \in {"initialize", "resolve_entity"} => runs = 0
  /\ node = "resolve_entity" => graphSteps >= 1
  /\ node \in {"discover_objects", "reject_candidate", "expand_discovery"}
       => graphSteps >= 7 * runs + 2
  /\ node \in {"select_candidate", "create_plan"} => graphSteps >= 7 * runs + 3
  /\ node = "validate_sql" => graphSteps >= 7 * runs + 4
  /\ node = "execute_sql" => graphSteps >= 7 * runs + 5
  /\ node = "preserve_evidence" => graphSteps + 1 >= 7 * runs
  /\ node = "classify_results" => graphSteps >= 7 * runs
  /\ node = "evaluate_candidate" => graphSteps >= 7 * runs + 1
  /\ node \in Searching /\ runs > 0 => 7 * runs + 2 < MaxGraphSteps
  /\ StepsPayForRuns

IInv == WalkTypeOK /\ NotReproduced /\ Classified /\ Concluded /\ Rejected /\ Steps

-----------------------------------------------------------------------------
LEMMA EdgeValues ==
  /\ Edge["initialize"] = "resolve_entity"
  /\ Edge["resolve_entity"] = "discover_objects"
  /\ Edge["discover_objects"] = "select_candidate"
  /\ Edge["create_plan"] = "validate_sql"
  /\ Edge["validate_sql"] = "execute_sql"
  /\ Edge["preserve_evidence"] = "classify_results"
  /\ Edge["check_coverage"] = "assess_evidence"
  /\ Edge["assess_evidence"] = "apply_evidence_gate"
  /\ Edge["apply_evidence_gate"] = "compose_report"
  /\ Edge["compose_report"] = "validate_report"
  /\ Edge["validate_report"] = "finalize"
  /\ Edge["finalize"] = "done"
BY DEF Edge

LEMMA EdgeDomain ==
  DOMAIN Edge = {"initialize", "resolve_entity", "discover_objects", "create_plan",
                 "validate_sql", "preserve_evidence", "check_coverage", "assess_evidence",
                 "apply_evidence_gate", "compose_report", "validate_report", "finalize"}
BY DEF Edge

LEMMA Nodes == Node = Searching \cup Reading \cup Ending \cup {"evaluate_candidate", "raised"}
BY EdgeDomain DEF Node, Searching, Reading, Ending, Conclusions

(* The limits are numbers, and the sets of candidates are finite.          *)
LEMMA Limits ==
  /\ MaxCandidateTables \in Nat /\ MaxBacktracks \in Nat /\ MaxExpansions \in Nat
  /\ MaxGraphSteps \in Nat /\ MaxRuns \in Nat
  /\ Nothing \notin Candidates
  /\ \A S \in SUBSET Candidates : IsFiniteSet(S) /\ Cardinality(S) \in Nat
BY GraphAssumption, FS_Subset, FS_CardinalityType DEF GraphAssumption

LEMMA InitInv == WalkInit => IInv
<1> SUFFICES ASSUME WalkInit PROVE IInv OBVIOUS
<1> USE DEF WalkInit
<1>1. WalkTypeOK
  <2>1. NoResult \in Payload BY DEF NoResult, Payload, EvidenceOutcome
  <2>2. node \in Node BY EdgeDomain DEF Node
  <2> QED BY <2>1, <2>2, Limits DEF WalkTypeOK
<1>2. NotReproduced BY DEF NotReproduced, NoResult
<1>3. Classified /\ Concluded BY DEF Classified, Concluded, Ending, Conclusions
<1>4. Rejected
  <2>1. With({"REJECTED"}) = {} /\ With({"CONTRADICTED"}) = {} BY DEF With, Absent
  <2>2. Cardinality({}) = 0 BY FS_EmptySet
  <2> QED BY <2>1, <2>2, Limits DEF Rejected, RejectionsArePaid
<1>5. Steps BY DEF Steps, StepsPayForRuns
<1> QED BY <1>1, <1>2, <1>3, <1>4, <1>5 DEF IInv

(* Rejected survives a step that rejects and contradicts nobody.           *)
LEMMA NobodyRejected ==
  ASSUME WalkTypeOK, Rejected, UNCHANGED backtracks,
         \A c \in Candidates : status'[c] = "REJECTED" => status[c] = "REJECTED",
         \/ With({"CONTRADICTED"})' = {}
         \/ UNCHANGED active /\ With({"CONTRADICTED"})' \subseteq {active}
  PROVE  RejectionsArePaid'
<1>1. With({"REJECTED"})' \subseteq With({"REJECTED"}) BY DEF With
<1>2. With({"REJECTED"}) \in SUBSET Candidates BY DEF With
<1>3. Cardinality(With({"REJECTED"})') <= Cardinality(With({"REJECTED"}))
  BY <1>1, <1>2, Limits, FS_Subset
<1>4. With({"REJECTED"})' \in SUBSET Candidates BY <1>1, <1>2
<1>5. Cardinality(With({"REJECTED"})') \in Nat /\ Cardinality(With({"REJECTED"})) \in Nat
  BY <1>2, <1>4, Limits
<1>6. Cardinality(With({"REJECTED"})') <= backtracks'
  BY <1>3, <1>5 DEF Rejected, RejectionsArePaid, WalkTypeOK
<1> QED BY <1>6 DEF Rejected, RejectionsArePaid

(* Nodes that only pass on: Stage, Conclude and the end of the walk.       *)
LEMMA StageInv ==
  ASSUME IInv, Stage
  PROVE  IInv'
<1> USE DEF IInv
<1>1. /\ UNCHANGED <<candidates, backtracks, expansions, response, runs>>
      /\ graphSteps' = graphSteps + 1 /\ node' = Edge[node] /\ node \in Stages
  BY DEF Stage, Counted
<1>2. \/ node = "initialize" /\ node' = "resolve_entity"
      \/ node = "resolve_entity" /\ node' = "discover_objects"
      \/ node = "discover_objects" /\ node' = "select_candidate"
      \/ node = "create_plan" /\ node' = "validate_sql"
      \/ node = "validate_sql" /\ node' = "execute_sql"
      \/ node = "preserve_evidence" /\ node' = "classify_results"
  BY <1>1, EdgeValues DEF Stages
<1>3. WalkTypeOK'
  <2>1. node' \in Node BY <1>2, Nodes DEF Searching, Reading
  <2> QED BY <1>1, <2>1 DEF WalkTypeOK, candidates
<1>4. NotReproduced' BY <1>1, <1>2 DEF NotReproduced, Searching, Reading, candidates
<1>5. Classified' /\ Concluded'
  BY <1>2 DEF Classified, Concluded, Ending, Conclusions
<1>6. Rejected'
  <2>1. With({"CONTRADICTED"})' = With({"CONTRADICTED"}) BY <1>1 DEF With, candidates
  <2>2. RejectionsArePaid'
    BY <1>1, <1>2, <2>1, NobodyRejected DEF candidates, Rejected, Searching, Reading
  <2> QED BY <1>1, <1>2, <2>1, <2>2 DEF Rejected, Searching, Reading
<1>7. Steps' BY <1>1, <1>2, Limits DEF Steps, StepsPayForRuns, Searching, WalkTypeOK
<1> QED BY <1>3, <1>4, <1>5, <1>6, <1>7

LEMMA ConcludeInv ==
  ASSUME IInv, WalkConcludes \/ PipelineRaises
  PROVE  IInv'
<1> USE DEF IInv
<1>1. /\ UNCHANGED <<candidates, counters, response, runs>>
      /\ \/ node \in Conclusions /\ node' = Edge[node]
         \/ node = "execute_sql" /\ node' = "raised"
  BY DEF WalkConcludes, PipelineRaises
<1>2. node' \in Ending \cup {"raised"} BY <1>1, EdgeValues DEF Conclusions, Ending
<1>3. node' \notin Searching \cup Reading \cup {"evaluate_candidate"}
  BY <1>2 DEF Searching, Reading, Ending, Conclusions
<1>4. WalkTypeOK' BY <1>1, <1>2, Nodes DEF WalkTypeOK, candidates, counters
<1>5. NotReproduced' /\ Classified'
  BY <1>3 DEF NotReproduced, Classified
<1>6. Concluded'
  <2>1. node \in Ending \/ node' \notin Ending
    BY <1>1 DEF Ending, Conclusions
  <2>2. \A S : With(S)' = With(S) BY <1>1 DEF With, candidates
  <2> QED BY <1>1, <2>1, <2>2 DEF Concluded, candidates
<1>7. Rejected'
  <2>1. With({"CONTRADICTED"})' = With({"CONTRADICTED"}) BY <1>1 DEF With, candidates
  <2>2. RejectionsArePaid'
    BY <1>1, <2>1, NobodyRejected DEF candidates, counters, Rejected, RejectionsArePaid
  <2> QED BY <1>3, <2>2 DEF Rejected, Searching
<1>8. Steps'
  BY <1>1, <1>3 DEF Steps, StepsPayForRuns, Searching, Reading, counters
<1> QED BY <1>4, <1>5, <1>6, <1>7, <1>8

LEMMA SelectInv ==
  ASSUME IInv, SelectCandidate
  PROVE  IInv'
<1> USE DEF IInv
<1>1. /\ node = "select_candidate" /\ node' = "create_plan"
      /\ UNCHANGED <<status, findings, backtracks, expansions, response, runs>>
      /\ graphSteps' \in {graphSteps, graphSteps + 1}
  BY DEF SelectCandidate, Counted
<1>2. attempts' \in [Candidates -> 0..1] /\ active' \in Candidates \cup {Nothing}
  BY DEF SelectCandidate, Selectable, With, WalkTypeOK
<1>3. WalkTypeOK'
  <2>1. node' \in Node BY <1>1, Nodes DEF Searching
  <2> QED BY <1>1, <1>2, <2>1 DEF WalkTypeOK
<1>4. NotReproduced' BY <1>1 DEF NotReproduced, Searching, Reading
<1>5. Classified' /\ Concluded' BY <1>1 DEF Classified, Concluded, Ending, Conclusions
<1>6. Rejected'
  <2>1. With({"CONTRADICTED"})' = {} BY <1>1 DEF With, Rejected, Searching
  <2>2. RejectionsArePaid' BY <1>1, <2>1, NobodyRejected
  <2> QED BY <1>1, <2>1, <2>2 DEF Rejected, Searching
<1>7. Steps' BY <1>1, Limits DEF Steps, StepsPayForRuns, Searching, WalkTypeOK
<1> QED BY <1>3, <1>4, <1>5, <1>6, <1>7

LEMMA ExecuteInv ==
  ASSUME IInv, NEW result \in Payload, ExecuteSql(result)
  PROVE  IInv'
<1> USE DEF IInv
<1>1. /\ node = "execute_sql" /\ node' = "preserve_evidence"
      /\ UNCHANGED <<candidates, backtracks, expansions>>
      /\ response' = result /\ graphSteps' = graphSteps + 1
      /\ runs' = IF runs < MaxRuns THEN runs + 1 ELSE runs
  BY DEF ExecuteSql, Counted
<1>2. WalkTypeOK'
  <2>1. node' \in Node BY <1>1, Nodes DEF Reading
  <2> QED BY <1>1, <2>1, Limits DEF WalkTypeOK, candidates
<1>3. NotReproduced' BY <1>1 DEF NotReproduced, Searching, Reading, candidates
<1>4. Classified' /\ Concluded' BY <1>1 DEF Classified, Concluded, Ending, Conclusions
<1>5. Rejected'
  <2>1. With({"CONTRADICTED"})' = {} BY <1>1 DEF With, Rejected, Searching, candidates
  <2>2. RejectionsArePaid' BY <1>1, <2>1, NobodyRejected DEF candidates
  <2> QED BY <1>1, <2>1, <2>2 DEF Rejected, Searching
<1>6. Steps' BY <1>1, Limits DEF Steps, StepsPayForRuns, Searching, WalkTypeOK
<1> QED BY <1>2, <1>3, <1>4, <1>5, <1>6

LEMMA ClassifyInv ==
  ASSUME IInv, ClassifyResults
  PROVE  IInv'
<1> USE DEF IInv
<1>1. /\ node = "classify_results" /\ node' = "evaluate_candidate"
      /\ active' = Primary /\ graphSteps' = graphSteps + 1
      /\ findings' = IF Primary = Nothing THEN findings
                     ELSE findings \cup {<<Primary, response.outcome>>}
      /\ UNCHANGED <<backtracks, expansions, response, runs>>
      /\ status' = [c \in Candidates |->
           IF status[c] = Absent /\ c \in response.ranked THEN "UNVERIFIED" ELSE status[c]]
      /\ attempts' = [c \in Candidates |->
           IF status[c] = Absent /\ c \in response.ranked /\ c = response.primary
             THEN 1 ELSE attempts[c]]
  BY DEF ClassifyResults, Counted
<1>2. /\ response.primary \in Candidates \cup {Nothing} /\ response.ranked \in SUBSET Candidates
      /\ response.outcome \in EvidenceOutcome
  BY DEF WalkTypeOK, Payload
<1>3. With(CandidateStatus)' = Listed
  <2>1. \A c \in Candidates : status[c] \in CandidateStatus \/ status[c] = Absent
    BY DEF WalkTypeOK
  <2>2. Absent \notin CandidateStatus /\ "UNVERIFIED" \in CandidateStatus
    BY DEF Absent, CandidateStatus
  <2>3. \A c \in Candidates : status'[c] \in CandidateStatus <=>
          status[c] \in CandidateStatus \/ c \in response.ranked
    BY <1>1, <2>1, <2>2
  <2> QED BY <1>2, <2>3 DEF With, Listed
<1>4. /\ Primary \in Candidates \cup {Nothing}
      /\ Primary # Nothing => Primary = response.primary /\ Primary \in Listed
      /\ Primary = Nothing => response.primary \notin Listed
  <2>1. Listed \subseteq Candidates BY <1>2 DEF Listed, With
  <2> QED BY <1>2, <2>1, Limits DEF Primary
<1>5. WalkTypeOK'
  <2>1. status' \in [Candidates -> CandidateStatus \cup {Absent}]
    BY <1>1 DEF WalkTypeOK, CandidateStatus
  <2>2. attempts' \in [Candidates -> 0..1] BY <1>1 DEF WalkTypeOK
  <2>3. findings' \subseteq Candidates \X EvidenceOutcome BY <1>1, <1>2, <1>4 DEF WalkTypeOK
  <2>4. node' \in Node BY <1>1, Nodes
  <2> QED BY <1>1, <1>4, <2>1, <2>2, <2>3, <2>4 DEF WalkTypeOK
<1>6. NotReproduced' /\ Concluded'
  BY <1>1 DEF NotReproduced, Concluded, Searching, Reading, Ending, Conclusions
<1>7. Classified'
  <2>1. \A d \in Candidates : <<d, "VALUE_PRESENT">> \notin findings
    BY <1>1 DEF NotReproduced, Reading
  <2>2. \A d \in Candidates : <<d, "VALUE_PRESENT">> \in findings' =>
          d = Primary /\ response.outcome = "VALUE_PRESENT"
    BY <1>1, <2>1
  <2>3. Primary # Nothing => status'[Primary] # Absent
    <3>1. Absent \notin CandidateStatus BY DEF Absent, CandidateStatus
    <3> QED BY <1>3, <1>4, <3>1 DEF With
  <2> QED BY <1>1, <1>3, <1>4, <2>2, <2>3 DEF Classified
<1>8. Rejected'
  <2>1. With({"CONTRADICTED"}) = {} BY <1>1 DEF Rejected, Reading
  <2>2. With({"CONTRADICTED"})' = {} BY <1>1, <2>1 DEF With
  <2>3. RejectionsArePaid' BY <1>1, <2>2, NobodyRejected
  <2> QED BY <1>1, <2>2, <2>3 DEF Rejected, Searching, Reading
<1>9. Steps' BY <1>1, Limits DEF Steps, StepsPayForRuns, Searching, WalkTypeOK
<1> QED BY <1>5, <1>6, <1>7, <1>8, <1>9

LEMMA Judgements ==
  ASSUME NEW c
  PROVE  /\ Judged(c) \in {"SUPPORTED", "CONTRADICTED", "INSUFFICIENT"}
         /\ Judged(c) = "SUPPORTED" <=> Found(c, "VALUE_PRESENT")
BY DEF Judged

(* Where candidate_route may lead, and why.                                *)
LEMMA Routes ==
  ASSUME NEW verdict \in {Absent, "SUPPORTED", "CONTRADICTED", "INSUFFICIENT"}, NEW k \in Nat
  PROVE  LET n == CandidateRoute(verdict, k)
         IN  /\ n \in {"assess_evidence", "check_coverage", "reject_candidate", "expand_discovery"}
             /\ n \in {"reject_candidate", "expand_discovery"} => k < MaxGraphSteps
             /\ n = "reject_candidate" => verdict = "CONTRADICTED"
             /\ n = "expand_discovery" => verdict = "INSUFFICIENT"
<1>1. MaxGraphSteps \in Nat BY Limits
<1>2. CASE k >= MaxGraphSteps BY <1>1, <1>2 DEF CandidateRoute
<1>3. CASE k < MaxGraphSteps BY <1>1, <1>3 DEF CandidateRoute, Absent
<1> QED BY <1>1, <1>2, <1>3

LEMMA EvaluateInv ==
  ASSUME IInv, EvaluateCandidate
  PROVE  IInv'
<1> USE DEF IInv
<1>1. /\ node = "evaluate_candidate"
      /\ UNCHANGED <<attempts, active, findings, backtracks, expansions, response, runs>>
  BY DEF EvaluateCandidate
<1>2. /\ With({"CONTRADICTED"}) = {} /\ graphSteps >= 7 * runs + 1
      /\ backtracks < MaxBacktracks \/ backtracks = 0
  BY <1>1 DEF Rejected, Steps
<1>3. CASE active = Nothing
  <2>1. UNCHANGED <<status, graphSteps>> /\ node' = CandidateRoute(Absent, graphSteps)
    BY <1>3 DEF EvaluateCandidate
  <2>2. node' \in {"assess_evidence", "check_coverage"}
    BY <2>1, Routes DEF WalkTypeOK, Absent
  <2>3. WalkTypeOK'
    <3>1. node' \in Node BY <2>2, Nodes DEF Ending, Conclusions
    <3> QED BY <1>1, <2>1, <3>1 DEF WalkTypeOK
  <2>4. NotReproduced' /\ Classified' /\ Steps'
    BY <1>1, <2>2 DEF NotReproduced, Classified, Steps, StepsPayForRuns, Searching, Reading
  <2>5. Concluded'
    <3>1. response.primary \notin With(CandidateStatus)' /\ active' \notin Candidates
      BY <1>1, <1>3, <2>1, Limits DEF Classified, With
    <3> QED BY <1>1, <3>1 DEF Concluded
  <2>6. Rejected'
    <3>1. With({"CONTRADICTED"})' = {} BY <1>2, <2>1 DEF With
    <3>2. RejectionsArePaid' BY <1>1, <2>1, <3>1, NobodyRejected
    <3> QED BY <2>2, <3>2 DEF Rejected, Searching, Reading
  <2> QED BY <2>3, <2>4, <2>5, <2>6
<1>4. CASE active # Nothing
  <2> DEFINE verdict == Judged(active)
  <2>1. /\ status' = [status EXCEPT ![active] = verdict] /\ graphSteps' = graphSteps + 1
        /\ node' = CandidateRoute(verdict, graphSteps')
    BY <1>4 DEF EvaluateCandidate, Counted
  <2>2. verdict \in {"SUPPORTED", "CONTRADICTED", "INSUFFICIENT"} BY Judgements
  <2>3. /\ active \in Candidates /\ active = response.primary
        /\ verdict = "SUPPORTED" <=> response.outcome = "VALUE_PRESENT"
    <3>1. /\ active \in Candidates /\ active = response.primary
          /\ response.outcome = "VALUE_PRESENT" => <<active, "VALUE_PRESENT">> \in findings
          /\ \A d \in Candidates : <<d, "VALUE_PRESENT">> \in findings =>
               response.outcome = "VALUE_PRESENT"
      BY <1>1, <1>4 DEF WalkTypeOK, Classified
    <3>2. Found(active, "VALUE_PRESENT") <=> response.outcome = "VALUE_PRESENT"
      BY <3>1 DEF Found
    <3> QED BY <3>1, <3>2, Judgements
  <2>4. /\ node' \in {"assess_evidence", "check_coverage", "reject_candidate", "expand_discovery"}
        /\ node' \in {"reject_candidate", "expand_discovery"} => graphSteps' < MaxGraphSteps
        /\ node' = "reject_candidate" => verdict = "CONTRADICTED"
        /\ node' = "expand_discovery" => verdict = "INSUFFICIENT"
    BY <2>1, <2>2, Routes DEF WalkTypeOK
  <2> HIDE DEF verdict
  <2>5. /\ \A c \in Candidates : status'[c] = IF c = active THEN verdict ELSE status[c]
        /\ status' \in [Candidates -> CandidateStatus \cup {Absent}]
    BY <2>1, <2>2, <2>3 DEF WalkTypeOK, CandidateStatus
  <2>6. WalkTypeOK'
    <3>1. node' \in Node BY <2>4, Nodes DEF Searching, Ending, Conclusions
    <3> QED BY <1>1, <2>1, <2>5, <3>1 DEF WalkTypeOK
  <2>7. NotReproduced'
    <3>1. node' \in Searching \cup Reading => node' \in {"reject_candidate", "expand_discovery"}
      BY <2>4 DEF Searching, Reading
    <3>2. node' \in {"reject_candidate", "expand_discovery"} => response.outcome # "VALUE_PRESENT"
      BY <2>3, <2>4
    <3>3. \A d \in Candidates : <<d, "VALUE_PRESENT">> \in findings =>
            response.outcome = "VALUE_PRESENT"
      BY <1>1 DEF Classified
    <3> QED BY <1>1, <3>1, <3>2, <3>3 DEF NotReproduced
  <2>8. Classified' BY <2>4 DEF Classified
  <2>9. Concluded'
    <3>1. active \in With(CandidateStatus)' BY <2>2, <2>3, <2>5 DEF With, CandidateStatus
    <3> QED BY <1>1, <2>3, <2>5, <3>1 DEF Concluded
  <2>10. Rejected'
    <3>1. With({"CONTRADICTED"})' = IF verdict = "CONTRADICTED" THEN {active} ELSE {}
      BY <1>2, <2>3, <2>5 DEF With
    <3>2. RejectionsArePaid' BY <1>1, <2>2, <2>5, <3>1, NobodyRejected
    <3> QED BY <1>1, <1>2, <2>3, <2>4, <3>1, <3>2 DEF Rejected, Searching, Reading
  <2>11. Steps'
    <3>1. node' \in Searching => graphSteps' < MaxGraphSteps BY <2>4 DEF Searching
    <3> QED BY <1>1, <1>2, <2>1, <2>4, <3>1, Limits DEF Steps, StepsPayForRuns, WalkTypeOK
  <2> QED BY <2>6, <2>7, <2>8, <2>9, <2>10, <2>11
<1> QED BY <1>3, <1>4

LEMMA RejectInv ==
  ASSUME IInv, RejectCandidate
  PROVE  IInv'
<1> USE DEF IInv
<1>1. /\ node = "reject_candidate" /\ active' = Nothing
      /\ status' = [status EXCEPT ![active] = "REJECTED"]
      /\ backtracks' = backtracks + 1 /\ graphSteps' = graphSteps + 1
      /\ UNCHANGED <<attempts, findings, expansions, response, runs>>
      /\ node' = RejectionRoute(backtracks', With({"UNVERIFIED"}))
  BY DEF RejectCandidate, Backtracked, Counted
<1>2. /\ node' \in {"assess_evidence", "select_candidate", "expand_discovery"}
      /\ node' # "assess_evidence" => backtracks' < MaxBacktracks
  BY <1>1, Limits DEF RejectionRoute, WalkTypeOK
<1>3. /\ active \in Candidates /\ response.outcome # "VALUE_PRESENT"
      /\ backtracks < MaxBacktracks \/ backtracks = 0
      /\ graphSteps >= 7 * runs + 2 /\ (runs > 0 => 7 * runs + 2 < MaxGraphSteps)
  BY <1>1 DEF Rejected, NotReproduced, Searching, Steps
<1>4. /\ \A c \in Candidates : status'[c] = IF c = active THEN "REJECTED" ELSE status[c]
      /\ status' \in [Candidates -> CandidateStatus \cup {Absent}]
  BY <1>1 DEF WalkTypeOK, CandidateStatus
<1>5. WalkTypeOK'
  <2>1. node' \in Node BY <1>2, Nodes DEF Searching, Ending, Conclusions
  <2> QED BY <1>1, <1>4, <2>1 DEF WalkTypeOK
<1>6. NotReproduced' BY <1>1, <1>3 DEF NotReproduced, Searching
<1>7. Classified' BY <1>2 DEF Classified
<1>8. Concluded' BY <1>1, <1>3, Limits DEF Concluded
<1>9. RejectionsArePaid'
  <2>1. With({"CONTRADICTED"})' = {}
    BY <1>4 DEF Rejected, RejectionsArePaid, With
  <2>2. Cardinality(With({"REJECTED"})') <= Cardinality(With({"REJECTED"})) + 1
    <3>1. With({"REJECTED"})' \subseteq With({"REJECTED"}) \cup {active} BY <1>4 DEF With
    <3>2. With({"REJECTED"}) \cup {active} \in SUBSET Candidates BY <1>3 DEF With
    <3>3. With({"REJECTED"})' \in SUBSET Candidates BY <3>1, <3>2
    <3>4. Cardinality(With({"REJECTED"})') <= Cardinality(With({"REJECTED"}) \cup {active})
      BY <3>1, <3>2, Limits, FS_Subset
    <3>5. With({"REJECTED"}) \in SUBSET Candidates BY DEF With
    <3>6. Cardinality(With({"REJECTED"}) \cup {active}) <= Cardinality(With({"REJECTED"})) + 1
      BY <3>5, Limits, FS_AddElement
    <3> QED BY <3>2, <3>3, <3>4, <3>5, <3>6, Limits
  <2>3. Cardinality(With({"REJECTED"})') \in Nat /\ Cardinality(With({"REJECTED"})) \in Nat
    <3>1. With({"REJECTED"})' \in SUBSET Candidates /\ With({"REJECTED"}) \in SUBSET Candidates
      BY DEF With
    <3> QED BY <3>1, Limits
  <2> QED BY <1>1, <1>3, <2>1, <2>2, <2>3, Limits DEF Rejected, RejectionsArePaid, WalkTypeOK
<1>10. Rejected'
  <2>1. With({"CONTRADICTED"})' = {}
    BY <1>4 DEF Rejected, RejectionsArePaid, With
  <2> QED BY <1>2, <1>9, <2>1 DEF Rejected, Searching, Reading
<1>11. Steps'
  BY <1>1, <1>2, <1>3, Limits DEF Steps, StepsPayForRuns, Searching, WalkTypeOK
<1> QED BY <1>5, <1>6, <1>7, <1>8, <1>10, <1>11

LEMMA ExpandInv ==
  ASSUME IInv, ExpandDiscovery
  PROVE  IInv'
<1> USE DEF IInv
<1>1. /\ node = "expand_discovery" /\ node' = "discover_objects"
      /\ UNCHANGED <<status, attempts, findings, backtracks, response, runs>>
      /\ graphSteps' \in {graphSteps, graphSteps + 1} /\ active' \in {active, Nothing}
      /\ expansions' = expansions \/ (expansions < MaxExpansions /\ expansions' = expansions + 1)
  BY Limits DEF ExpandDiscovery, Counted, WalkTypeOK
<1>2. WalkTypeOK'
  <2>1. node' \in Node BY <1>1, Nodes DEF Searching
  <2> QED BY <1>1, <2>1, Limits DEF WalkTypeOK
<1>3. NotReproduced' /\ Classified' /\ Concluded'
  BY <1>1 DEF NotReproduced, Searching, Classified, Concluded, Ending, Conclusions
<1>4. Rejected'
  <2>1. With({"CONTRADICTED"})' = {} BY <1>1 DEF With, Rejected, Searching
  <2>2. RejectionsArePaid' BY <1>1, <2>1, NobodyRejected
  <2> QED BY <1>1, <2>1, <2>2 DEF Rejected, Searching
<1>5. Steps' BY <1>1, Limits DEF Steps, StepsPayForRuns, Searching, WalkTypeOK
<1> QED BY <1>2, <1>3, <1>4, <1>5

LEMMA NextInv == IInv /\ [WalkNext]_walkVars => IInv'
<1> SUFFICES ASSUME IInv, [WalkNext]_walkVars PROVE IInv' OBVIOUS
<1>1. CASE Stage BY <1>1, StageInv
<1>2. CASE SelectCandidate BY <1>2, SelectInv
<1>3. ASSUME NEW result \in Payload, ExecuteSql(result) PROVE IInv' BY <1>3, ExecuteInv
<1>4. CASE PipelineRaises \/ WalkConcludes BY <1>4, ConcludeInv
<1>5. CASE ClassifyResults BY <1>5, ClassifyInv
<1>6. CASE EvaluateCandidate BY <1>6, EvaluateInv
<1>7. CASE RejectCandidate BY <1>7, RejectInv
<1>8. CASE ExpandDiscovery BY <1>8, ExpandInv
<1>9. CASE UNCHANGED walkVars
  <2>1. UNCHANGED <<node, status, attempts, active, findings, backtracks, expansions, graphSteps,
                    response, runs>>
    BY <1>9 DEF walkVars, candidates, counters
  <2>2. \A S : With(S)' = With(S) BY <2>1 DEF With
  <2>3. WalkTypeOK' /\ NotReproduced' /\ Classified' /\ Concluded'
    BY <2>1, <2>2 DEF IInv, WalkTypeOK, NotReproduced, Classified, Concluded
  <2>4. Rejected' /\ Steps'
    BY <2>1, <2>2 DEF IInv, Rejected, RejectionsArePaid, Steps, StepsPayForRuns
  <2> QED BY <2>3, <2>4 DEF IInv
<1> QED BY <1>1, <1>2, <1>3, <1>4, <1>5, <1>6, <1>7, <1>8, <1>9 DEF WalkNext, Walk, Over

LEMMA InvHolds == WalkSpec => []IInv
BY InitInv, NextInv, PTL DEF WalkSpec

(* Whatever the pipeline finds, the state keeps its shape and the          *)
(* expansion budget holds.                                                 *)
THEOREM WalkTypeCorrect == WalkSpec => []WalkTypeOK
<1>1. IInv => WalkTypeOK BY DEF IInv
<1> QED BY <1>1, InvHolds, PTL

(* Rejections are paid for by backtracks and runs of the pipeline by       *)
(* steps, for every value of the limits.                                   *)
THEOREM SearchAlwaysPaid == WalkSpec => []SearchIsPaid
<1>1. IInv => SearchIsPaid BY DEF IInv, Rejected, Steps, SearchIsPaid
<1> QED BY <1>1, InvHolds, PTL

(* The verdict the walk ends with is that of the answer it returns,        *)
(* whatever objects share their names.                                     *)
THEOREM VerdictAlwaysMatches == WalkSpec => []VerdictMatchesAnswer
<1>1. IInv => VerdictMatchesAnswer BY DEF IInv, Concluded, VerdictMatchesAnswer, Ending
<1> QED BY <1>1, InvHolds, PTL

(* An answer that reproduced the problem is the last one.                  *)
THEOREM ReproductionIsFinal == WalkSpec => ReproductionEndsTheSearch
<1>1. IInv /\ [WalkNext]_walkVars => [runs' # runs /\ runs > 0 => response.outcome # "VALUE_PRESENT"]_walkVars
  <2> SUFFICES ASSUME IInv, WalkNext, runs' # runs PROVE response.outcome # "VALUE_PRESENT"
    OBVIOUS
  <2>1. PICK result \in Payload : ExecuteSql(result)
    BY DEF WalkNext, Walk, Over, Stage, SelectCandidate, PipelineRaises, ClassifyResults,
           EvaluateCandidate, RejectCandidate, ExpandDiscovery, WalkConcludes, walkVars
  <2> QED BY <2>1 DEF ExecuteSql, IInv, NotReproduced, Searching
<1> QED BY <1>1, InvHolds, PTL DEF WalkSpec, ReproductionEndsTheSearch

-----------------------------------------------------------------------------
(* The evidence loop.                                                      *)

(* The nodes before the assessment, and those at which nothing has been    *)
(* asked of the provider.                                                  *)
Gathering == {"initialize", "resolve_entity", "discover_objects", "create_plan",
              "validate_sql", "execute_sql", "preserve_evidence", "classify_results",
              "check_coverage"}
Unasked == Gathering \cup {"assess_evidence", "apply_evidence_gate", "invoke_reasoning"}

(* Queries are about discovered objects only, and before the discovery     *)
(* there are none.  Something is required of whatever is discovered.       *)
Discovered ==
  /\ place \in {"initialize", "resolve_entity", "discover_objects"} => known = {}
  /\ ObjectsOf(proposed) \cup ObjectsOf(approved) \cup ObjectsOf(Executed) \subseteq known
  /\ required = {} => known = {}
  /\ stalled <= round

(* Complete coverage is as good as its word, and it is never revised; a    *)
(* walk that has not failed is assessed on a settled coverage.             *)
CoverageHolds ==
  /\ place \in Gathering => coverage \in {"NOT_STARTED", "PARTIAL"}
  /\ coverage = "COMPLETE" => required # {} /\ required \subseteq Successful /\ ~Blocking
  /\ place \in {"assess_evidence", "apply_evidence_gate"} /\ terminal \notin Failures =>
       coverage # "PARTIAL" /\ (coverage = "NOT_STARTED" => required = {})

(* Whatever is allowed, called or answered rests on complete coverage, and *)
(* an answer on a completed audit record.                                  *)
Asked ==
  /\ place \in Gathering \cup {"assess_evidence"} => ~allowed /\ ~called
  /\ place \in Unasked => answer = "none" /\ report = "none" /\ invocation = "none"
  /\ place = "invoke_reasoning" => called
  /\ allowed \/ called \/ invocation # "none" => coverage = "COMPLETE"
  /\ answer # "none" \/ report = "reasoned" => invocation = "completed"

LoopInv ==
  LoopTypeOK /\ ExecutionsAreCounted /\ EvidenceIsStored /\ Discovered /\ CoverageHolds /\ Asked

-----------------------------------------------------------------------------
LEMMA LoopLimits ==
  /\ MaxRounds \in Nat /\ MaxQueries \in Nat
  /\ \A S \in SUBSET Queries : IsFiniteSet(S) /\ Cardinality(S) \in Nat
BY EvidenceAssumption, FS_Subset, FS_CardinalityType

LEMMA LoopPlaces ==
  LoopNode = Gathering \cup {"assess_evidence", "apply_evidence_gate", "invoke_reasoning",
                             "validate_reasoning", "compose_report", "validate_report", "finalize"}
BY DEF LoopNode, Gathering

(* Where a node leads, by the state it leaves behind.                      *)
LEMMA WayOn ==
  ASSUME Leave, LoopTypeOK
  PROVE  /\ place = "initialize" => place' = "resolve_entity"
         /\ place = "resolve_entity" => place' = "discover_objects"
         /\ place = "discover_objects" => place' = "create_plan"
         /\ place = "create_plan" => place' = "validate_sql"
         /\ place = "validate_sql" => place' = "execute_sql"
         /\ place = "execute_sql" => place' = "preserve_evidence"
         /\ place = "preserve_evidence" => place' = "classify_results"
         /\ place = "classify_results" => place' = "check_coverage"
         /\ place = "check_coverage" =>
              \/ place' = "finalize" /\ cancelRequested
              \/ place' = "create_plan" /\ coverage' = "PARTIAL" /\ ~cancelRequested
              \/ place' = "assess_evidence" /\ coverage' # "PARTIAL" /\ ~cancelRequested
         /\ place = "assess_evidence" => place' = "apply_evidence_gate"
         /\ place = "apply_evidence_gate" =>
              \/ place' = "invoke_reasoning" /\ called'
              \/ place' = "compose_report" /\ ~called'
         /\ place = "invoke_reasoning" => place' = "validate_reasoning"
         /\ place = "validate_reasoning" => place' = "compose_report"
         /\ place = "compose_report" => place' = "validate_report"
         /\ place = "validate_report" => place' = "finalize"
         /\ place = "finalize" => place' = "end"
<1>1. cancelRequested \in BOOLEAN BY DEF LoopTypeOK
<1>2. place' = LoopEdge(place, coverage', called') BY DEF Leave
<1>3. CASE place = "check_coverage"
  <2>1. place' = CoverageRoute(coverage') BY <1>2, <1>3 DEF LoopEdge
  <2> QED BY <1>1, <1>3, <2>1 DEF CoverageRoute
<1>4. CASE place = "apply_evidence_gate" BY <1>2, <1>4 DEF LoopEdge
<1> QED BY <1>2, <1>3, <1>4 DEF LoopEdge

LEMMA LoopInitInv == LoopInit => LoopInv
<1> SUFFICES ASSUME LoopInit PROVE LoopInv OBVIOUS
<1> USE DEF LoopInit
<1>1. Executed = {} /\ QueriesThat({"kept"}) = {} BY DEF Executed, QueriesThat
<1>2. LoopTypeOK
  <2>1. results \in [Queries -> {"none", "ok", "failed", "denied", "kept"}] OBVIOUS
  <2>2. {cancelRequested, resolved, gapped, allowed, called} \subseteq BOOLEAN OBVIOUS
  <2>3. /\ \A S \in {proposed, approved, persisted} : S \subseteq Queries
        /\ rejected \subseteq Texts(Queries)
    OBVIOUS
  <2>4. round \in 0..MaxRounds /\ stalled \in 0..MaxRounds /\ count \in 0..MaxQueries
    BY LoopLimits
  <2>5. known \subseteq Objects /\ required \subseteq known /\ plans \subseteq SUBSET Objects
    OBVIOUS
  <2> HIDE DEF LoopInit
  <2>6. /\ place = "initialize" /\ terminal = "RUNNING" /\ coverage = "NOT_STARTED"
        /\ answer = "none" /\ report = "none" /\ invocation = "none"
    BY DEF LoopInit
  <2> QED BY <2>1, <2>2, <2>3, <2>4, <2>5, <2>6
        DEF LoopTypeOK, LoopNode, Terminals, CoverageStatus
<1>3. ExecutionsAreCounted BY <1>1, FS_EmptySet DEF ExecutionsAreCounted, Executed
<1>4. EvidenceIsStored BY <1>1 DEF EvidenceIsStored
<1>5. Discovered BY <1>1 DEF Discovered, ObjectsOf
<1>6. CoverageHolds /\ Asked BY DEF CoverageHolds, Asked, Gathering
<1> QED BY <1>2, <1>3, <1>4, <1>5, <1>6 DEF LoopInv

(* What is gathered survives a step that asks, finds and stores nothing.   *)
LEMMA NothingGathered ==
  ASSUME LoopInv, UNCHANGED <<search, queries>>,
         place' \in {"initialize", "resolve_entity", "discover_objects"} =>
           place \in {"initialize", "resolve_entity", "discover_objects"},
         terminal = "FAILED" => terminal' = "FAILED"
  PROVE  ExecutionsAreCounted' /\ EvidenceIsStored' /\ Discovered'
<1>1. /\ UNCHANGED <<known, required, gapped, round, plans, stalled>>
      /\ UNCHANGED <<proposed, approved, rejected, results, count, persisted>>
  BY DEF search, queries
<1>2. ExecutionsAreCounted' BY <1>1 DEF LoopInv, ExecutionsAreCounted, Executed, QueriesThat
<1>3. EvidenceIsStored' BY <1>1 DEF LoopInv, EvidenceIsStored, QueriesThat
<1>4. Discovered' BY <1>1 DEF LoopInv, Discovered, Executed, QueriesThat, ObjectsOf
<1> QED BY <1>2, <1>3, <1>4

(* Coverage and reasoning survive a step between the first nodes, whatever *)
(* it finds, ...                                                           *)
LEMMA StillGathering ==
  ASSUME LoopInv, UNCHANGED <<coverage, reasoned>>,
         place \in Gathering, place' \in Gathering
  PROVE  CoverageHolds' /\ Asked'
<1>1. UNCHANGED <<coverage, allowed, called, answer, report, invocation>> BY DEF reasoned
<1>2. coverage \in {"NOT_STARTED", "PARTIAL"} BY DEF LoopInv, CoverageHolds
<1>3. CoverageHolds' BY <1>1, <1>2 DEF CoverageHolds, Gathering
<1>4. /\ ~allowed /\ ~called
      /\ answer = "none" /\ report = "none" /\ invocation = "none"
  BY DEF LoopInv, Asked, Unasked
<1>5. Asked' BY <1>1, <1>4 DEF Asked, Gathering
<1> QED BY <1>3, <1>5

(* ... and the coverage any step behind them that gathers nothing.         *)
LEMMA CoverageKept ==
  ASSUME LoopInv, UNCHANGED <<search, queries, coverage>>,
         place' \notin Gathering,
         place' \in {"assess_evidence", "apply_evidence_gate"} /\ terminal' \notin Failures =>
           coverage # "PARTIAL" /\ (coverage = "NOT_STARTED" => required = {})
  PROVE  CoverageHolds'
<1>1. UNCHANGED <<known, required, gapped, results, coverage>> BY DEF search, queries
<1> QED BY <1>1 DEF LoopInv, CoverageHolds, Successful, ObjectsOf, QueriesThat, Blocking

-----------------------------------------------------------------------------
(* Nodes that leave search and queries alone.                              *)
LEMMA PassOverInv ==
  ASSUME LoopInv, NEW n \in LoopNode, PassOver(n)
  PROVE  LoopInv'
<1>1. /\ place \in LoopNode /\ Leave /\ LoopTypeOK
      /\ UNCHANGED <<cancelRequested, resolved, search, queries, coverage, reasoned>>
      /\ terminal' \in Failures /\ (terminal = "FAILED" => terminal' = "FAILED")
  BY DEF PassOver, LoopInv, Failures, Terminals
<1>2. place' \in LoopNode \cup {"end"} BY <1>1, WayOn, LoopPlaces DEF Gathering
<1>3. LoopTypeOK' BY <1>1, <1>2 DEF LoopTypeOK, search, queries, reasoned, Failures
<1>4. ExecutionsAreCounted' /\ EvidenceIsStored' /\ Discovered'
  <2>1. place' \in {"initialize", "resolve_entity", "discover_objects"} =>
          place \in {"initialize", "resolve_entity", "discover_objects"}
    BY <1>1, WayOn, LoopPlaces DEF Gathering
  <2> QED BY <1>1, <2>1, NothingGathered
<1>5. CoverageHolds' /\ Asked'
  <2>1. CASE place \in Gathering /\ place' \in Gathering
    BY <1>1, <2>1, StillGathering
  <2>2. CASE place' \notin Gathering
    <3>1. CoverageHolds' BY <1>1, <2>2, CoverageKept
    <3>2. UNCHANGED <<coverage, allowed, called, answer, report, invocation>>
      BY <1>1 DEF reasoned
    <3>3. place' = "assess_evidence" => place = "check_coverage"
      BY <1>1, WayOn, LoopPlaces DEF Gathering
    <3>4. place' = "invoke_reasoning" => called'
      BY <1>1, WayOn, LoopPlaces DEF Gathering
    <3>5. place' \in Unasked => place \in Unasked
      BY <1>1, WayOn, LoopPlaces DEF Gathering, Unasked
    <3>6. Asked' BY <2>2, <3>2, <3>3, <3>4, <3>5 DEF LoopInv, Asked, Gathering
    <3> QED BY <3>1, <3>6
  <2>3. place' \in Gathering => place \in Gathering
    BY <1>1, WayOn, LoopPlaces DEF Gathering
  <2> QED BY <2>1, <2>2, <2>3
<1> QED BY <1>3, <1>4, <1>5 DEF LoopInv

LEMMA CallerInv ==
  ASSUME LoopInv, Initialize \/ ReviewResults \/ ResolveEntity
  PROVE  LoopInv'
<1>1. /\ place \in {"initialize", "classify_results", "resolve_entity"}
      /\ terminal \notin Failures /\ terminal' \in Terminals
      /\ Leave /\ cancelRequested' \in BOOLEAN /\ resolved' \in BOOLEAN
      /\ UNCHANGED <<search, queries, coverage, reasoned>>
  BY DEF Initialize, ReviewResults, ResolveEntity, Handles, LoopInv, LoopTypeOK, Terminals
<1>2. LoopTypeOK BY DEF LoopInv
<1>3. place' \in {"resolve_entity", "discover_objects", "check_coverage"} BY <1>1, <1>2, WayOn
<1>4. LoopTypeOK' BY <1>1, <1>2, <1>3 DEF LoopTypeOK, search, queries, reasoned, LoopNode
<1>5. ExecutionsAreCounted' /\ EvidenceIsStored' /\ Discovered'
  <2>1. place' \in {"initialize", "resolve_entity", "discover_objects"} =>
          place \in {"initialize", "resolve_entity", "discover_objects"}
    BY <1>1, <1>2, WayOn
  <2>2. terminal # "FAILED" BY <1>1 DEF Failures, Terminals
  <2> QED BY <1>1, <2>1, <2>2, NothingGathered
<1>6. CoverageHolds' /\ Asked'
  <2>1. place \in Gathering /\ place' \in Gathering BY <1>1, <1>3 DEF Gathering
  <2> QED BY <1>1, <2>1, StillGathering
<1> QED BY <1>4, <1>5, <1>6 DEF LoopInv

-----------------------------------------------------------------------------
(* Nodes that gather.                                                      *)
LEMMA DiscoverInv ==
  ASSUME LoopInv, DiscoverObjects
  PROVE  LoopInv'
<1>1. /\ place = "discover_objects" /\ Leave /\ LoopTypeOK
      /\ terminal \notin Failures /\ terminal' \in Terminals
      /\ UNCHANGED <<cancelRequested, resolved, round, plans, stalled, queries, coverage, reasoned>>
  BY DEF DiscoverObjects, Handles, Fails, LoopInv, LoopTypeOK, Terminals
<1>2. UNCHANGED <<proposed, approved, rejected, results, count, persisted>> BY <1>1 DEF queries
<1>3. place' = "create_plan" BY <1>1, WayOn
<1>4. /\ known' \subseteq Objects /\ required' \subseteq known' /\ gapped' \in BOOLEAN
      /\ required' = {} => known' = {}
  <2>1. CASE UNCHANGED <<known, required, gapped>>
    BY <1>1, <2>1 DEF LoopInv, LoopTypeOK, Discovered
  <2>2. CASE /\ known' \in SUBSET Objects
             /\ required' \in {R \in SUBSET known' :
                                 Cardinality(R) = IF known' = {} THEN 0 ELSE 1}
             /\ gapped' \in BOOLEAN
    <3>1. Cardinality({}) = 0 BY FS_EmptySet
    <3> QED BY <2>2, <3>1
  <2> QED BY <2>1, <2>2 DEF DiscoverObjects
<1>5. LoopTypeOK' BY <1>1, <1>2, <1>3, <1>4 DEF LoopTypeOK, reasoned, LoopNode
<1>6. known = {} BY <1>1 DEF LoopInv, Discovered
<1>7. Discovered'
  <2>1. ObjectsOf(proposed) \cup ObjectsOf(approved) \cup ObjectsOf(Executed) = {}
    BY <1>6 DEF LoopInv, Discovered
  <2>2. (ObjectsOf(proposed) \cup ObjectsOf(approved) \cup ObjectsOf(Executed))' = {}
    BY <1>2, <2>1 DEF ObjectsOf, Executed, QueriesThat
  <2> QED BY <1>1, <1>3, <1>4, <2>2 DEF LoopInv, Discovered
<1>8. ExecutionsAreCounted' BY <1>2 DEF LoopInv, ExecutionsAreCounted, Executed, QueriesThat
<1>9. EvidenceIsStored' BY <1>1, <1>2 DEF LoopInv, EvidenceIsStored, QueriesThat, Failures, Terminals
<1>10. CoverageHolds' /\ Asked'
  <2>1. place \in Gathering /\ place' \in Gathering BY <1>1, <1>3 DEF Gathering
  <2> QED BY <1>1, <2>1, StillGathering
<1> QED BY <1>5, <1>7, <1>8, <1>9, <1>10 DEF LoopInv

LEMMA CreatePlanInv ==
  ASSUME LoopInv, NEW objects \in SUBSET known,
         NEW generated \in SUBSET {q \in Queries : ObjectOf[q] \in known}, CreatePlan(objects, generated)
  PROVE  LoopInv'
<1>1. /\ place = "create_plan" /\ Leave /\ LoopTypeOK /\ terminal \notin Failures
      /\ UNCHANGED <<terminal, cancelRequested, resolved, known, required, gapped, approved,
                     rejected, results, count, persisted, coverage, reasoned>>
  BY DEF CreatePlan, Handles, LoopInv
<1>2. place' = "validate_sql" BY <1>1, WayOn
<1>3. generated \subseteq Queries /\ ObjectsOf(generated) \subseteq known
  BY DEF ObjectsOf
<1>4. /\ proposed' \subseteq Queries
      /\ ObjectsOf(proposed)' \subseteq known
  BY <1>1, <1>3 DEF CreatePlan, Unrejected, LoopTypeOK, LoopInv, Discovered, ObjectsOf
<1>5. /\ round' \in 0..MaxRounds /\ stalled' \in 0..MaxRounds /\ stalled' <= round'
      /\ plans' \subseteq SUBSET Objects
  <2>1. /\ round \in 0..MaxRounds /\ stalled \in 0..MaxRounds /\ stalled <= round
        /\ plans \subseteq SUBSET Objects /\ known \subseteq Objects
    BY <1>1 DEF LoopTypeOK, LoopInv, Discovered
  <2>2. CASE round >= MaxRounds BY <2>1, <2>2 DEF CreatePlan
  <2>3. CASE ~(round >= MaxRounds)
    <3>1. /\ round' = round + 1 /\ plans' = plans \cup {objects}
          /\ stalled' = stalled + 1 \/ stalled' = 0
      BY <2>3 DEF CreatePlan
    <3>2. plans' \subseteq SUBSET Objects BY <2>1, <3>1
    <3>3. round' \in 0..MaxRounds /\ stalled' \in 0..MaxRounds /\ stalled' <= round'
      BY <2>1, <2>3, <3>1, LoopLimits
    <3> QED BY <3>2, <3>3
  <2> QED BY <2>2, <2>3
<1>6. LoopTypeOK' BY <1>1, <1>2, <1>4, <1>5 DEF LoopTypeOK, reasoned, LoopNode
<1>7. Discovered' BY <1>1, <1>2, <1>4, <1>5 DEF LoopInv, Discovered, ObjectsOf, Executed, QueriesThat
<1>8. ExecutionsAreCounted' /\ EvidenceIsStored'
  BY <1>1 DEF LoopInv, ExecutionsAreCounted, EvidenceIsStored, Executed, QueriesThat
<1>9. CoverageHolds' /\ Asked'
  <2>1. place \in Gathering /\ place' \in Gathering BY <1>1, <1>2 DEF Gathering
  <2> QED BY <1>1, <2>1, StillGathering
<1> QED BY <1>6, <1>7, <1>8, <1>9 DEF LoopInv

LEMMA ValidateSqlInv ==
  ASSUME LoopInv, ValidateSql
  PROVE  LoopInv'
<1>1. /\ place = "validate_sql" /\ Leave /\ LoopTypeOK
      /\ approved' \subseteq proposed /\ rejected' = rejected \cup Texts(proposed \ approved')
      /\ UNCHANGED <<terminal, cancelRequested, resolved, search, proposed, results, count, persisted,
                     coverage, reasoned>>
  BY DEF ValidateSql, Handles, LoopInv
<1>2. place' = "execute_sql" BY <1>1, WayOn
<1>3. UNCHANGED <<known, required, gapped, round, plans, stalled>> BY <1>1 DEF search
<1>4. LoopTypeOK'
  <2>1. Texts(proposed \ approved') \subseteq Texts(Queries) BY <1>1 DEF LoopTypeOK, Texts
  <2> QED BY <1>1, <1>2, <1>3, <2>1 DEF LoopTypeOK, reasoned, LoopNode
<1>5. Discovered'
  BY <1>1, <1>2, <1>3 DEF LoopInv, Discovered, ObjectsOf, Executed, QueriesThat
<1>6. ExecutionsAreCounted' /\ EvidenceIsStored'
  BY <1>1 DEF LoopInv, ExecutionsAreCounted, EvidenceIsStored, Executed, QueriesThat
<1>7. CoverageHolds' /\ Asked'
  <2>1. place \in Gathering /\ place' \in Gathering BY <1>1, <1>2 DEF Gathering
  <2> QED BY <1>1, <2>1, StillGathering
<1> QED BY <1>4, <1>5, <1>6, <1>7 DEF LoopInv

(* Only queries without a result run, so each adds one to those that have. *)
LEMMA ExecuteBatchInv ==
  ASSUME LoopInv, NEW batch \in SUBSET approved, ExecuteBatch(batch)
  PROVE  LoopInv'
<1>1. /\ place = "execute_sql" /\ Leave /\ LoopTypeOK
      /\ batch \subseteq Fresh /\ count' = count + Cardinality(batch)
      /\ UNCHANGED <<terminal, cancelRequested, resolved, search, proposed, approved, rejected,
                     persisted, coverage, reasoned>>
  BY DEF ExecuteBatch, Handles, LoopInv
<1>2. place' = "preserve_evidence" BY <1>1, WayOn
<1>3. UNCHANGED <<known, required, gapped, round, plans, stalled>> BY <1>1 DEF search
<1>4. /\ results' \in [Queries -> {"none", "ok", "failed", "denied", "kept"}]
      /\ \A q \in Queries : q \in batch => results[q] = "none"
                                           /\ results'[q] \in {"ok", "failed", "denied"}
      /\ \A q \in Queries : q \notin batch => results'[q] = results[q]
  <2>1. PICK outcome \in [batch -> {"ok", "failed", "denied"}] :
          results' = [q \in Queries |-> IF q \in batch THEN outcome[q] ELSE results[q]]
    BY DEF ExecuteBatch
  <2>2. results \in [Queries -> {"none", "ok", "failed", "denied", "kept"}]
    BY <1>1 DEF LoopTypeOK
  <2>3. \A q \in batch : results[q] = "none"
    BY <1>1, <2>2 DEF Fresh, Texts, Executed, QueriesThat, LoopTypeOK
  <2> QED BY <2>1, <2>2, <2>3
<1>5. batch \in SUBSET Queries /\ approved \in SUBSET Queries BY <1>1 DEF LoopTypeOK
<1>6. Executed' = Executed \cup batch /\ Executed \cap batch = {}
  BY <1>4, <1>5 DEF Executed, QueriesThat
<1>7. Executed \in SUBSET Queries /\ Fresh \in SUBSET Queries
  BY <1>5 DEF Executed, QueriesThat, Fresh
<1>8. Cardinality(Executed') = count'
  <2>1. IsFiniteSet(Executed) /\ IsFiniteSet(batch) BY <1>5, <1>7, LoopLimits
  <2>2. Cardinality(Executed \cap batch) = 0 BY <1>6, FS_EmptySet
  <2>3. Cardinality(Executed \cup batch) = Cardinality(Executed) + Cardinality(batch) - Cardinality(Executed \cap batch)
    BY <2>1, FS_Union
  <2>4. Cardinality(Executed) = count BY DEF LoopInv, ExecutionsAreCounted, Executed
  <2>5. Cardinality(Executed) \in Nat /\ Cardinality(batch) \in Nat BY <1>5, <1>7, LoopLimits
  <2> QED BY <1>1, <1>6, <2>2, <2>3, <2>4, <2>5
<1>9. count' \in 0..MaxQueries
  <2>1. count \in 0..MaxQueries /\ MaxQueries \in Nat BY <1>1, LoopLimits DEF LoopTypeOK
  <2>2. Cardinality(batch) \in Nat /\ Cardinality(Fresh) \in Nat BY <1>5, <1>7, LoopLimits
  <2>3. Cardinality(batch) <= MaxQueries - count
    BY <2>1, <2>2 DEF ExecuteBatch, Remaining
  <2> QED BY <1>1, <2>1, <2>2, <2>3
<1>10. LoopTypeOK' BY <1>1, <1>2, <1>3, <1>4, <1>9 DEF LoopTypeOK, reasoned, LoopNode
<1>11. Discovered'
  <2>1. ObjectsOf(Executed') \subseteq ObjectsOf(Executed) \cup ObjectsOf(approved)
    BY <1>6 DEF ObjectsOf
  <2> QED BY <1>1, <1>2, <1>3, <2>1 DEF LoopInv, Discovered, ObjectsOf
<1>12. ExecutionsAreCounted' BY <1>8 DEF ExecutionsAreCounted, Executed
<1>13. EvidenceIsStored'
  <2>1. QueriesThat({"kept"})' = QueriesThat({"kept"}) BY <1>4 DEF QueriesThat
  <2> QED BY <1>1, <2>1 DEF LoopInv, EvidenceIsStored
<1>14. CoverageHolds' /\ Asked'
  <2>1. place \in Gathering /\ place' \in Gathering BY <1>1, <1>2 DEF Gathering
  <2> QED BY <1>1, <2>1, StillGathering
<1> QED BY <1>10, <1>11, <1>12, <1>13, <1>14 DEF LoopInv

LEMMA PreserveInv ==
  ASSUME LoopInv, PreserveEvidence
  PROVE  LoopInv'
<1>1. /\ place = "preserve_evidence" /\ Leave /\ LoopTypeOK /\ terminal \notin Failures
      /\ UNCHANGED <<cancelRequested, resolved, search, proposed, approved, rejected, count,
                     coverage, reasoned>>
  BY DEF PreserveEvidence, Handles, LoopInv
<1>2. place' = "classify_results" BY <1>1, WayOn
<1>3. UNCHANGED <<known, required, gapped, round, plans, stalled>> BY <1>1 DEF search
<1>4. terminal # "FAILED" BY <1>1 DEF Failures, Terminals
<1>5. results \in [Queries -> {"none", "ok", "failed", "denied", "kept"}]
  BY <1>1 DEF LoopTypeOK
<1>6. /\ results' \in [Queries -> {"none", "ok", "failed", "denied", "kept"}]
      /\ Executed' = Executed
      /\ persisted' \subseteq Queries
      /\ terminal' \in Terminals
      /\ EvidenceIsStored'
  <2>1. persisted = QueriesThat({"kept"}) BY <1>4 DEF LoopInv, EvidenceIsStored
  <2>2. CASE /\ results' = [q \in Queries |-> IF results[q] = "ok" THEN "kept" ELSE results[q]]
             /\ persisted' = persisted \cup QueriesThat({"ok"})
             /\ UNCHANGED terminal
    <3>1. QueriesThat({"kept"})' = QueriesThat({"kept"}) \cup QueriesThat({"ok"})
      BY <1>5, <2>2 DEF QueriesThat
    <3>2. Executed' = Executed BY <1>5, <2>2 DEF Executed, QueriesThat
    <3>3. results' \in [Queries -> {"none", "ok", "failed", "denied", "kept"}] BY <1>5, <2>2
    <3> QED BY <1>1, <2>1, <2>2, <3>1, <3>2, <3>3 DEF EvidenceIsStored, QueriesThat, LoopTypeOK
  <2>3. CASE /\ \E taken \in SUBSET QueriesThat({"ok"}) : persisted' = persisted \cup taken
             /\ terminal' = "FAILED" /\ UNCHANGED results
    BY <1>5, <2>1, <2>3 DEF EvidenceIsStored, QueriesThat, Executed, Terminals
  <2> QED BY <2>2, <2>3 DEF PreserveEvidence, Fails
<1>7. LoopTypeOK' BY <1>1, <1>2, <1>3, <1>6 DEF LoopTypeOK, reasoned, LoopNode
<1>8. Discovered' BY <1>1, <1>2, <1>3, <1>6 DEF LoopInv, Discovered, ObjectsOf
<1>9. ExecutionsAreCounted' BY <1>1, <1>6 DEF LoopInv, ExecutionsAreCounted, Executed
<1>10. CoverageHolds' /\ Asked'
  <2>1. place \in Gathering /\ place' \in Gathering BY <1>1, <1>2 DEF Gathering
  <2> QED BY <1>1, <2>1, StillGathering
<1> QED BY <1>6, <1>7, <1>8, <1>9, <1>10 DEF LoopInv

-----------------------------------------------------------------------------
(* The assessment and what rests on it.                                    *)
LEMMA CheckCoverageInv ==
  ASSUME LoopInv, CheckCoverage
  PROVE  LoopInv'
<1>1. /\ place = "check_coverage" /\ Leave /\ LoopTypeOK
      /\ terminal \notin Failures /\ ~cancelRequested
      /\ UNCHANGED <<terminal, cancelRequested, resolved, search, queries, reasoned>>
  BY DEF CheckCoverage, Handles, LoopInv
<1>2. PICK late \in BOOLEAN : coverage' = Covered(late) BY DEF CheckCoverage
<1>3. /\ coverage' \in CoverageStatus
      /\ coverage' = "NOT_STARTED" => required = {}
      /\ coverage' = "COMPLETE" => required # {} /\ Missing = {} /\ ~Blocking
  <2> DEFINE limit == Limit(late)
  <2>1. limit \in BOOLEAN /\ Blocking \in BOOLEAN
    BY <1>1 DEF Limit, Blocking, LoopTypeOK
  <2>2. coverage' =
          CASE required = {} -> "NOT_STARTED"
            [] required # {} /\ Missing = {} /\ ~Blocking -> "COMPLETE"
            [] required # {} /\ (Missing # {} \/ Blocking) /\ limit -> "LIMIT_REACHED"
            [] required # {} /\ (Missing # {} \/ Blocking) /\ ~limit ->
                 IF ObjectsOf(QueriesThat({"denied"})) \cap Missing # {} THEN "BLOCKED"
                 ELSE "PARTIAL"
    BY <1>2 DEF Covered
  <2> HIDE DEF limit
  <2> QED BY <2>1, <2>2 DEF CoverageStatus
<1>4. \/ place' = "create_plan" /\ coverage' = "PARTIAL"
      \/ place' = "assess_evidence" /\ coverage' # "PARTIAL"
  BY <1>1, WayOn
<1>5. LoopTypeOK'
  BY <1>1, <1>3, <1>4 DEF LoopTypeOK, search, queries, reasoned, LoopNode
<1>6. ExecutionsAreCounted' /\ EvidenceIsStored' /\ Discovered' BY <1>1, <1>4, NothingGathered
<1>7. CoverageHolds'
  <2>1. UNCHANGED <<required, gapped, results>> BY <1>1 DEF search, queries
  <2>2. coverage' = "COMPLETE" => required # {} /\ required \subseteq Successful /\ ~Blocking
    BY <1>3 DEF Missing
  <2>3. (Successful' = Successful) /\ (Blocking' <=> Blocking)
    BY <2>1 DEF Successful, ObjectsOf, QueriesThat, Blocking
  <2> QED BY <1>3, <1>4, <2>1, <2>2, <2>3 DEF CoverageHolds, Gathering
<1>8. Asked'
  <2>1. UNCHANGED <<allowed, called, answer, report, invocation>> BY <1>1 DEF reasoned
  <2>2. ~allowed /\ ~called /\ answer = "none" /\ report = "none" /\ invocation = "none"
    BY <1>1 DEF LoopInv, Asked, Gathering, Unasked
  <2> QED BY <1>4, <2>1, <2>2 DEF Asked
<1> QED BY <1>5, <1>6, <1>7, <1>8 DEF LoopInv

(* Without anything required nothing was discovered, so nothing succeeded. *)
LEMMA SettledCoverage ==
  ASSUME LoopInv, place \in {"assess_evidence", "apply_evidence_gate"},
         terminal \notin Failures, Successful # {}
  PROVE  coverage \in {"COMPLETE", "BLOCKED", "LIMIT_REACHED"}
<1>1. QueriesThat({"kept"}) \subseteq Executed BY DEF QueriesThat, Executed
<1>2. Successful \subseteq known BY <1>1 DEF LoopInv, Discovered, Successful, ObjectsOf
<1>3. required # {} BY <1>2 DEF LoopInv, Discovered
<1> QED BY <1>3 DEF LoopInv, LoopTypeOK, CoverageStatus, CoverageHolds

LEMMA AssessInv ==
  ASSUME LoopInv, AssessEvidence \/ ApplyEvidenceGate
  PROVE  LoopInv'
<1>1. /\ place \in {"assess_evidence", "apply_evidence_gate"} /\ Leave /\ LoopTypeOK
      /\ terminal \notin Failures
      /\ UNCHANGED <<terminal, cancelRequested, resolved, search, queries, coverage, answer, report,
                     invocation>>
  BY DEF AssessEvidence, ApplyEvidenceGate, Handles, LoopInv
<1>2. /\ place' \in {"apply_evidence_gate", "invoke_reasoning", "compose_report"}
      /\ place' = "apply_evidence_gate" => place = "assess_evidence"
      /\ place' = "invoke_reasoning" => called'
  BY <1>1, WayOn
<1>3. /\ allowed' \in BOOLEAN /\ called' \in BOOLEAN
      /\ called' => allowed'
      /\ allowed' => Successful # {} /\ coverage \notin {"BLOCKED", "LIMIT_REACHED"}
  <2>1. CASE AssessEvidence BY <2>1 DEF AssessEvidence
  <2>2. CASE ApplyEvidenceGate
    <3>1. PICK invoke \in BOOLEAN :
            /\ invoke => Successful # {}
            /\ allowed' = (invoke /\ coverage \notin {"PARTIAL", "LIMIT_REACHED", "BLOCKED"})
      BY <2>2 DEF ApplyEvidenceGate
    <3>2. called' = allowed' BY <2>2 DEF ApplyEvidenceGate
    <3> QED BY <3>1, <3>2
  <2> QED BY <2>1, <2>2
<1>4. allowed' \/ called' => coverage = "COMPLETE" BY <1>1, <1>3, SettledCoverage
<1>5. LoopTypeOK' BY <1>1, <1>2, <1>3 DEF LoopTypeOK, search, queries, LoopNode
<1>6. ExecutionsAreCounted' /\ EvidenceIsStored' /\ Discovered' BY <1>1, <1>2, NothingGathered
<1>7. CoverageHolds'
  <2>1. coverage # "PARTIAL" /\ (coverage = "NOT_STARTED" => required = {})
    BY <1>1 DEF LoopInv, CoverageHolds
  <2>2. place' \notin Gathering BY <1>2 DEF Gathering
  <2> QED BY <1>1, <2>1, <2>2, CoverageKept
<1>8. Asked'
  <2>1. answer = "none" /\ report = "none" /\ invocation = "none"
    BY <1>1 DEF LoopInv, Asked, Unasked
  <2> QED BY <1>1, <1>2, <1>4, <2>1 DEF Asked, Gathering
<1> QED BY <1>5, <1>6, <1>7, <1>8 DEF LoopInv

LEMMA InvokeInv ==
  ASSUME LoopInv, InvokeReasoning
  PROVE  LoopInv'
<1>1. /\ place = "invoke_reasoning" /\ Leave /\ LoopTypeOK /\ terminal \notin Failures
      /\ UNCHANGED <<cancelRequested, resolved, search, queries, coverage, allowed, report>>
  BY DEF InvokeReasoning, Handles, LoopInv
<1>2. place' = "validate_reasoning" BY <1>1, WayOn
<1>3. /\ called /\ coverage = "COMPLETE"
      /\ answer = "none" /\ report = "none" /\ invocation = "none"
  BY <1>1 DEF LoopInv, Asked, Unasked
<1>4. /\ terminal' \in Terminals /\ called' \in BOOLEAN
      /\ answer' \in {"none", "unchecked"}
      /\ invocation' \in {"none", "open", "failed", "completed"}
      /\ answer' # "none" => invocation' = "completed"
  BY <1>1, <1>3 DEF InvokeReasoning, NotInvoked, CallFails, CallAnswers, Fails, LoopTypeOK, Terminals
<1>5. LoopTypeOK' BY <1>1, <1>2, <1>4 DEF LoopTypeOK, search, queries, LoopNode
<1>6. ExecutionsAreCounted' /\ EvidenceIsStored' /\ Discovered'
  <2>1. terminal # "FAILED" BY <1>1 DEF Failures, Terminals
  <2> QED BY <1>1, <1>2, <2>1, NothingGathered
<1>7. CoverageHolds'
  <2>1. place' \notin Gathering BY <1>2 DEF Gathering
  <2> QED BY <1>1, <1>2, <2>1, CoverageKept
<1>8. Asked' BY <1>1, <1>2, <1>3, <1>4 DEF Asked, Gathering, Unasked
<1> QED BY <1>5, <1>6, <1>7, <1>8 DEF LoopInv

LEMMA ReportInv ==
  ASSUME LoopInv, ValidateReasoning \/ WriteReport \/ ValidateReport \/ FinalizeLoop
  PROVE  LoopInv'
<1>1. /\ place \in {"validate_reasoning", "compose_report", "validate_report", "finalize"}
      /\ Leave /\ LoopTypeOK /\ terminal \notin Failures
      /\ UNCHANGED <<cancelRequested, resolved, search, queries, coverage, allowed, called, invocation>>
  BY DEF ValidateReasoning, WriteReport, ValidateReport, FinalizeLoop, Handles, LoopInv, reasoned
<1>2. place' \in {"compose_report", "validate_report", "finalize", "end"} BY <1>1, WayOn
<1>3. /\ terminal' \in Terminals
      /\ answer' \in {"none", "unchecked", "accepted", "faulty"}
      /\ report' \in {"none", "deterministic", "reasoned"}
      /\ answer' # "none" => answer # "none"
      /\ report' = "reasoned" => report = "reasoned" \/ answer # "none"
  BY <1>1 DEF ValidateReasoning, WriteReport, ValidateReport, FinalizeLoop, Fails, LoopTypeOK,
              Terminals, reasoned
<1>4. LoopTypeOK' BY <1>1, <1>2, <1>3 DEF LoopTypeOK, search, queries, LoopNode
<1>5. ExecutionsAreCounted' /\ EvidenceIsStored' /\ Discovered'
  <2>1. terminal # "FAILED" BY <1>1 DEF Failures, Terminals
  <2> QED BY <1>1, <1>2, <2>1, NothingGathered
<1>6. CoverageHolds'
  <2>1. place' \notin Gathering BY <1>2 DEF Gathering
  <2> QED BY <1>1, <1>2, <2>1, CoverageKept
<1>7. Asked' BY <1>1, <1>2, <1>3 DEF LoopInv, Asked, Gathering, Unasked
<1> QED BY <1>4, <1>5, <1>6, <1>7 DEF LoopInv

LEMMA RaisesInv ==
  ASSUME LoopInv, Raises
  PROVE  LoopInv'
<1>1. /\ place' = "raised" /\ LoopTypeOK
      /\ UNCHANGED <<terminal, cancelRequested, resolved, search, queries, coverage, allowed, called,
                     answer, report>>
      /\ \/ UNCHANGED invocation
         \/ place = "invoke_reasoning" /\ invocation' \in {"none", "open", "completed"}
  BY DEF Raises, LoopInv
<1>2. LoopTypeOK' BY <1>1 DEF LoopTypeOK, search, queries, LoopNode
<1>3. ExecutionsAreCounted' /\ EvidenceIsStored' /\ Discovered' BY <1>1, NothingGathered
<1>4. CoverageHolds'
  <2>1. place' \notin Gathering BY <1>1 DEF Gathering
  <2> QED BY <1>1, <2>1, CoverageKept
<1>5. Asked' BY <1>1 DEF LoopInv, Asked, Gathering, Unasked
<1> QED BY <1>2, <1>3, <1>4, <1>5 DEF LoopInv

LEMMA LoopNextInv == LoopInv /\ [LoopNext]_loopVars => LoopInv'
<1> SUFFICES ASSUME LoopInv, [LoopNext]_loopVars PROVE LoopInv' OBVIOUS
<1>1. CASE Initialize \/ ReviewResults \/ ResolveEntity BY <1>1, CallerInv
<1>2. CASE DiscoverObjects BY <1>2, DiscoverInv
<1>3. CASE \E objects \in SUBSET known, generated \in SUBSET {q \in Queries : ObjectOf[q] \in known} :
             CreatePlan(objects, generated)
  BY <1>3, CreatePlanInv
<1>4. CASE ValidateSql BY <1>4, ValidateSqlInv
<1>5. CASE \E batch \in SUBSET approved : ExecuteBatch(batch) BY <1>5, ExecuteBatchInv
<1>6. CASE PreserveEvidence BY <1>6, PreserveInv
<1>7. CASE CheckCoverage BY <1>7, CheckCoverageInv
<1>8. CASE AssessEvidence \/ ApplyEvidenceGate BY <1>8, AssessInv
<1>9. CASE InvokeReasoning BY <1>9, InvokeInv
<1>10. CASE ValidateReasoning \/ WriteReport \/ ValidateReport \/ FinalizeLoop
  BY <1>10, ReportInv
<1>11. CASE \E n \in LoopNode : PassOver(n) BY <1>11, PassOverInv
<1>12. CASE Raises BY <1>12, RaisesInv
<1>13. CASE UNCHANGED loopVars
  <2>1. /\ UNCHANGED <<place, terminal, cancelRequested, resolved, coverage>>
        /\ UNCHANGED <<known, required, gapped, round, plans, stalled>>
        /\ UNCHANGED <<proposed, approved, rejected, results, count, persisted>>
        /\ UNCHANGED <<allowed, called, answer, report, invocation>>
    BY <1>13 DEF loopVars, search, queries, reasoned
  <2>2. LoopTypeOK' /\ ExecutionsAreCounted' /\ EvidenceIsStored'
    BY <2>1 DEF LoopInv, LoopTypeOK, ExecutionsAreCounted, EvidenceIsStored,
                Executed, QueriesThat
  <2>3. Discovered' /\ CoverageHolds' /\ Asked'
    BY <2>1 DEF LoopInv, Discovered, CoverageHolds, Asked, ObjectsOf, Executed, QueriesThat,
                Successful, Blocking
  <2> QED BY <2>2, <2>3 DEF LoopInv
<1> QED
  BY <1>1, <1>2, <1>3, <1>4, <1>5, <1>6, <1>7, <1>8, <1>9, <1>10, <1>11, <1>12, <1>13
  DEF LoopNext, LoopWalk, LoopHalted

LEMMA LoopInvHolds == LoopSpec => []LoopInv
<1> QED BY LoopInitInv, LoopNextInv, PTL DEF LoopSpec

(* However a walk of the evidence loop goes, and wherever its store or the *)
(* provider fails: every execution is recorded and within the budget, what *)
(* counts as evidence is stored, and the provider is asked on complete     *)
(* evidence.                                                               *)
THEOREM EvidenceAlwaysSound == LoopSpec => []EvidenceIsSound
<1>1. LoopInv => EvidenceIsSound
  <2> SUFFICES ASSUME LoopInv PROVE ReasoningIsGrounded BY DEF LoopInv, EvidenceIsSound
  <2>1. Successful \subseteq ObjectsOf(persisted)
    BY DEF LoopInv, EvidenceIsStored, Successful, ObjectsOf
  <2> QED BY <2>1 DEF LoopInv, CoverageHolds, Asked, ReasoningIsGrounded, Blocking
<1> QED BY <1>1, LoopInvHolds, PTL

(* SQL that was executed in one round is not executed in a later one,      *)
(* although plans may list the same text several times, for several        *)
(* objects and in several rounds.                                          *)
THEOREM NoQueryEverRunsAgain == LoopSpec => NoQueryRunsAgain
<1>1. LoopInv /\ [LoopNext]_loopVars =>
        [\A q \in Queries :
           results[q] = "none" /\ results'[q] # "none" =>
             TextOf[q] \notin Texts(Executed)]_loopVars
  <2> SUFFICES ASSUME LoopInv, LoopNext, NEW q \in Queries,
                      results[q] = "none", results'[q] # "none"
               PROVE  TextOf[q] \notin Texts(Executed)
    OBVIOUS
  <2>1. results \in [Queries -> {"none", "ok", "failed", "denied", "kept"}]
    BY DEF LoopInv, LoopTypeOK
  <2>2. results' # results OBVIOUS
  <2>3. CASE PreserveEvidence
    BY <2>1, <2>3 DEF PreserveEvidence
  <2>4. CASE \E batch \in SUBSET approved : ExecuteBatch(batch)
    <3>1. PICK batch \in SUBSET approved : ExecuteBatch(batch) BY <2>4
    <3>2. q \in batch BY <2>1, <3>1 DEF ExecuteBatch
    <3> QED BY <3>1, <3>2 DEF ExecuteBatch, Fresh
  <2>5. PreserveEvidence \/ \E batch \in SUBSET approved : ExecuteBatch(batch)
    BY <2>2 DEF LoopNext, LoopWalk, LoopHalted, loopVars, queries, Initialize, ResolveEntity,
                DiscoverObjects, CreatePlan, ValidateSql, ReviewResults, CheckCoverage,
                AssessEvidence, ApplyEvidenceGate, InvokeReasoning, ValidateReasoning,
                WriteReport, ValidateReport, FinalizeLoop, PassOver, Raises
  <2> QED BY <2>3, <2>4, <2>5
<1> QED BY <1>1, LoopInvHolds, PTL DEF LoopSpec, NoQueryRunsAgain

-----------------------------------------------------------------------------
(* Both walks get shorter.  In the production walk a node is a step, but   *)
(* for those behind the verdict, a selection without candidates and an     *)
(* expansion without budget.                                               *)
EndRank ==
  [check_coverage |-> 6, assess_evidence |-> 5, apply_evidence_gate |-> 4,
   compose_report |-> 3, validate_report |-> 2, finalize |-> 1, done |-> 0, raised |-> 0]

SearchLeft ==
  IF node \in Ending \cup {"raised"} THEN EndRank[node]
  ELSE 7 + 2 * (MaxGraphSteps + 9 - graphSteps)
         + IF node \in {"select_candidate", "expand_discovery"} THEN 1 ELSE 0

(* The limit is asked once in a round, which is at most nine steps long.   *)
StepsBounded ==
  /\ node = "reject_candidate" => graphSteps < MaxGraphSteps
  /\ node \in {"initialize", "expand_discovery"} => graphSteps <= MaxGraphSteps
  /\ node = "resolve_entity" => graphSteps <= MaxGraphSteps + 1
  /\ node = "discover_objects" => graphSteps <= MaxGraphSteps + 2
  /\ node = "select_candidate" => graphSteps <= MaxGraphSteps + 3
  /\ node = "create_plan" => graphSteps <= MaxGraphSteps + 4
  /\ node = "validate_sql" => graphSteps <= MaxGraphSteps + 5
  /\ node = "execute_sql" => graphSteps <= MaxGraphSteps + 6
  /\ node = "preserve_evidence" => graphSteps <= MaxGraphSteps + 7
  /\ node = "classify_results" => graphSteps <= MaxGraphSteps + 8
  /\ node = "evaluate_candidate" => graphSteps <= MaxGraphSteps + 9

(* In the evidence loop a round is, and a walk that has failed or was      *)
(* cancelled is passed over to its end.                                    *)
NodeRank ==
  [initialize |-> 20, resolve_entity |-> 19, discover_objects |-> 18, create_plan |-> 17,
   validate_sql |-> 16, execute_sql |-> 15, preserve_evidence |-> 14, classify_results |-> 13,
   check_coverage |-> 12, assess_evidence |-> 7, apply_evidence_gate |-> 6,
   invoke_reasoning |-> 5, validate_reasoning |-> 4, compose_report |-> 3,
   validate_report |-> 2, finalize |-> 1, end |-> 0, raised |-> 0]

Spent == terminal \in Failures \/ cancelRequested

WalkLeft ==
  IF Spent THEN NodeRank[place]
  ELSE 21 + 21 * (MaxRounds - round)
          + IF place = "create_plan" /\ round < MaxRounds THEN 8 ELSE NodeRank[place]

(* What else ends a walk leaves the coverage as it was at the start.       *)
EarlyEnd ==
  /\ place \in {"initialize", "resolve_entity"} => coverage = "NOT_STARTED"
  /\ terminal = "CANCELLED" => cancelRequested
  /\ terminal \in {"AMBIGUOUS_ENTITY", "ENTITY_NOT_FOUND"} => coverage = "NOT_STARTED"

-----------------------------------------------------------------------------
LEMMA EndRanks ==
  /\ EndRank["check_coverage"] = 6 /\ EndRank["assess_evidence"] = 5
  /\ EndRank["apply_evidence_gate"] = 4 /\ EndRank["compose_report"] = 3
  /\ EndRank["validate_report"] = 2 /\ EndRank["finalize"] = 1
  /\ EndRank["done"] = 0 /\ EndRank["raised"] = 0
BY DEF EndRank

LEMMA SearchStarts == WalkInit => StepsBounded
BY Limits DEF WalkInit, StepsBounded

(* A node that counts a step, and the two that need not.                   *)
LEMMA SearchShortens ==
  ASSUME IInv, StepsBounded, WalkNext
  PROVE  StepsBounded' /\ (SearchLeft' < SearchLeft \/ UNCHANGED walkVars)
<1>1. MaxGraphSteps \in Nat /\ graphSteps \in Nat /\ WalkTypeOK BY Limits DEF IInv, WalkTypeOK
<1>2. CASE Stage
  <2>1. graphSteps' = graphSteps + 1 /\ node \in Stages /\ node' = Edge[node]
    BY <1>2 DEF Stage, Counted
  <2>2. \/ node = "initialize" /\ node' = "resolve_entity"
        \/ node = "resolve_entity" /\ node' = "discover_objects"
        \/ node = "discover_objects" /\ node' = "select_candidate"
        \/ node = "create_plan" /\ node' = "validate_sql"
        \/ node = "validate_sql" /\ node' = "execute_sql"
        \/ node = "preserve_evidence" /\ node' = "classify_results"
    BY <2>1, EdgeValues DEF Stages
  <2>3. StepsBounded' BY <1>1, <2>1, <2>2 DEF StepsBounded
  <2>4. SearchLeft' < SearchLeft
    BY <1>1, <2>1, <2>2 DEF SearchLeft, StepsBounded, Ending, Conclusions
  <2> QED BY <2>3, <2>4
<1>3. CASE SelectCandidate
  <2>1. node = "select_candidate" /\ node' = "create_plan"
        /\ (graphSteps' = graphSteps \/ graphSteps' = graphSteps + 1)
    BY <1>3 DEF SelectCandidate, Counted
  <2> QED BY <1>1, <2>1 DEF SearchLeft, StepsBounded, Ending, Conclusions
<1>4. ASSUME NEW result, ExecuteSql(result)
      PROVE  StepsBounded' /\ SearchLeft' < SearchLeft
  <2>1. node = "execute_sql" /\ node' = "preserve_evidence" /\ graphSteps' = graphSteps + 1
    BY <1>4 DEF ExecuteSql, Counted
  <2> QED BY <1>1, <2>1 DEF SearchLeft, StepsBounded, Ending, Conclusions
<1>5. CASE PipelineRaises
  <2>1. node = "execute_sql" /\ node' = "raised" BY <1>5 DEF PipelineRaises
  <2> QED BY <1>1, <2>1, EndRanks DEF SearchLeft, StepsBounded, Ending, Conclusions
<1>6. CASE ClassifyResults
  <2>1. node = "classify_results" /\ node' = "evaluate_candidate" /\ graphSteps' = graphSteps + 1
    BY <1>6 DEF ClassifyResults, Counted
  <2> QED BY <1>1, <2>1 DEF SearchLeft, StepsBounded, Ending, Conclusions
<1>7. CASE EvaluateCandidate
  <2>1. node = "evaluate_candidate" BY <1>7 DEF EvaluateCandidate
  <2>2. CASE active = Nothing
    <3>1. node' \in {"assess_evidence", "check_coverage"}
      BY <1>1, <1>7, <2>2, Routes DEF EvaluateCandidate, Absent
    <3> QED BY <1>1, <2>1, <3>1, EndRanks DEF SearchLeft, StepsBounded, Ending, Conclusions
  <2>3. CASE active # Nothing
    <3>1. graphSteps' = graphSteps + 1 /\ node' = CandidateRoute(Judged(active), graphSteps')
      BY <1>7, <2>3 DEF EvaluateCandidate, Counted
    <3>2. /\ node' \in {"assess_evidence", "check_coverage", "reject_candidate",
                        "expand_discovery"}
          /\ node' \in {"reject_candidate", "expand_discovery"} => graphSteps' < MaxGraphSteps
      BY <1>1, <3>1, Routes, Judgements
    <3> QED BY <1>1, <2>1, <3>1, <3>2, EndRanks
            DEF SearchLeft, StepsBounded, Ending, Conclusions
  <2> QED BY <2>2, <2>3
<1>8. CASE RejectCandidate
  <2>1. node = "reject_candidate" /\ graphSteps' = graphSteps + 1
    BY <1>8 DEF RejectCandidate, Counted
  <2>2. node' \in {"assess_evidence", "select_candidate", "expand_discovery"}
    BY <1>8 DEF RejectCandidate, RejectionRoute
  <2>3. graphSteps < MaxGraphSteps BY <2>1 DEF StepsBounded
  <2> QED BY <1>1, <2>1, <2>2, <2>3, EndRanks DEF SearchLeft, StepsBounded, Ending, Conclusions
<1>9. CASE ExpandDiscovery
  <2>1. node = "expand_discovery" /\ node' = "discover_objects"
        /\ (graphSteps' = graphSteps \/ graphSteps' = graphSteps + 1)
    BY <1>9 DEF ExpandDiscovery, Counted
  <2> QED BY <1>1, <2>1 DEF SearchLeft, StepsBounded, Ending, Conclusions
<1>10. CASE WalkConcludes
  <2>1. node \in Conclusions /\ node' = Edge[node] BY <1>10 DEF WalkConcludes
  <2>2. /\ node \in Ending /\ node' \in Ending /\ EndRank[node'] < EndRank[node]
    BY <2>1, EdgeValues, EndRanks DEF Ending, Conclusions
  <2>3. StepsBounded' BY <2>2 DEF StepsBounded, Ending, Conclusions
  <2> QED BY <2>2, <2>3 DEF SearchLeft
<1>11. CASE Over BY <1>11 DEF Over, walkVars, counters, StepsBounded
<1> QED
  BY <1>2, <1>3, <1>4, <1>5, <1>6, <1>7, <1>8, <1>9, <1>10, <1>11 DEF WalkNext, Walk

(* The production walk cannot go on for ever: each of its nodes uses up    *)
(* some of a bound that max_graph_steps fixes.  (What is left to assume is *)
(* that the next node is run.)                                             *)
THEOREM SearchUsesUpItsBound ==
  WalkSpec => [](SearchLeft \in Nat) /\ [][SearchLeft' < SearchLeft]_walkVars
<1>1. ASSUME IInv, StepsBounded PROVE SearchLeft \in Nat
  <2>1. MaxGraphSteps \in Nat /\ graphSteps \in Nat /\ node \in Node
    BY <1>1, Limits DEF IInv, WalkTypeOK
  <2>2. CASE node \in Ending \cup {"raised"}
    BY <2>2, EndRanks DEF SearchLeft, Ending, Conclusions
  <2>3. CASE node \notin Ending \cup {"raised"}
    <3>1. graphSteps <= MaxGraphSteps + 9
      BY <1>1, <2>1, <2>3, Nodes DEF StepsBounded, Searching, Reading
    <3> QED BY <2>1, <2>3, <3>1 DEF SearchLeft
  <2> QED BY <2>2, <2>3
<1>2. IInv /\ StepsBounded /\ [WalkNext]_walkVars => StepsBounded' /\ [SearchLeft' < SearchLeft]_walkVars
  <2>1. UNCHANGED walkVars /\ StepsBounded => StepsBounded' BY DEF walkVars, counters, StepsBounded
  <2> QED BY <2>1, SearchShortens
<1> QED BY <1>1, <1>2, SearchStarts, InvHolds, PTL DEF WalkSpec

-----------------------------------------------------------------------------
LEMMA NodeRanks ==
  /\ NodeRank["initialize"] = 20 /\ NodeRank["resolve_entity"] = 19
  /\ NodeRank["discover_objects"] = 18 /\ NodeRank["create_plan"] = 17
  /\ NodeRank["validate_sql"] = 16 /\ NodeRank["execute_sql"] = 15
  /\ NodeRank["preserve_evidence"] = 14 /\ NodeRank["classify_results"] = 13
  /\ NodeRank["check_coverage"] = 12 /\ NodeRank["assess_evidence"] = 7
  /\ NodeRank["apply_evidence_gate"] = 6 /\ NodeRank["invoke_reasoning"] = 5
  /\ NodeRank["validate_reasoning"] = 4 /\ NodeRank["compose_report"] = 3
  /\ NodeRank["validate_report"] = 2 /\ NodeRank["finalize"] = 1
  /\ NodeRank["end"] = 0 /\ NodeRank["raised"] = 0
  /\ \A p \in LoopNode \cup {"end", "raised"} : NodeRank[p] \in 0..20
BY DEF NodeRank, LoopNode

(* Only the route behind check_coverage leads back.                        *)
Back == place = "check_coverage" /\ place' = "create_plan"

LEMMA OnwardOrBack ==
  ASSUME LoopTypeOK, place \in LoopNode, Leave \/ place' = "raised"
  PROVE  Back \/ NodeRank[place'] < NodeRank[place]
<1>1. CASE place' = "raised"
  <2>1. NodeRank[place] > 0 BY NodeRanks DEF LoopNode
  <2> QED BY <1>1, <2>1, NodeRanks
<1>2. CASE Leave BY <1>2, WayOn, NodeRanks DEF Back, LoopNode
<1> QED BY <1>1, <1>2

(* A node that is passed over leads back only where LoopOver says so.      *)
LEMMA PassedOver ==
  ASSUME LoopInv, EarlyEnd, ~LoopOver, NEW n \in LoopNode, PassOver(n)
  PROVE  Spent /\ Spent' /\ EarlyEnd' /\ place \in LoopNode /\ NodeRank[place'] < NodeRank[place]
<1>1. /\ place \in LoopNode /\ Leave /\ LoopTypeOK /\ UNCHANGED <<cancelRequested, coverage>>
      /\ Spent /\ terminal' \in Failures
      /\ (terminal' = terminal \/ (cancelRequested /\ terminal' = "CANCELLED"))
  BY DEF PassOver, LoopInv, Failures, Terminals, Spent
<1>2. ~Back
  <2> SUFFICES ASSUME Back PROVE FALSE OBVIOUS
  <2>1. coverage = "PARTIAL" /\ ~cancelRequested BY <1>1, WayOn DEF Back
  <2>2. terminal \in Failures /\ terminal # "FAILED" BY <1>1, <2>1 DEF Spent, LoopOver
  <2> QED BY <2>1, <2>2 DEF EarlyEnd, Failures, Terminals
<1>3. place' \in {"initialize", "resolve_entity"} => place \in {"initialize", "resolve_entity"}
  BY <1>1, WayOn DEF LoopNode
<1>4. EarlyEnd' BY <1>1, <1>3 DEF EarlyEnd
<1> QED BY <1>1, <1>2, <1>4, OnwardOrBack DEF Spent

(* What the other nodes do to the measure: a new round is one that was     *)
(* left, and the route leads back only while one is.                       *)
Rounds ==
  /\ place \in LoopNode /\ ~(terminal \in Failures) /\ (Leave \/ place' = "raised")
  /\ cancelRequested => Spent'
  /\ \/ round' = round
     \/ place = "create_plan" /\ round < MaxRounds /\ round' = round + 1
  /\ place = "create_plan" /\ round < MaxRounds => round' = round + 1 \/ place' = "raised"
  /\ Back => round < MaxRounds

LEMMA WalkRounds ==
  ASSUME LoopInv, EarlyEnd, LoopWalk, ~(\E n \in LoopNode : PassOver(n))
  PROVE  Rounds /\ EarlyEnd'
<1> USE DEF Handles
<1>0. LoopTypeOK /\ MaxRounds \in Nat /\ round \in 0..MaxRounds
  BY LoopLimits DEF LoopInv, LoopTypeOK
<1>1. CASE Initialize \/ ReviewResults \/ FinalizeLoop
  <2>1. /\ place \in {"initialize", "classify_results", "finalize"} /\ terminal \notin Failures
        /\ Leave /\ UNCHANGED <<round, coverage>>
        /\ terminal' \notin Failures
        /\ cancelRequested => cancelRequested'
    BY <1>1 DEF Initialize, ReviewResults, FinalizeLoop, search, Failures, Terminals
  <2>2. place' \notin {"initialize", "create_plan"} /\ (place' = "resolve_entity" => place = "initialize")
    BY <1>0, <2>1, WayOn
  <2>3. Rounds BY <2>1 DEF Rounds, LoopNode, Back, Spent
  <2>4. EarlyEnd' BY <2>1, <2>2 DEF EarlyEnd, Failures, Terminals
  <2> QED BY <2>3, <2>4
<1>2. CASE ResolveEntity
  <2>1. /\ place = "resolve_entity" /\ terminal \notin Failures /\ Leave /\ ~cancelRequested
        /\ UNCHANGED <<round, coverage, cancelRequested>>
        /\ terminal' = terminal \/ terminal' \in {"AMBIGUOUS_ENTITY", "ENTITY_NOT_FOUND", "FAILED"}
    BY <1>2 DEF ResolveEntity, search
  <2>2. place' = "discover_objects" BY <1>0, <2>1, WayOn
  <2>3. Rounds BY <2>1 DEF Rounds, LoopNode, Back
  <2>4. EarlyEnd' BY <2>1, <2>2 DEF EarlyEnd, Failures, Terminals
  <2> QED BY <2>3, <2>4
<1>3. CASE \E objects \in SUBSET known, generated \in SUBSET {q \in Queries : ObjectOf[q] \in known} :
             CreatePlan(objects, generated)
  <2>1. /\ place = "create_plan" /\ terminal \notin Failures /\ Leave /\ ~cancelRequested
        /\ UNCHANGED <<terminal, coverage, cancelRequested>>
        /\ IF round >= MaxRounds THEN round' = round ELSE round' = round + 1
    BY <1>3 DEF CreatePlan
  <2>2. place' = "validate_sql" BY <1>0, <2>1, WayOn
  <2>3. Rounds BY <1>0, <2>1, <2>2 DEF Rounds, LoopNode, Back
  <2>4. EarlyEnd' BY <2>1, <2>2 DEF EarlyEnd
  <2> QED BY <2>3, <2>4
<1>4. CASE CheckCoverage
  <2>1. /\ place = "check_coverage" /\ terminal \notin Failures /\ Leave /\ ~cancelRequested
        /\ UNCHANGED <<terminal, round, cancelRequested>>
    BY <1>4 DEF CheckCoverage, search
  <2>2. PICK late \in BOOLEAN : coverage' = Covered(late) BY <1>4 DEF CheckCoverage
  <2>3. coverage' = "PARTIAL" => ~Limit(late) BY <2>2 DEF Covered
  <2>4. Back => round < MaxRounds
    <3> SUFFICES ASSUME Back PROVE round < MaxRounds OBVIOUS
    <3>1. coverage' = "PARTIAL" BY <1>0, <2>1, WayOn DEF Back
    <3> QED BY <1>0, <2>3, <3>1 DEF Limit
  <2>5. place' \in {"finalize", "create_plan", "assess_evidence"} BY <1>0, <2>1, WayOn
  <2>6. Rounds BY <2>1, <2>4 DEF Rounds, LoopNode
  <2>7. EarlyEnd' BY <2>1, <2>5 DEF EarlyEnd, Failures, Terminals
  <2> QED BY <2>6, <2>7
<1>5. CASE \/ DiscoverObjects \/ ValidateSql \/ \E batch \in SUBSET approved : ExecuteBatch(batch)
           \/ PreserveEvidence \/ AssessEvidence \/ ApplyEvidenceGate
           \/ InvokeReasoning \/ ValidateReasoning \/ WriteReport \/ ValidateReport
  <2>1. /\ place \in {"discover_objects", "validate_sql", "execute_sql", "preserve_evidence",
                      "assess_evidence", "apply_evidence_gate", "invoke_reasoning",
                      "validate_reasoning", "compose_report", "validate_report"}
        /\ terminal \notin Failures /\ Leave /\ ~cancelRequested
        /\ UNCHANGED <<round, coverage, cancelRequested>>
        /\ terminal' = terminal \/ terminal' = "FAILED"
    BY <1>5 DEF DiscoverObjects, ValidateSql, ExecuteBatch, PreserveEvidence, AssessEvidence,
                ApplyEvidenceGate, InvokeReasoning, ValidateReasoning, WriteReport,
                ValidateReport, Fails, search, NotInvoked, CallFails, CallAnswers
  <2>2. place' \notin {"initialize", "resolve_entity"} BY <1>0, <2>1, WayOn
  <2>3. Rounds BY <2>1 DEF Rounds, LoopNode, Back
  <2>4. EarlyEnd' BY <2>1, <2>2 DEF EarlyEnd, Failures, Terminals
  <2> QED BY <2>3, <2>4
<1>6. CASE Raises
  <2>1. /\ place \in LoopNode /\ terminal \notin Failures /\ ~cancelRequested /\ place' = "raised"
        /\ UNCHANGED <<terminal, round, coverage, cancelRequested>>
    BY <1>6 DEF Raises, search, LoopNode
  <2>2. Rounds BY <2>1 DEF Rounds, Back
  <2>3. EarlyEnd' BY <2>1 DEF EarlyEnd
  <2> QED BY <2>2, <2>3
<1> QED BY <1>1, <1>2, <1>3, <1>4, <1>5, <1>6 DEF LoopWalk

LEMMA WalkShortens ==
  ASSUME LoopInv, LoopInv', EarlyEnd, ~LoopOver, LoopWalk
  PROVE  WalkLeft' < WalkLeft
<1>1. /\ MaxRounds \in Nat /\ round \in 0..MaxRounds /\ round' \in 0..MaxRounds
      /\ place \in LoopNode \cup {"end", "raised"} /\ place' \in LoopNode \cup {"end", "raised"}
  BY LoopLimits DEF LoopInv, LoopTypeOK
<1>2. NodeRank[place] \in 0..20 /\ NodeRank[place'] \in 0..20 BY <1>1, NodeRanks
<1>3. CASE \E n \in LoopNode : PassOver(n)
  BY <1>3, PassedOver DEF WalkLeft
<1>4. CASE ~(\E n \in LoopNode : PassOver(n))
  <2>1. Rounds BY <1>4, WalkRounds
  <2>2. LoopTypeOK BY DEF LoopInv
  <2>3. Back \/ NodeRank[place'] < NodeRank[place] BY <2>1, <2>2, OnwardOrBack DEF Rounds
  <2>4. CASE Spent
    <3>1. cancelRequested /\ Spent' BY <2>1, <2>4 DEF Rounds, Spent
    <3>2. ~Back BY <2>1, <2>2, <3>1, WayOn DEF Back, Rounds
    <3> QED BY <2>3, <2>4, <3>1, <3>2 DEF WalkLeft
  <2>5. CASE ~Spent /\ Spent'
    BY <1>1, <1>2, <2>5 DEF WalkLeft
  <2>6. CASE ~Spent /\ ~Spent'
    <3>1. CASE Back
      <4>1. round' = round /\ round < MaxRounds BY <2>1, <3>1 DEF Rounds, Back
      <4>2. NodeRank[place] = 12 /\ place # "create_plan" BY <3>1, NodeRanks DEF Back
      <4>3. WalkLeft = 21 + 21 * (MaxRounds - round) + 12 BY <2>6, <4>2 DEF WalkLeft
      <4>4. WalkLeft' = 21 + 21 * (MaxRounds - round) + 8
        BY <2>6, <3>1, <4>1 DEF WalkLeft, Back
      <4> QED BY <1>1, <4>3, <4>4
    <3>2. CASE ~Back /\ place = "create_plan" /\ round < MaxRounds
      <4>1. WalkLeft = 21 + 21 * (MaxRounds - round) + 8 BY <2>6, <3>2 DEF WalkLeft
      <4>2. place' # "create_plan" BY <2>3, <3>2, NodeRanks
      <4>3. WalkLeft' = 21 + 21 * (MaxRounds - round') + NodeRank[place']
        BY <2>6, <4>2 DEF WalkLeft
      <4>4. CASE round' = round + 1
        <5>1. NodeRank[place'] < 17 BY <2>3, <3>2, NodeRanks
        <5> QED BY <1>1, <1>2, <4>1, <4>3, <4>4, <5>1
      <4>5. CASE place' = "raised" /\ round' = round
        BY <1>1, <4>1, <4>3, <4>5, NodeRanks
      <4> QED BY <2>1, <3>2, <4>4, <4>5 DEF Rounds
    <3>3. CASE ~Back /\ ~(place = "create_plan" /\ round < MaxRounds)
      <4>1. round' = round /\ NodeRank[place'] < NodeRank[place] BY <2>1, <2>3, <3>3 DEF Rounds
      <4>2. WalkLeft = 21 + 21 * (MaxRounds - round) + NodeRank[place]
        BY <2>6, <3>3 DEF WalkLeft
      <4>3. WalkLeft' <= 21 + 21 * (MaxRounds - round) + NodeRank[place']
        BY <1>1, <1>2, <2>6, <4>1, NodeRanks DEF WalkLeft
      <4>4. WalkLeft' \in Int BY <1>1, <1>2, <2>6 DEF WalkLeft
      <4> QED BY <1>1, <1>2, <4>1, <4>2, <4>3, <4>4
    <3> QED BY <3>1, <3>2, <3>3
  <2> QED BY <2>4, <2>5, <2>6
<1> QED BY <1>3, <1>4

(* A walk of the evidence loop cannot go on for ever, but for the case     *)
(* that LoopOver names: each of its nodes uses up some of a bound that     *)
(* the limit of planning rounds fixes, and a failure or a cancellation     *)
(* only brings the end nearer.                                             *)
THEOREM WalkUsesUpItsBound ==
  LoopSpec => [](WalkLeft \in Nat) /\ [][LoopOver \/ WalkLeft' < WalkLeft]_loopVars
<1>1. ASSUME LoopInv PROVE WalkLeft \in Nat
  <2>1. /\ MaxRounds \in Nat /\ round \in 0..MaxRounds /\ NodeRank[place] \in 0..20
    BY <1>1, LoopLimits, NodeRanks DEF LoopInv, LoopTypeOK
  <2> QED BY <2>1 DEF WalkLeft
<1>2. LoopInit => EarlyEnd BY DEF LoopInit, EarlyEnd
<1>3. ASSUME LoopInv, EarlyEnd, [LoopNext]_loopVars PROVE EarlyEnd'
  <2>1. CASE \E n \in LoopNode : PassOver(n)
    <3>1. PICK n \in LoopNode : PassOver(n) BY <2>1
    <3>2. /\ place \in LoopNode /\ Leave /\ UNCHANGED <<cancelRequested, coverage>> /\ LoopTypeOK
          /\ (terminal' = terminal \/ (cancelRequested /\ terminal' = "CANCELLED"))
      BY <1>3, <3>1 DEF PassOver, LoopInv
    <3>3. place' \in {"initialize", "resolve_entity"} => place \in {"initialize", "resolve_entity"}
      BY <3>2, WayOn DEF LoopNode
    <3> QED BY <1>3, <3>2, <3>3 DEF EarlyEnd
  <2>2. CASE LoopWalk /\ ~(\E n \in LoopNode : PassOver(n)) BY <1>3, <2>2, WalkRounds
  <2>3. CASE UNCHANGED loopVars BY <1>3, <2>3 DEF loopVars, EarlyEnd
  <2> QED BY <1>3, <2>1, <2>2, <2>3 DEF LoopNext, LoopHalted
<1>4. LoopInv /\ LoopInv' /\ EarlyEnd /\ [LoopNext]_loopVars =>
        [LoopOver \/ WalkLeft' < WalkLeft]_loopVars
  BY WalkShortens DEF LoopNext, LoopHalted
<1> QED BY <1>1, <1>2, <1>3, <1>4, LoopInvHolds, PTL DEF LoopSpec
==============================================================================
