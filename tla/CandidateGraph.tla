---------------------------- MODULE CandidateGraph ----------------------------
(***************************************************************************)
(* One walk of the reasoning and reporting graph in its production         *)
(* composition: the nodes and edges of workflow/langgraph/graph.py, the    *)
(* candidate adapters of workflow/langgraph/adapters/candidates.py, and    *)
(* the handlers of workflow/langgraph/production_facade.py, whose          *)
(* execute_sql node runs the whole investigation pipeline and whose        *)
(* classify_results node reads the verdict out of the pipeline's payload.  *)
(*                                                                         *)
(* The pipeline is a black box that may name any object as its primary     *)
(* one, with any verdict.  In this composition nothing sets                *)
(* cancel_requested and no handler raises OperationalNodeError, so the     *)
(* wrapper's terminal statuses do not occur before finalize.  The list of  *)
(* candidates is assumed shorter than the limit at which                   *)
(* candidates_from_discovery cuts it (28 by default).                      *)
(***************************************************************************)
EXTENDS Naturals, FiniteSets

CONSTANTS
  Candidates,      \* qualified names of database objects
  Tables,          \* those that are tables, not views or procedures
  Leaf,            \* their names without the schema
  MaxCandidateTables, MaxBacktracks, MaxExpansions, MaxGraphSteps,
  MaxRuns,         \* model bound: where the count of pipeline runs saturates
  Nothing          \* no object

ASSUME GraphAssumption ==
  /\ IsFiniteSet(Candidates) /\ Tables \subseteq Candidates
  /\ Nothing \notin Candidates
  /\ DOMAIN Leaf = Candidates
  /\ {MaxCandidateTables, MaxBacktracks, MaxExpansions, MaxGraphSteps, MaxRuns}
       \subseteq Nat

VARIABLES
  node,        \* the node that runs next
  status,      \* ranked_candidates: their CandidateStatus
  attempts,    \* and attempt_count
  active,      \* active_candidate_id
  findings,    \* pairs <<object, finding_type>>
  backtracks, expansions, graphSteps,
  response,     \* the last result of the pipeline, which response() returns
  runs         \* how often the pipeline has run

counters   == <<backtracks, expansions, graphSteps>>
candidates == <<status, attempts, active, findings>>
walkVars == <<node, candidates, counters, response, runs>>

CandidateStatus ==
  {"UNVERIFIED", "SUPPORTED", "CONTRADICTED", "INSUFFICIENT", "REJECTED"}
Absent == "ABSENT"       \* not (yet) in ranked_candidates

EvidenceOutcome == {"VALUE_PRESENT", "NO_MATCHING_ROW", "METADATA_INCOMPLETE"}

With(S) == {c \in Candidates : status[c] \in S}

(* The outcome of the evidence gate, as classify_results words it.         *)
Payload == [primary : Candidates \cup {Nothing}, ranked : SUBSET Candidates,
            outcome : EvidenceOutcome]
NoResult == [primary |-> Nothing, ranked |-> {}, outcome |-> "METADATA_INCOMPLETE"]

WalkInit ==
  /\ node = "initialize"
  /\ status = [c \in Candidates |-> Absent]
  /\ attempts = [c \in Candidates |-> 0]
  /\ active = Nothing
  /\ findings = {}
  /\ backtracks = 0 /\ expansions = 0 /\ graphSteps = 0
  /\ response = NoResult
  /\ runs = 0

-----------------------------------------------------------------------------
(* The unconditional edges.                                                *)
Edge ==
  [initialize        |-> "resolve_entity",
   resolve_entity    |-> "discover_objects",
   discover_objects  |-> "select_candidate",
   create_plan       |-> "validate_sql",
   validate_sql      |-> "execute_sql",
   preserve_evidence |-> "classify_results",
   check_coverage    |-> "assess_evidence",
   assess_evidence   |-> "apply_evidence_gate",
   apply_evidence_gate |-> "compose_report",
   compose_report    |-> "validate_report",
   validate_report   |-> "finalize",
   finalize          |-> "done"]

Stages == {"initialize", "resolve_entity", "discover_objects", "create_plan",
           "validate_sql", "preserve_evidence"}

(* The coverage handler always reports COMPLETE and the assessment handler *)
(* that no provider call is required, so both conditional edges behind     *)
(* them have one outcome.                                                  *)
Conclusions == {"check_coverage", "assess_evidence", "apply_evidence_gate",
                "compose_report", "validate_report", "finalize"}

Counted(n) == graphSteps' = graphSteps + n

(* stage() counts a step and traces it.                                    *)
Stage ==
  /\ node \in Stages
  /\ Counted(1)
  /\ node' = Edge[node]
  /\ UNCHANGED <<candidates, backtracks, expansions, response, runs>>

WalkConcludes ==
  /\ node \in Conclusions
  /\ node' = Edge[node]
  /\ UNCHANGED <<candidates, counters, response, runs>>

(* The adapter ranks what is selectable by relevance, which is left open.  *)
Selectable == {c \in With({"UNVERIFIED", "INSUFFICIENT"}) : attempts[c] = 0}

SelectCandidate ==
  /\ node = "select_candidate"
  /\ node' = "create_plan"
  /\ \/ /\ Selectable = {}
        /\ active' = Nothing
        /\ UNCHANGED <<attempts, graphSteps>>
     \/ \E c \in Selectable :
          /\ active' = c
          /\ attempts' = [attempts EXCEPT ![c] = @ + 1]
          /\ Counted(1)
  /\ UNCHANGED <<status, findings, backtracks, expansions, response, runs>>

(* The pipeline is told which candidates were rejected and ranks no such   *)
(* table; it may rank a view or procedure again, and still name any of     *)
(* them as the primary object.  Each run replaces the payload before.      *)
ExecuteSql(result) ==
  /\ node = "execute_sql"
  /\ result.ranked \cap With({"REJECTED"}) \cap Tables = {}
  /\ response' = result
  /\ runs' = IF runs < MaxRuns THEN runs + 1 ELSE runs
  /\ Counted(1)
  /\ node' = "preserve_evidence"
  /\ UNCHANGED <<candidates, backtracks, expansions>>

(* The pipeline raises: the wrapper re-raises out of the graph.            *)
PipelineRaises ==
  /\ node = "execute_sql"
  /\ node' = "raised"
  /\ UNCHANGED <<candidates, counters, response, runs>>

Listed == With(CandidateStatus) \cup response.ranked

(* Fault: the finding is filed under the candidate selected before the     *)
(* run instead of the primary object of the payload.                       *)
PrimarySelected == active

(* The payload's primary object, if it is a candidate at all.              *)
Primary == IF response.primary \in Listed THEN response.primary ELSE Nothing

ClassifyResults ==
  /\ node = "classify_results"
  /\ status' = [c \in Candidates |->
       IF status[c] = Absent /\ c \in response.ranked THEN "UNVERIFIED" ELSE status[c]]
  /\ attempts' = [c \in Candidates |->
       IF status[c] = Absent /\ c \in response.ranked /\ c = response.primary
         THEN 1 ELSE attempts[c]]
  /\ active' = Primary
  /\ findings' = IF Primary = Nothing THEN findings
                 ELSE findings \cup {<<Primary, response.outcome>>}
  /\ Counted(1)
  /\ node' = "evaluate_candidate"
  /\ UNCHANGED <<backtracks, expansions, response, runs>>

(* A finding counts for every candidate with its unqualified name.         *)
Found(c, outcome) ==
  \E d \in Candidates : Leaf[d] = Leaf[c] /\ <<d, outcome>> \in findings

(* Fault: supporting and contradicting evidence cancel each other out.     *)
JudgedConflict(c) ==
  IF Found(c, "NO_MATCHING_ROW") /\ Found(c, "VALUE_PRESENT") THEN "INSUFFICIENT"
  ELSE IF Found(c, "VALUE_PRESENT") THEN "SUPPORTED"
  ELSE IF Found(c, "NO_MATCHING_ROW") THEN "CONTRADICTED"
  ELSE "INSUFFICIENT"

Judged(c) ==
  IF Found(c, "VALUE_PRESENT") THEN "SUPPORTED"
  ELSE IF Found(c, "NO_MATCHING_ROW") THEN "CONTRADICTED"
  ELSE "INSUFFICIENT"

(* Fault: the step limit is not asked.                                     *)
CandidateRouteUnlimited(verdict, count) ==
  CASE verdict \in {Absent, "SUPPORTED"} -> "check_coverage"
    [] verdict = "CONTRADICTED"          -> "reject_candidate"
    [] verdict = "INSUFFICIENT"          -> "expand_discovery"

(* candidate_route, after evaluate_candidate: its branch for a REJECTED    *)
(* candidate is never taken, because the evaluation replaces that status.  *)
CandidateRoute(verdict, count) ==
  CASE count >= MaxGraphSteps            -> "assess_evidence"
    [] count < MaxGraphSteps /\ verdict \in {Absent, "SUPPORTED"} -> "check_coverage"
    [] count < MaxGraphSteps /\ verdict = "CONTRADICTED"          -> "reject_candidate"
    [] count < MaxGraphSteps /\ verdict = "INSUFFICIENT"          -> "expand_discovery"

EvaluateCandidate ==
  /\ node = "evaluate_candidate"
  /\ IF active = Nothing
       THEN /\ node' = CandidateRoute(Absent, graphSteps)
            /\ UNCHANGED <<status, graphSteps>>
       ELSE /\ status' = [status EXCEPT ![active] = Judged(active)]
            /\ Counted(1)
            /\ node' = CandidateRoute(Judged(active), graphSteps')
  /\ UNCHANGED <<attempts, active, findings, backtracks, expansions, response, runs>>

(* rejection_route, with the values the rejection leaves behind.           *)
RejectionRoute(count, remaining) ==
  CASE count >= MaxBacktracks -> "assess_evidence"
    [] count < MaxBacktracks /\ remaining # {} -> "select_candidate"
    [] count < MaxBacktracks /\ remaining = {} /\ expansions < MaxExpansions
         -> "expand_discovery"
    [] OTHER -> "assess_evidence"

Backtracked == backtracks' = backtracks + 1

RejectCandidate ==
  /\ node = "reject_candidate"
  /\ status' = [status EXCEPT ![active] = "REJECTED"]
  /\ active' = Nothing
  /\ Backtracked
  /\ Counted(1)
  /\ node' = RejectionRoute(backtracks', With({"UNVERIFIED"}))
  /\ UNCHANGED <<attempts, findings, expansions, response, runs>>

(* Fault: the budget is not asked.                                         *)
ExpandUnlimited ==
  /\ node = "expand_discovery"
  /\ expansions' = expansions + 1
  /\ active' = Nothing
  /\ Counted(1)
  /\ node' = "discover_objects"
  /\ UNCHANGED <<status, attempts, findings, backtracks, response, runs>>

(* Once the budget is exhausted the node only says so; the edge behind it  *)
(* is unconditional.                                                       *)
ExpandDiscovery ==
  /\ node = "expand_discovery"
  /\ IF expansions >= MaxExpansions
       THEN UNCHANGED <<expansions, active, graphSteps>>
       ELSE /\ expansions' = expansions + 1
            /\ active' = Nothing
            /\ Counted(1)
  /\ node' = "discover_objects"
  /\ UNCHANGED <<status, attempts, findings, backtracks, response, runs>>

WalkOver == node \in {"done", "raised"}

Over == WalkOver /\ UNCHANGED walkVars

Walk ==
  \/ Stage
  \/ SelectCandidate
  \/ \E result \in Payload :
       Cardinality(result.ranked) <= MaxCandidateTables /\ ExecuteSql(result)
  \/ PipelineRaises
  \/ ClassifyResults
  \/ EvaluateCandidate
  \/ RejectCandidate
  \/ ExpandDiscovery
  \/ WalkConcludes

WalkNext == Walk \/ Over

WalkSpec == WalkInit /\ [][WalkNext]_walkVars

(* invoke() walks until it returns or raises.                              *)
FairWalk == WalkSpec /\ WF_walkVars(Walk)

-----------------------------------------------------------------------------
Node == DOMAIN Edge \cup
  {"select_candidate", "execute_sql", "classify_results", "evaluate_candidate",
   "reject_candidate", "expand_discovery", "done", "raised"}

(* Type invariant, with the expansion budget.                              *)
WalkTypeOK ==
  /\ node \in Node
  /\ status \in [Candidates -> CandidateStatus \cup {Absent}]
  /\ attempts \in [Candidates -> 0..1]
  /\ active \in Candidates \cup {Nothing}
  /\ findings \subseteq Candidates \X EvidenceOutcome
  /\ backtracks \in Nat /\ expansions \in 0..MaxExpansions /\ graphSteps \in Nat
  /\ response \in Payload
  /\ runs \in 0..MaxRuns

(* The pipeline whose evidence reproduced the problem is the last one to   *)
(* run: no later run replaces its answer, whatever was found before.       *)
ReproductionEndsTheSearch ==
  [][runs' # runs /\ runs > 0 => response.outcome # "VALUE_PRESENT"]_walkVars

(* At the end the verdict agrees with the answer: the candidate that is    *)
(* active is supported exactly if the payload that is returned is about it *)
(* and reproduced the problem.                                             *)
VerdictMatchesAnswer ==
  node = "done" =>
    \A c \in Candidates :
      active = c /\ status[c] = "SUPPORTED"
        <=> /\ response.primary = c /\ c \in With(CandidateStatus)
            /\ response.outcome = "VALUE_PRESENT"

(* Every rejection was paid for by a backtrack, and a candidate waits for  *)
(* its rejection only while it is the active one.  (The limit is asked     *)
(* after a backtrack, so one is always granted.)                           *)
RejectionsArePaid ==
  /\ Cardinality(With({"REJECTED"})) <= backtracks
  /\ backtracks <= MaxBacktracks \/ backtracks = 1
  /\ With({"CONTRADICTED"}) \subseteq {active}

(* The step limit bounds the runs of the pipeline: the first evaluation is *)
(* at least the ninth step and every further one costs seven.  (MaxRuns    *)
(* must be large enough for this to fail.)                                 *)
StepsPayForRuns == runs > 1 => 9 + 7 * (runs - 2) < MaxGraphSteps

(* What bounds the search: rejections by backtracks, runs by steps.        *)
SearchIsPaid == RejectionsArePaid /\ StepsPayForRuns
=============================================================================
