--------------------------- MODULE MCInvestigations ---------------------------
(* The ways this code carries an investigation out, in one instance: a     *)
(* call of the agentic loop (AgenticLoop), a request to POST /chat/ask     *)
(* (AskInvestigation), a walk of the production graph (CandidateGraph) or  *)
(* of the isolated evidence loop (EvidenceLoop).  One is chosen at the     *)
(* start; in the others nothing happens.                                   *)
EXTENDS MCAgenticLoop, AskInvestigation, MCInvestigationGraphs

VARIABLE chosen

(* Those that are not chosen stand in one of their initial states.         *)
InvestigationInit ==
  /\ Init /\ AskInit /\ WalkInit /\ LoopInit
  /\ chosen \in {"loop", "ask", "production", "evidence"}
  /\ chosen # "ask" => config.ai /\ config.key /\ config.agentic
  /\ chosen # "loop" => state = "INITIALIZATION"

Everything == <<vars, askVars, walkVars, loopVars, chosen>>

LoopStep == chosen = "loop" /\ Step /\ UNCHANGED <<askVars, walkVars, loopVars, chosen>>

LoopEnvironment ==
  /\ chosen = "loop"
  /\ RequestCancel \/ DeadlinePasses
  /\ UNCHANGED <<askVars, walkVars, loopVars, chosen>>

AskStep == chosen = "ask" /\ AskNext /\ UNCHANGED <<vars, walkVars, loopVars, chosen>>

GraphsWalk ==
  /\ \/ chosen = "production" /\ Walk /\ UNCHANGED loopVars
     \/ chosen = "evidence" /\ LoopWalk /\ UNCHANGED walkVars
  /\ UNCHANGED <<vars, askVars, chosen>>

(* The evidence loop's exception: once its handlers have failed after a    *)
(* partial round, LoopOver.                                                *)
IsOver ==
  CASE chosen = "loop"       -> ~Running
    [] chosen = "ask"        -> at \in {"answered", "refused", "failed"}
    [] chosen = "production" -> WalkOver
    [] chosen = "evidence"   -> LoopOver

InvestigationNext ==
  \/ LoopStep \/ LoopEnvironment \/ AskStep \/ GraphsWalk
  \/ IsOver /\ UNCHANGED Everything

InvestigationSpec ==
  /\ InvestigationInit /\ [][InvestigationNext]_Everything
  /\ WF_Everything(LoopStep \/ GraphsWalk)

(* Whatever the assessor, the pipeline and the callbacks answer, a call of *)
(* the loop and a walk of either graph end by themselves: run() returns or *)
(* raises, and neither graph needs LangGraph's recursion limit, but for    *)
(* the exception LoopOver names.  (How often a request runs the pipeline   *)
(* again is up to the production graph.)                                   *)
InvestigationsEnd == chosen # "ask" => <>IsOver
=============================================================================
