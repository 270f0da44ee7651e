------------------------------- MODULE MCServer -------------------------------
(* What the requests of one server share, in one instance: the threads'    *)
(* memory (ServerProcess), the catalogue of a connection under its lock    *)
(* (MetadataCatalog), the learning loop (KnowledgeBase), the checks of an  *)
(* investigation (VerificationChecks) or the table of evaluation jobs      *)
(* (EvaluationJobs).  One is chosen at the start; in the others nothing    *)
(* happens.                                                                *)
EXTENDS MCServerProcess, MetadataCatalog, MCKnowledgeBase, MCVerificationChecks,
        MCEvaluationJobs

VARIABLE shared

ServerInit ==
  /\ Init /\ CatalogInit /\ KnowledgeInit /\ ChecksInit /\ JobsInit
  /\ shared \in {"memory", "catalogue", "knowledge", "checks", "jobs"}
  /\ shared # "memory" => kind = [r \in Requests |-> "ask"]
  /\ shared # "checks" => facts = CHOOSE f \in MCSituations : TRUE

ServerNext ==
  /\ \/ /\ shared = "memory" /\ Next
        /\ UNCHANGED <<catalogVars, knowledgeVars, checkVars, jobVars>>
     \/ /\ shared = "catalogue" /\ CatalogNext
        /\ UNCHANGED <<vars, knowledgeVars, checkVars, jobVars>>
     \/ /\ shared = "knowledge" /\ KnowledgeNext
        /\ UNCHANGED <<vars, catalogVars, checkVars, jobVars>>
     \/ /\ shared = "checks" /\ ChecksNext
        /\ UNCHANGED <<vars, catalogVars, knowledgeVars, jobVars>>
     \/ /\ shared = "jobs" /\ JobsNext
        /\ UNCHANGED <<vars, catalogVars, knowledgeVars, checkVars>>
  /\ UNCHANGED shared

ServerSpec ==
  ServerInit
    /\ [][ServerNext]_<<vars, catalogVars, knowledgeVars, checkVars, jobVars, shared>>
=============================================================================
