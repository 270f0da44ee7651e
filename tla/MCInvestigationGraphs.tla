------------------------ MODULE MCInvestigationGraphs ------------------------
(* Small instances for TLC of the graphs graph.py builds: the production   *)
(* composition (CandidateGraph) and the isolated evidence loop             *)
(* (EvidenceLoop).                                                         *)
EXTENDS MCCandidateGraph, EvidenceLoop

CONSTANTS o1, o2, q1, q2, q3

MCQueries == {q1, q2, q3}

(* One text for either object, and one more for the second.                *)
MCObjectOf == [q \in MCQueries |-> IF q = q1 THEN o1 ELSE o2]
MCTextOf == [q \in MCQueries |-> IF q = q3 THEN "other" ELSE "shared"]
=============================================================================
