------------------------ MODULE MCAskInvestigation ------------------------
(* One request, every combination of facts, two provider attempts.         *)
EXTENDS AskInvestigation
===========================================================================
