---------------------------- MODULE MCKnowledgeBase ----------------------------
(* Feedback of one investigation and its reviews.                          *)
EXTENDS KnowledgeBase

OneInvestigation == [f \in Feedback |-> "investigation"]
=============================================================================
