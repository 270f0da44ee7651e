------------------------- MODULE MCVerificationChecks -------------------------
EXTENDS VerificationChecks

(* Situations of few checks: the object is known, an execution path leads   *)
(* to it that nothing was logged on, and the engine is not known; duplicates *)
(* with the states they are in.                                             *)
Bare == [focus |-> FALSE, known |-> FALSE, engine |-> FALSE, parent |-> "none",
         gated |-> FALSE, duplicate |-> FALSE, states |-> FALSE, missing |-> FALSE,
         writer |-> FALSE, ranked |-> FALSE, logged |-> FALSE, guarded |-> FALSE]

MCSituations ==
  {[Bare EXCEPT !.focus = TRUE, !.known = TRUE, !.ranked = TRUE],
   [Bare EXCEPT !.duplicate = TRUE, !.states = TRUE]}
=============================================================================
