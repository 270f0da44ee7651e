----------------------- MODULE MCInvestigationLedger -----------------------
(* Small instances of InvestigationLedger for TLC.                         *)
EXTENDS InvestigationLedger, TLC

CONSTANTS r1, r2, r3

MCRequests == {r1, r2, r3}
Symmetry == Permutations(MCRequests)

(* A user cancelling, a loop confirming the cause or starting another      *)
(* iteration, and initialization steps.                                    *)
MCTargets == {"CANCELLED", "ROOT_CAUSE_CONFIRMED", "EVIDENCE_ASSESSMENT",
              "GAP_IDENTIFICATION"}

Path(states, iter) ==
  [i \in 1..Len(states) |->
     [prev |-> IF i = 1 THEN NoState ELSE states[i - 1],
      cur  |-> states[i], iter |-> iter]]

(* A request finds no agentic ledger, a freshly initialized one, or one    *)
(* that a loop has left at the end of its first iteration.                 *)
MCStartHistories ==
  { <<>>,
    Path(<<"INITIALIZATION">>, 0),
    Path(<<"INITIALIZATION", "EVIDENCE_ASSESSMENT", "GAP_IDENTIFICATION",
           "ACTION_SELECTION", "PLANNING", "STATE_UPDATE",
           "STOP_EVALUATION">>, 0) }

=============================================================================
