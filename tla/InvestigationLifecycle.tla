----------------------- MODULE InvestigationLifecycle -----------------------
(***************************************************************************)
(* What the investigation ledger promises its readers: the history of an   *)
(* investigation starts at INITIALIZATION, every further row continues the *)
(* row before it by an allowed transition, rows are only ever appended,    *)
(* and nothing follows a terminal state.  One step may append several rows *)
(* because a request commits all its transitions together.                 *)
(***************************************************************************)
EXTENDS InvestigationStates

VARIABLE history     \* rows [prev, cur, iter] in sequence_number order

Extends(h, longer) ==
  /\ Len(h) < Len(longer)
  /\ \A i \in 1..Len(h) : longer[i] = h[i]

Init == IsLifecycle(history)

Advance ==
  /\ Extends(history, history')
  /\ IsLifecycle(history')

Spec == Init /\ [][Advance]_history
=============================================================================
