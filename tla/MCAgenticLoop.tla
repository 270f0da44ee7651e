--------------------------- MODULE MCAgenticLoop ---------------------------
(* Small instances of AgenticLoop for TLC.                                 *)
EXTENDS AgenticLoop

CONSTANTS a1, a2

MCActions == {a1, a2}

(* A fresh ledger, and one a user has already cancelled.                   *)
MCStartStates == {"INITIALIZATION", "CANCELLED"}
=============================================================================
