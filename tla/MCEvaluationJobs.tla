-------------------------- MODULE MCEvaluationJobs --------------------------
(* Small instances of EvaluationJobs for TLC.                              *)
EXTENDS EvaluationJobs

CONSTANTS w1, w2, c1, ws

MCWorkers == {w1, w2}
MCOneClient == {c1}
MCWorkspaces == {ws}
=============================================================================
