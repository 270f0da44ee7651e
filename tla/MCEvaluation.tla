---------------------------- MODULE MCEvaluation ----------------------------
(* The evaluation of the application, in one instance: the queue of jobs   *)
(* with its workers (EvaluationJobs), or the runner that executes the      *)
(* scenarios (EvaluationRunner).  One is chosen at the start; in the other *)
(* nothing happens.                                                        *)
EXTENDS MCEvaluationJobs, MCEvaluationRunner

VARIABLE part

EvaluationInit == JobsInit /\ RunnerInit /\ part \in {"queue", "runner"}

Everything == <<jobVars, runnerVars, part>>

Queue(step) == part = "queue" /\ step /\ UNCHANGED <<runnerVars, part>>
Runner(step) == part = "runner" /\ step /\ UNCHANGED <<jobVars, part>>

(* Steps and fairness are those of the two modules.                        *)
EvaluationSpec ==
  /\ EvaluationInit
  /\ [][Queue(JobsNext) \/ Runner(RunnerNext)]_Everything
  /\ \A w \in Workers : WF_Everything(Queue(WorkerStep(w) \/ StartWorker(w)))
  /\ WF_Everything(Queue(\E j \in Jobs : BeatGoesStale(j)))
  /\ \A t \in Threads : WF_Everything(Runner(Work(t)))
  /\ \A p \in Processes : WF_Everything(Runner(Finish(p)))
=============================================================================
