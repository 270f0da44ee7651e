--------------------------- MODULE EvaluationJobs ---------------------------
(***************************************************************************)
(* The evaluation job queue: a table of jobs, the API requests that        *)
(* create, retry and cancel them (services/evaluation_job_service.py), and *)
(* the worker processes that claim and execute them                        *)
(* (services/evaluation_job_worker.py, evaluation/worker.py,               *)
(* evaluation/job_executor.py), on a PostgreSQL database.                  *)
(*                                                                         *)
(* Each session loads a job, decides, and commits.  A commit writes only   *)
(* the columns whose value differs from the one loaded, so what another    *)
(* session committed in between survives in the other columns and is       *)
(* overwritten in these.  worker_id is written and never read, so the      *)
(* column is left out.                                                     *)
(***************************************************************************)
EXTENDS Naturals, FiniteSets

CONSTANTS
  Workers, Clients, Workspaces,
  WorkspaceLimit, GlobalLimit,   \* EVALUATION_*_CONCURRENCY_LIMIT
  Selection,    \* number of scenarios a job selects
  MaxJobs,        \* model bound on the jobs ever created
  MaxCrashes,     \* model bound on worker crashes
  SlowScenarios,  \* a scenario may take longer than stale_after_seconds
  PromptRestart,  \* a crashed worker may be restarted sooner than that
  OverlappingRecovery,  \* two workers may be starting at the same time
  NoWorkspace

ASSUME JobsAssumption ==
  /\ WorkspaceLimit \in Nat \ {0} /\ GlobalLimit \in Nat
  /\ WorkspaceLimit <= GlobalLimit
  /\ {Selection, MaxJobs, MaxCrashes} \subseteq Nat
  /\ {SlowScenarios, PromptRestart, OverlappingRecovery} \subseteq BOOLEAN
  /\ NoWorkspace \notin Workspaces

VARIABLES
  job,      \* the table evaluation_jobs
  runs,     \* evaluation runs created for each job
  requeued, \* history: how often recovery has put each job back
  work,     \* what each worker process is doing
  call,     \* what each API request is doing
  crashes

jobVars == <<job, runs, requeued, work, call, crashes>>

Jobs == 1..MaxJobs     \* in order of created_at

Claimed == {"preflight", "running"}
ACTIVE_STATUSES == {"queued"} \cup Claimed
Final == {"completed", "partially_completed", "cancelled", "failed"}
Status == ACTIVE_STATUSES \cup Final \cup {"absent"}

NoRow == [status |-> "absent", workspace |-> NoWorkspace, cancel |-> FALSE,
          beat |-> "none", run |-> 0, parent |-> 0]

Rest(pc) == [pc |-> pc, job |-> 0, status |-> "absent", cancel |-> FALSE,
             finished |-> 0, failed |-> 0, cancelled |-> FALSE, run |-> 0,
             found |-> {}]

NoCall == [pc |-> "idle", job |-> 0, status |-> "absent",
           workspace |-> NoWorkspace, parent |-> 0]

JobsInit ==
  /\ job = [j \in Jobs |-> NoRow]
  /\ runs = [j \in Jobs |-> 0]
  /\ requeued = [j \in Jobs |-> 0]
  /\ work = [w \in Workers |-> Rest("down")]
  /\ call = [c \in Clients |-> NoCall]
  /\ crashes = 0

ActiveJobs(S) == {j \in Jobs : job[j].status \in S}
ActiveIn(workspace) ==
  {j \in ActiveJobs(ACTIVE_STATUSES) : job[j].workspace = workspace}

(* Worker w is somewhere in run_once with job j.                           *)
Busy(w) == work[w].pc \notin {"down", "recovering", "idle"}
Handles(w, j) == Busy(w) /\ work[w].job = j

-----------------------------------------------------------------------------
(* Requests.                                                               *)

(* create(): the two counts, the second after the first.                   *)
WithinConcurrency(workspace) ==
  /\ Cardinality(ActiveJobs(ACTIVE_STATUSES)) < GlobalLimit
  /\ Cardinality(ActiveIn(workspace)) < WorkspaceLimit

CheckLimits(c, workspace, parent) ==
  /\ call[c].pc = "idle"
  /\ WithinConcurrency(workspace)
  /\ call' = [call EXCEPT ![c] = [NoCall EXCEPT
                !.pc = "create", !.workspace = workspace, !.parent = parent]]
  /\ UNCHANGED <<job, runs, requeued, work, crashes>>

(* retry(): a new job for one that has ended.                              *)
Retry(c, j) ==
  /\ job[j].status \notin ACTIVE_STATUSES \cup {"absent"}
  /\ CheckLimits(c, job[j].workspace, j)

InsertJob(c) ==
  LET j == CHOOSE k \in Jobs :
             job[k].status = "absent" /\ \A i \in 1..(k - 1) : job[i].status # "absent"
  IN
  /\ call[c].pc = "create"
  /\ ActiveJobs({"absent"}) # {}
  /\ job' = [job EXCEPT ![j] = [NoRow EXCEPT
               !.status = "queued", !.workspace = call[c].workspace,
               !.parent = call[c].parent]]
  /\ call' = [call EXCEPT ![c] = NoCall]
  /\ UNCHANGED <<runs, requeued, work, crashes>>

(* cancel(): load the job; 409 unless it is active.                        *)
LoadForCancel(c, j) ==
  /\ call[c].pc = "idle"
  /\ job[j].status \in ACTIVE_STATUSES
  /\ call' = [call EXCEPT ![c] = [NoCall EXCEPT
                !.pc = "cancel", !.job = j, !.status = job[j].status]]
  /\ UNCHANGED <<job, runs, requeued, work, crashes>>

(* Request the cancellation, and cancel at once what was still queued.     *)
CommitCancel(c) ==
  LET j == call[c].job IN
  /\ call[c].pc = "cancel"
  /\ job' = [job EXCEPT
       ![j].cancel = TRUE,
       ![j].status = IF call[c].status = "queued" THEN "cancelled" ELSE @]
  /\ call' = [call EXCEPT ![c] = NoCall]
  /\ UNCHANGED <<runs, requeued, work, crashes>>

-----------------------------------------------------------------------------
(* Workers.                                                                *)

(* Time passes without a heartbeat until the claim counts as stale: its    *)
(* worker is gone, or in the middle of a scenario that takes that long.    *)
BeatGoesStale(j) ==
  /\ job[j].status \in Claimed /\ job[j].beat = "fresh"
  /\ \A w \in Workers :
       Handles(w, j) => SlowScenarios /\ work[w].pc = "scenario"
  /\ job' = [job EXCEPT ![j].beat = "stale"]
  /\ UNCHANGED <<runs, requeued, work, call, crashes>>

(* Fault: a worker that died during preflight is overlooked.               *)
StaleRunning(row) == row.status = "running" /\ row.beat = "stale"

Stale(row) == row.status \in Claimed /\ row.beat = "stale"

(* run_worker: recovery runs once, before the first poll.  It loads the    *)
(* rows with a stale claim, without a lock, ...                            *)
StartWorker(w) ==
  /\ work[w].pc = "down"
  /\ \/ PromptRestart
     \/ \A j \in ActiveJobs(Claimed) :
          job[j].beat = "stale" \/ \E v \in Workers : Handles(v, j)
  /\ OverlappingRecovery \/ \A v \in Workers : work[v].pc # "recovering"
  /\ work' = [work EXCEPT ![w] = [Rest("recovering") EXCEPT
                !.found = {j \in Jobs : Stale(job[j])}]]
  /\ UNCHANGED <<job, runs, requeued, call, crashes>>

(* Fault: every claim is taken for a dead worker's.                        *)
RecoveredAll(w) ==
  [j \in Jobs |-> IF job[j].status \in Claimed
                    THEN [job[j] EXCEPT !.status = "queued", !.beat = "none"]
                    ELSE job[j]]

Recovered(w) ==
  [j \in Jobs |-> IF j \in work[w].found
                    THEN [job[j] EXCEPT !.status = "queued", !.beat = "none"]
                    ELSE job[j]]

(* ... and commits: both columns of each row it loaded, whatever the rows  *)
(* hold by then.                                                           *)
CommitRecovery(w) ==
  /\ work[w].pc = "recovering"
  /\ job' = Recovered(w)
  /\ requeued' = [j \in Jobs |->
                    requeued[j] + IF j \in work[w].found THEN 1 ELSE 0]
  /\ work' = [work EXCEPT ![w] = Rest("idle")]
  /\ UNCHANGED <<runs, call, crashes>>

(* The process dies, or exits with its daemon thread still at work.        *)
Crash(w) ==
  /\ work[w].pc # "down"
  /\ crashes < MaxCrashes
  /\ crashes' = crashes + 1
  /\ work' = [work EXCEPT ![w] = Rest("down")]
  /\ UNCHANGED <<job, runs, requeued, call>>

(* Fault: a claim forgets what was asked of the job before.                *)
ClaimAfresh(w, j) ==
  /\ work[w].pc = "idle"
  /\ job[j].status = "queued"
  /\ job' = [job EXCEPT ![j].status = "preflight", ![j].beat = "fresh",
                        ![j].cancel = FALSE]
  /\ work' = [work EXCEPT ![w] = [Rest("claimed") EXCEPT !.job = j]]
  /\ UNCHANGED <<runs, requeued, call, crashes>>

(* _claim: the oldest queued job, under a row lock.                        *)
Claim(w, j) ==
  /\ work[w].pc = "idle"
  /\ job[j].status = "queued"
  /\ \A i \in 1..(j - 1) : job[i].status # "queued"
  /\ job' = [job EXCEPT ![j].status = "preflight", ![j].beat = "fresh"]
  /\ work' = [work EXCEPT ![w] = [Rest("claimed") EXCEPT !.job = j]]
  /\ UNCHANGED <<runs, requeued, call, crashes>>

(* db.get: what the session will believe about the job until it commits.   *)
Load(w, from, to) ==
  LET j == work[w].job IN
  /\ work[w].pc = from
  /\ work' = [work EXCEPT ![w].pc = to, ![w].status = job[j].status,
                          ![w].cancel = job[j].cancel]
  /\ UNCHANGED <<job, runs, requeued, call, crashes>>

LoadForPreflight(w) == Load(w, "claimed", "preflight")

(* The commit of a status: not written if it equals the one loaded.        *)
Store(w, row, status) ==
  [row EXCEPT !.status = IF status = work[w].status THEN @ ELSE status,
              !.beat = "fresh"]

(* Fault: a job that fails its preflight keeps its claim.                  *)
CommitPreflightKeepsClaim(w, passed) ==
  /\ work[w].pc = "preflight"
  /\ job' = [job EXCEPT ![work[w].job] =
               Store(w, @, IF passed THEN "running" ELSE work[w].status)]
  /\ work' = [work EXCEPT ![w] = IF passed
                 THEN [@ EXCEPT !.pc = "starting"] ELSE Rest("idle")]
  /\ UNCHANGED <<runs, requeued, call, crashes>>

(* The preflight checks have run; passed: their verdict.                   *)
CommitPreflight(w, passed) ==
  LET j == work[w].job
      verdict == IF ~passed THEN "failed"
                 ELSE IF work[w].cancel THEN "cancelled" ELSE "running"
  IN
  /\ work[w].pc = "preflight"
  /\ job' = [job EXCEPT ![j] = Store(w, @, verdict)]
  /\ work' = [work EXCEPT ![w] = IF verdict = "running"
                 THEN [@ EXCEPT !.pc = "starting"] ELSE Rest("idle")]
  /\ UNCHANGED <<runs, requeued, call, crashes>>

(* execute() creates an evaluation run, then works off the scenarios.      *)
CreateRun(w) ==
  LET j == work[w].job IN
  /\ work[w].pc = "starting"
  /\ runs' = [runs EXCEPT ![j] = @ + 1]
  /\ work' = [work EXCEPT ![w].pc = "between", ![w].run = runs[j] + 1]
  /\ UNCHANGED <<job, requeued, call, crashes>>

(* Fault: one scenario too many.                                           *)
ScenariosLeftOrDone(w) == work[w].finished + work[w].failed <= Selection

ScenariosLeft(w) == work[w].finished + work[w].failed < Selection

(* should_cancel() is asked before every scenario; then progress is        *)
(* reported, which renews the heartbeat.                                   *)
BeginScenario(w) ==
  LET j == work[w].job IN
  /\ work[w].pc = "between" /\ ScenariosLeft(w)
  /\ IF job[j].cancel
       THEN /\ work' = [work EXCEPT ![w].pc = "returned", ![w].cancelled = TRUE]
            /\ UNCHANGED job
       ELSE /\ work' = [work EXCEPT ![w].pc = "scenario"]
            /\ job' = [job EXCEPT ![j].beat = "fresh"]
  /\ UNCHANGED <<runs, requeued, call, crashes>>

EndScenario(w, ok) ==
  LET j == work[w].job IN
  /\ work[w].pc = "scenario"
  /\ work' = [work EXCEPT ![w].pc = "between",
                ![w].finished = IF ok THEN @ + 1 ELSE @,
                ![w].failed = IF ok THEN @ ELSE @ + 1]
  /\ job' = [job EXCEPT ![j].beat = "fresh"]
  /\ UNCHANGED <<runs, requeued, call, crashes>>

ReturnResult(w) ==
  /\ work[w].pc = "between" /\ ~ScenariosLeft(w)
  /\ work' = [work EXCEPT ![w].pc = "returned"]
  /\ UNCHANGED <<job, runs, requeued, call, crashes>>

LoadForFinish(w) == Load(w, "returned", "finishing")

CommitFinish(w) ==
  LET j == work[w].job
      stopped == work[w].cancelled \/ work[w].cancel
      verdict == IF stopped THEN "cancelled"
                 ELSE IF work[w].failed > 0 THEN "partially_completed"
                 ELSE "completed"
  IN
  /\ work[w].pc = "finishing"
  /\ job' = [job EXCEPT ![j] = [Store(w, job[j], verdict) EXCEPT
               !.run = IF stopped THEN @ ELSE work[w].run]]
  /\ work' = [work EXCEPT ![w] = Rest("idle")]
  /\ UNCHANGED <<runs, requeued, call, crashes>>

(* Fault: a job that failed is put back into the queue.                    *)
FailJobAgain(w) ==
  /\ Busy(w)
  /\ job' = [job EXCEPT ![work[w].job].status = "queued"]
  /\ work' = [work EXCEPT ![w] = Rest("idle")]
  /\ UNCHANGED <<runs, requeued, call, crashes>>

(* Any exception after the claim, of the preflight, the execution or the   *)
(* database.                                                               *)
FailJob(w) ==
  /\ Busy(w)
  /\ job' = [job EXCEPT ![work[w].job].status = "failed"]
  /\ work' = [work EXCEPT ![w] = Rest("idle")]
  /\ UNCHANGED <<runs, requeued, call, crashes>>

-----------------------------------------------------------------------------
WorkerStep(w) ==
  \/ CommitRecovery(w)
  \/ \E j \in Jobs : Claim(w, j)
  \/ LoadForPreflight(w)
  \/ \E passed \in BOOLEAN : CommitPreflight(w, passed)
  \/ CreateRun(w)
  \/ BeginScenario(w)
  \/ \E ok \in BOOLEAN : EndScenario(w, ok)
  \/ ReturnResult(w)
  \/ LoadForFinish(w)
  \/ CommitFinish(w)
  \/ FailJob(w)

ClientStep(c) ==
  \/ \E workspace \in Workspaces : CheckLimits(c, workspace, 0)
  \/ \E j \in Jobs : Retry(c, j) \/ LoadForCancel(c, j)
  \/ InsertJob(c)
  \/ CommitCancel(c)

JobsNext ==
  \/ \E w \in Workers : WorkerStep(w) \/ StartWorker(w) \/ Crash(w)
  \/ \E c \in Clients : ClientStep(c)
  \/ \E j \in Jobs : BeatGoesStale(j)

JobsSpec == JobsInit /\ [][JobsNext]_jobVars

(* Worker processes run, are restarted when they are down (by the          *)
(* container platform), and time passes.                                   *)
FairJobs ==
  /\ JobsSpec
  /\ \A w \in Workers : WF_jobVars(WorkerStep(w) \/ StartWorker(w))
  /\ WF_jobVars(\E j \in Jobs : BeatGoesStale(j))

-----------------------------------------------------------------------------
WorkPc == {"down", "recovering", "idle", "claimed", "preflight", "starting", "between",
           "scenario", "returned", "finishing"}

(* Type invariant.                                                         *)
JobsTypeOK ==
  /\ job \in [Jobs -> [status : Status, workspace : Workspaces \cup {NoWorkspace},
                       cancel : BOOLEAN, beat : {"none", "fresh", "stale"}, run : Nat,
                       parent : 0..MaxJobs]]
  /\ {runs, requeued} \subseteq [Jobs -> Nat]
  /\ work \in [Workers -> [pc : WorkPc, job : 0..MaxJobs, status : Status,
                           cancel : BOOLEAN, finished : 0..Selection,
                           failed : 0..Selection, cancelled : BOOLEAN, run : Nat,
                           found : SUBSET Jobs]]
  /\ call \in [Clients -> [pc : {"idle", "create", "cancel"}, job : 0..MaxJobs,
                           status : Status, workspace : Workspaces \cup {NoWorkspace},
                           parent : 0..MaxJobs]]
  /\ crashes \in 0..MaxCrashes

(* EvaluationJobWorker: "Stale worker claim was safely requeued."  No two  *)
(* workers ever work on the same job.                                      *)
OneWorkerPerJob ==
  \A v, w \in Workers : \A j \in Jobs : Handles(v, j) /\ Handles(w, j) => v = w

(* As long as no worker died, every job in preflight or running has a      *)
(* worker that will end it, whatever requests do to the row meanwhile.     *)
ClaimsAreServed ==
  \A j \in Jobs :
    job[j].status \in Claimed => crashes > 0 \/ \E w \in Workers : Handles(w, j)

(* A job is executed again only because recovery put it back, and where no *)
(* scenario outlasts the cutoff and no two workers start together, only    *)
(* because a worker died with it.                                          *)
RunsAreAccountedFor ==
  \A j \in Jobs :
    /\ runs[j] <= 1 + requeued[j]
    /\ ~SlowScenarios /\ ~OverlappingRecovery => requeued[j] <= crashes

(* EvaluationJobModel: "Durable, tenant-scoped request to execute a new    *)
(* immutable evaluation run."  Every queued job comes to an end.           *)
JobsEnd == \A j \in Jobs : job[j].status = "queued" ~> job[j].status \in Final

(* A cancellation that recovery finds pending is not forgotten: the        *)
(* requeued job ends cancelled or failed.                                  *)
PendingCancelWins ==
  \A j \in Jobs : job[j].status = "queued" /\ job[j].cancel
                    ~> job[j].status \in {"cancelled", "failed"}
=============================================================================
