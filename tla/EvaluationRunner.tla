--------------------------- MODULE EvaluationRunner ---------------------------
(***************************************************************************)
(* The evaluation runner (evaluation/runners/runner.py): processes started *)
(* by the command line (evaluation/cli/__main__.py) execute scenarios with *)
(* a pool of threads.  An execution resets the synthetic database of the   *)
(* scenario's domain, injects the defect, checks that it is there, submits *)
(* the question to the application, waits for the answer, cleans up and    *)
(* stores one row.                                                         *)
(*                                                                         *)
(* A database is the set of the scenarios whose defect is in it.  Scripts, *)
(* requests and statements of the run store may fail; scripts and requests *)
(* return (subprocess.run waits without a limit, so this is an assumption  *)
(* about sqlcmd), a script ends with the process that started it, and a    *)
(* recovery file can be written.  A submission the client gave up may go   *)
(* on in the application; nothing of it is recorded, so it is left out.    *)
(* The retries of a request are bounded; the bound itself is left out.     *)
(* "failed" stands for every member of FAILED_STATUSES: no decision tells  *)
(* them apart.                                                             *)
(***************************************************************************)
EXTENDS Naturals, FiniteSets

CONSTANTS
  Processes, Threads, Scenarios, Domains,
  ProcessOf,      \* [Threads -> Processes]: the pool a thread belongs to
  MainThread,     \* [Processes -> Threads]: the thread of sequential commands
  Commands,       \* [Processes -> SUBSET CommandNames]: what each may be started with
  DomainOf,       \* [Scenarios -> Domains]
  Place,          \* [Scenarios -> Nat]: position in the manifests
  Pilot,          \* EVAL_SMOKE_SCENARIO_...: a scenario for each domain
  Supported,      \* [Processes -> SUBSET Scenarios]: of the engine each is set to
  NoOne

CommandNames == {"run", "pilot-smoke", "resume", "rerun-failed"}

ASSUME RunnerAssumption ==
  /\ ProcessOf \in [Threads -> Processes]
  /\ MainThread \in [Processes -> Threads]
  /\ Commands \in [Processes -> SUBSET CommandNames]
  /\ DomainOf \in [Scenarios -> Domains]
  /\ Place \in [Scenarios -> Nat]
  /\ Pilot \in [Domains -> Scenarios]
  /\ \A d \in Domains : DomainOf[Pilot[d]] = d
  /\ Supported \in [Processes -> SUBSET Scenarios]
  /\ NoOne \notin Threads \cup Scenarios \cup Processes

VARIABLES
  proc,      \* the command each process executes
  task,      \* run_scenario in each thread
  holder,    \* _domain_locks of each process
  database,  \* defects in the database of each domain
  rows,      \* the table evaluation_scenario_executions
  artifacts  \* the recovery files

runnerVars == <<proc, task, holder, database, rows, artifacts>>

Down == [pc |-> "down", run |-> NoOne, sequential |-> FALSE,
         chosen |-> {}, todo |-> {}]

(* "alone" and "pure" are history: no thread of another process has worked *)
(* on the domain during this execution, and all that the investigation has *)
(* read was the scenario's own defect.                                     *)
Idle == [pc |-> "idle", scenario |-> NoOne, attempt |-> 0, status |-> "running",
         alone |-> TRUE, pure |-> TRUE]

RunnerInit ==
  /\ proc = [p \in Processes |-> Down]
  /\ task = [t \in Threads |-> Idle]
  /\ holder = [p \in Processes |-> [d \in Domains |-> NoOne]]
  /\ database = [d \in Domains |-> {}]
  /\ rows = {}
  /\ artifacts = {}

-----------------------------------------------------------------------------
(* Commands.                                                               *)

RowsOf(run, s) == {r \in rows : r.run = run /\ r.scenario = s}

(* latest_statuses: the status of the highest attempt.                     *)
LatestFailed(run, s) ==
  \E r \in RowsOf(run, s) :
    /\ r.status = "failed"
    /\ \A q \in RowsOf(run, s) : q.attempt <= r.attempt

Start(p, command, run, selected) ==
  /\ proc[p].pc = "down" /\ command \in Commands[p]
  /\ proc' = [proc EXCEPT ![p] =
       [pc |-> "running", run |-> run, sequential |-> command = "pilot-smoke",
        chosen |-> selected, todo |-> selected]]
  /\ UNCHANGED <<task, holder, database, rows, artifacts>>

(* run: a new run of the suite.                                            *)
RunSuite(p) == Start(p, "run", p, Scenarios)

(* pilot-smoke: a new run of one scenario per domain, in the main thread.  *)
PilotSmoke(p) == Start(p, "pilot-smoke", p, {Pilot[d] : d \in Domains})

(* resume: what has no row in the run yet, or failed last.                 *)
Resume(p, run) ==
  /\ proc[run].run = run
  /\ Start(p, "resume", run,
           {s \in Scenarios : RowsOf(run, s) = {} \/ LatestFailed(run, s)})

(* rerun-failed: what failed last.                                         *)
RerunFailed(p, run) ==
  /\ proc[run].run = run
  /\ Start(p, "rerun-failed", run, {s \in Scenarios : LatestFailed(run, s)})

(* run_many hands out the first scenario of every domain, then the second  *)
(* of every domain, ..., the domains in the order the manifests name them. *)
Rank(selected, s) ==
  Cardinality({r \in selected : DomainOf[r] = DomainOf[s] /\ Place[r] < Place[s]})

DomainBefore(selected, d, e) ==
  \E s \in selected : DomainOf[s] = d
    /\ \A r \in selected : DomainOf[r] = e => Place[s] < Place[r]

HandedOutBefore(selected, s, r) ==
  \/ Rank(selected, s) < Rank(selected, r)
  \/ /\ Rank(selected, s) = Rank(selected, r)
     /\ DomainBefore(selected, DomainOf[s], DomainOf[r])

Take(t) ==
  LET p == ProcessOf[t] IN
  /\ proc[p].pc = "running" /\ task[t].pc = "idle"
  /\ proc[p].sequential => t = MainThread[p]
  /\ \E s \in proc[p].todo :
       /\ \A r \in proc[p].todo \ {s} : HandedOutBefore(proc[p].chosen, s, r)
       /\ proc' = [proc EXCEPT ![p].todo = @ \ {s}]
       /\ task' = [task EXCEPT ![t] = [Idle EXCEPT !.pc = "lock", !.scenario = s]]
  /\ UNCHANGED <<holder, database, rows, artifacts>>

Finish(p) ==
  /\ proc[p].pc = "running" /\ proc[p].todo = {}
  /\ \A t \in Threads : ProcessOf[t] = p => task[t].pc = "idle"
  /\ proc' = [proc EXCEPT ![p].pc = "ended"]
  /\ UNCHANGED <<task, holder, database, rows, artifacts>>

(* The process is killed (or Ctrl-C arrives outside the try block): its    *)
(* threads and locks are gone, what they did to a database stays.          *)
Kill(p) ==
  /\ proc[p].pc = "running"
  /\ proc' = [proc EXCEPT ![p].pc = "killed"]
  /\ task' = [t \in Threads |-> IF ProcessOf[t] = p THEN Idle ELSE task[t]]
  /\ holder' = [holder EXCEPT ![p] = [d \in Domains |-> NoOne]]
  /\ UNCHANGED <<database, rows, artifacts>>

-----------------------------------------------------------------------------
(* run_scenario, one step at a time.                                       *)

At(t, pc) == task[t].pc = pc
RunOf(t) == proc[ProcessOf[t]].run
DomainAt(t) == DomainOf[task[t].scenario]

(* Threads of other processes at work in a domain: their locks are not     *)
(* ours.                                                                   *)
Strangers(p, d) ==
  {t \in Threads : ProcessOf[t] # p /\ holder[ProcessOf[t]][d] = t}

(* Highest(numbers): 0 when there are none.                                *)
Highest(numbers) == CHOOSE n \in numbers \cup {0} : \A m \in numbers : m <= n

(* Fault: the query of next_attempt forgets the run.                       *)
NextAttemptOfAnyRun(run, s) ==
  Highest({r.attempt : r \in {q \in rows : q.scenario = s}}) + 1

NextAttempt(run, s) == Highest({r.attempt : r \in RowsOf(run, s)}) + 1

(* Fault: nothing keeps two executions out of one domain.                 *)
BeginUnlocked(t) ==
  LET p == ProcessOf[t]
      s == task[t].scenario
      strangers == Strangers(p, DomainOf[s])
      refused == s \notin Supported[p] IN
  /\ At(t, "lock")
  /\ holder' = [holder EXCEPT ![p][DomainOf[s]] = t]
  /\ task' = [u \in Threads |->
       IF u = t
       THEN [task[t] EXCEPT !.attempt = NextAttempt(RunOf(t), s),
                            !.status = IF refused THEN "failed" ELSE "running",
                            !.pc = IF refused THEN "cleanup" ELSE "reset",
                            !.alone = (strangers = {})]
       ELSE [task[u] EXCEPT !.alone = @ /\ u \notin strangers]]
  /\ UNCHANGED <<proc, database, rows, artifacts>>

(* with lock: one execution per domain, within this process.  The return   *)
(* for another engine's scenario passes through finally.                   *)
Begin(t) ==
  LET p == ProcessOf[t]
      s == task[t].scenario
      strangers == Strangers(p, DomainOf[s])
      refused == s \notin Supported[p] IN
  /\ At(t, "lock") /\ holder[p][DomainOf[s]] = NoOne
  /\ holder' = [holder EXCEPT ![p][DomainOf[s]] = t]
  /\ task' = [u \in Threads |->
       IF u = t
       THEN [task[t] EXCEPT !.attempt = NextAttempt(RunOf(t), s),
                            !.status = IF refused THEN "failed" ELSE "running",
                            !.pc = IF refused THEN "cleanup" ELSE "reset",
                            !.alone = (strangers = {})]
       ELSE [task[u] EXCEPT !.alone = @ /\ u \notin strangers]]
  /\ UNCHANGED <<proc, database, rows, artifacts>>

(* Fault: acquire() and release() around the call instead of with.         *)
AttemptUnknownKeepsLock(t) ==
  LET p == ProcessOf[t] IN
  /\ At(t, "lock") /\ holder[p][DomainAt(t)] = NoOne
  /\ task' = [task EXCEPT ![t] = Idle]
  /\ proc' = [proc EXCEPT ![p].todo = IF proc[p].sequential THEN {} ELSE @]
  /\ holder' = [holder EXCEPT ![p][DomainAt(t)] = t]
  /\ UNCHANGED <<database, rows, artifacts>>

(* The run store does not answer before the try block: the exception       *)
(* leaves run_scenario, and ends a sequential command.                     *)
AttemptUnknown(t) ==
  LET p == ProcessOf[t] IN
  /\ At(t, "lock") /\ holder[p][DomainAt(t)] = NoOne
  /\ task' = [task EXCEPT ![t] = Idle]
  /\ proc' = [proc EXCEPT ![p].todo = IF proc[p].sequential THEN {} ELSE @]
  /\ UNCHANGED <<holder, database, rows, artifacts>>

To(t, pc) == task' = [task EXCEPT ![t].pc = pc]
Ends(t, status) == task' = [task EXCEPT ![t].pc = "cleanup", ![t].status = status]
DatabaseAt(t, content) == database' = [database EXCEPT ![DomainAt(t)] = content]

(* Fault: the reset script leaves what it finds.                           *)
ResetNothing(t) ==
  /\ At(t, "reset")
  /\ \/ To(t, "inject") /\ UNCHANGED database
     \/ Ends(t, "failed") /\ \E left \in SUBSET database[DomainAt(t)] : DatabaseAt(t, left)
  /\ UNCHANGED <<proc, holder, rows, artifacts>>

Reset(t) ==
  /\ At(t, "reset")
  /\ \/ To(t, "inject") /\ DatabaseAt(t, {})
     \/ Ends(t, "failed") /\ \E left \in SUBSET database[DomainAt(t)] : DatabaseAt(t, left)
  /\ UNCHANGED <<proc, holder, rows, artifacts>>

Inject(t) ==
  LET injected == database[DomainAt(t)] \cup {task[t].scenario} IN
  /\ At(t, "inject")
  /\ \/ To(t, "verify") /\ DatabaseAt(t, injected)
     \/ Ends(t, "failed") /\ \E c \in {database[DomainAt(t)], injected} : DatabaseAt(t, c)
  /\ UNCHANGED <<proc, holder, rows, artifacts>>

Verify(t) ==
  /\ At(t, "verify")
  /\ \/ To(t, "submit") /\ task[t].scenario \in database[DomainAt(t)]
     \/ Ends(t, "failed")
  /\ UNCHANGED <<proc, holder, database, rows, artifacts>>

(* The application reads the database while the request is open.           *)
Investigate(t) ==
  /\ At(t, "submit") /\ database[DomainAt(t)] # {task[t].scenario}
  /\ task' = [task EXCEPT ![t].pure = FALSE]
  /\ UNCHANGED <<proc, holder, database, rows, artifacts>>

(* _retry: a submission lost is sent again, and is a new investigation.    *)
SubmitAgain(t) ==
  /\ At(t, "submit")
  /\ task' = [task EXCEPT ![t].pure = TRUE]
  /\ UNCHANGED <<proc, holder, database, rows, artifacts>>

(* _poll and the reading of the answer touch nothing that is shared.       *)
PollOutcomes == {"completed", "partial_application_response", "failed"}

(* The submission is answered, with an investigation to poll or without,   *)
(* or it fails for good.                                                   *)
Submit(t) ==
  /\ At(t, "submit")
  /\ \E status \in PollOutcomes \cup {"partial_application_response", "failed"} :
       Ends(t, status)
  /\ UNCHANGED <<proc, holder, database, rows, artifacts>>

(* KeyboardInterrupt in the try block: the main thread goes on with the    *)
(* next scenario.                                                          *)
Interrupt(t) ==
  LET p == ProcessOf[t] IN
  /\ proc[p].sequential /\ t = MainThread[p]
  /\ task[t].pc \in {"reset", "inject", "verify", "submit"}
  /\ Ends(t, "failed")
  /\ UNCHANGED <<proc, holder, database, rows, artifacts>>

(* The scenario's cleanup script removes its own rows; a failure makes a   *)
(* completed execution cleanup_failed.                                     *)
Cleanup(t) ==
  LET s == task[t].scenario
      left == database[DomainAt(t)] \ {s} IN
  /\ At(t, "cleanup")
  /\ \/ To(t, "persist") /\ DatabaseAt(t, left)
     \/ /\ task' = [task EXCEPT ![t].pc = "persist",
                     ![t].status = IF @ = "completed" THEN "failed" ELSE @]
        /\ \E c \in {database[DomainAt(t)], left} : DatabaseAt(t, c)
  /\ UNCHANGED <<proc, holder, rows, artifacts>>

SameExecution(r, q) ==
  r.run = q.run /\ r.scenario = q.scenario /\ r.attempt = q.attempt

Return(t) ==
  LET p == ProcessOf[t] IN
  /\ task' = [task EXCEPT ![t] = Idle]
  /\ holder' = [holder EXCEPT ![p][DomainAt(t)] = NoOne]
  /\ UNCHANGED proc

Result(t, status) ==
  [run |-> RunOf(t), scenario |-> task[t].scenario, attempt |-> task[t].attempt,
   status |-> status]

(* One row per run, scenario and attempt (a unique constraint).            *)
Persist(t) ==
  LET row == Result(t, task[t].status) IN
  /\ At(t, "persist")
  /\ \A r \in rows : ~SameExecution(r, row)
  /\ rows' = rows \cup {row}
  /\ Return(t)
  /\ UNCHANGED <<database, artifacts>>

(* Without a row the result goes to a file, in place of one of that name.  *)
PersistFails(t) ==
  LET artifact == Result(t, "failed") IN
  /\ At(t, "persist")
  /\ artifacts' = {a \in artifacts : ~SameExecution(a, artifact)} \cup {artifact}
  /\ Return(t)
  /\ UNCHANGED <<database, rows>>

Work(t) ==
  \/ Take(t) \/ Begin(t) \/ AttemptUnknown(t)
  \/ Reset(t) \/ Inject(t) \/ Verify(t) \/ Submit(t) \/ Interrupt(t)
  \/ Cleanup(t) \/ Persist(t) \/ PersistFails(t)

RunnerNext ==
  \/ \E p \in Processes :
       \/ RunSuite(p) \/ PilotSmoke(p)
       \/ \E run \in Processes : Resume(p, run) \/ RerunFailed(p, run)
       \/ Finish(p) \/ Kill(p)
  \/ \E t \in Threads : Work(t) \/ Investigate(t) \/ SubmitAgain(t)

(* Threads run, what they call returns, and retries end.                   *)
Fairness ==
  /\ \A t \in Threads : WF_runnerVars(Work(t))
  /\ \A p \in Processes : WF_runnerVars(Finish(p))

RunnerSpec == RunnerInit /\ [][RunnerNext]_runnerVars /\ Fairness

-----------------------------------------------------------------------------
(* Properties.                                                             *)

Executions ==
  [run : Processes, scenario : Scenarios, attempt : Nat \ {0},
   status : PollOutcomes]

Command ==
  [pc : {"down", "running", "ended", "killed"}, run : Processes \cup {NoOne},
   sequential : BOOLEAN, chosen : SUBSET Scenarios, todo : SUBSET Scenarios]

Progress ==
  [pc : {"idle", "lock", "reset", "inject", "verify", "submit", "cleanup", "persist"},
   scenario : Scenarios \cup {NoOne}, attempt : Nat,
   status : PollOutcomes \cup {"running"}, alone : BOOLEAN, pure : BOOLEAN]

Working(t) == task[t].pc \notin {"idle", "lock"}

(* The variables hold values of the expected shape; a domain's lock is     *)
(* held exactly by the thread of the process that executes a scenario of   *)
(* the domain (the with statement of run_scenario).                        *)
RunnerTypeOK ==
  /\ proc \in [Processes -> Command]
  /\ task \in [Threads -> Progress]
  /\ database \in [Domains -> SUBSET Scenarios]
  /\ rows \subseteq Executions /\ artifacts \subseteq Executions
  /\ holder \in [Processes -> [Domains -> Threads \cup {NoOne}]]
  /\ \A p \in Processes, d \in Domains, t \in Threads :
       holder[p][d] = t <=>
         ProcessOf[t] = p /\ Working(t) /\ DomainAt(t) = d

(* An execution during which no other process used the domain stores what  *)
(* an investigation made of the scenario's own defect and no other,        *)
(* whatever earlier executions, failures and killed processes left in the  *)
(* database (reset before inject, under the domain's lock until the        *)
(* cleanup is done).                                                       *)
MeasuredAgainstItsDefect == \A t \in Threads : task[t].alone => task[t].pure

(* The rows of a scenario in a run are numbered 1, 2, ... without a gap or *)
(* a double, whichever commands work on the run at the same time.          *)
AttemptsFollowOn ==
  /\ \A r, q \in rows : SameExecution(r, q) => r = q
  /\ \A r \in rows : \A n \in 1..(r.attempt - 1) :
       \E q \in rows : q.run = r.run /\ q.scenario = r.scenario /\ q.attempt = n

(* Whatever fails, an execution begun is not left, short of the death of   *)
(* its process, before its result is in a row of its own or in a recovery  *)
(* file; neither is lost, a file excepted that gives way to one of the     *)
(* same name; and the attempts stored follow on from each other.           *)
ResultsSurvive ==
  [][/\ rows \subseteq rows'
     /\ AttemptsFollowOn'
     /\ \A a \in artifacts : \E b \in artifacts' : SameExecution(a, b)
     /\ \A t \in Threads :
          /\ Working(t) /\ task'[t].pc = "idle"
          /\ proc'[ProcessOf[t]].pc = "running"
          => \E r \in (rows' \ rows) \cup artifacts' : SameExecution(r, Result(t, "failed"))]_runnerVars

(* A command that is not killed ends, whichever steps fail: no thread      *)
(* waits for ever for a domain's lock.                                     *)
RunEnds == \A p \in Processes : proc[p].pc = "running" ~> proc[p].pc # "running"
==============================================================================
