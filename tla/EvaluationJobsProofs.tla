-------------------------- MODULE EvaluationJobsProofs --------------------------
(***************************************************************************)
(* The invariants of EvaluationJobs for any number of workers, clients,    *)
(* jobs and scenarios, what of its liveness is safety, and how far the     *)
(* quota is exceeded.  What is said of who works on a job assumes that no  *)
(* scenario outlasts stale_after_seconds and that no two workers are       *)
(* starting at the same time; how often a job runs is said without.        *)
(***************************************************************************)
EXTENDS EvaluationJobs, FiniteSetTheorems, TLAPS

Row == [status : Status, workspace : Workspaces \cup {NoWorkspace},
        cancel : BOOLEAN, beat : {"none", "fresh", "stale"}, run : Nat,
        parent : 0..MaxJobs]
Progress == [pc : WorkPc, job : 0..MaxJobs, status : Status,
             cancel : BOOLEAN, finished : 0..Selection,
             failed : 0..Selection, cancelled : BOOLEAN, run : Nat,
             found : SUBSET Jobs]
Request == [pc : {"idle", "create", "cancel"}, job : 0..MaxJobs,
            status : Status, workspace : Workspaces \cup {NoWorkspace},
            parent : 0..MaxJobs]

(* What is worked on, recovered or to be cancelled exists.                 *)
Existing ==
  /\ \A w \in Workers :
       /\ work[w].pc # "recovering" => work[w].found = {}
       /\ \A j \in work[w].found : j \in Jobs /\ job[j].status # "absent"
       /\ Busy(w) => work[w].job \in Jobs /\ job[work[w].job].status # "absent"
       /\ work[w].pc = "scenario" => work[w].finished + work[w].failed < Selection
  /\ \A c \in Clients :
       call[c].pc = "cancel" => call[c].job \in Jobs /\ job[call[c].job].status # "absent"

(* Jobs are created in the order of their numbers.                         *)
Created(n) == \A j \in Jobs : job[j].status = "absent" <=> j > n

TypeInv == JobsTypeOK /\ Existing /\ \E n \in 0..MaxJobs : Created(n)

(* What a worker may rely on while it has a job, and what it read of it.   *)
Loaded(w) ==
  LET row == job[work[w].job] IN
  /\ row.beat = "fresh" /\ row.status \in Claimed \cup {"cancelled"}
  /\ row.status = "cancelled" => row.cancel
  /\ work[w].pc \in {"preflight", "finishing"} =>
       /\ work[w].status \in Claimed \cup {"cancelled"}
       /\ work[w].status = "cancelled" => row.status = "cancelled" /\ work[w].cancel

HandledInv == \A w \in Workers : Busy(w) => Loaded(w)

(* One worker recovers at a time, and nobody touches what it loaded but    *)
(* for a late cancellation.                                                *)
RecoveryInv ==
  /\ \A v, w \in Workers :
       work[v].pc = "recovering" /\ work[w].pc = "recovering" => v = w
  /\ \A w \in Workers : \A j \in work[w].found :
       job[j].beat = "stale" /\ job[j].status \in Claimed \cup {"cancelled"}

(* A job that has lost its worker has been put back less often than        *)
(* workers died.                                                           *)
Lost(j) ==
  /\ \A w \in Workers : ~Handles(w, j)
  /\ job[j].status \in Claimed \/ \E w \in Workers : j \in work[w].found

RequeueInv ==
  \A j \in Jobs : requeued[j] <= crashes /\ (Lost(j) => requeued[j] < crashes)

IInv ==
  TypeInv /\ HandledInv /\ OneWorkerPerJob /\ ClaimsAreServed /\ RecoveryInv /\ RequeueInv

(* Where a worker with a job has yet to create its run.                    *)
BeforeRun == {"claimed", "preflight", "starting"}

-----------------------------------------------------------------------------
LEMMA Types ==
  ASSUME TypeInv
  PROVE  /\ job \in [Jobs -> Row] /\ work \in [Workers -> Progress]
         /\ call \in [Clients -> Request] /\ runs \in [Jobs -> Nat]
         /\ requeued \in [Jobs -> Nat] /\ crashes \in Nat /\ MaxJobs \in Nat /\ Selection \in Nat
         /\ \A w \in Workers : Busy(w) => work[w].job \in Jobs /\ job[work[w].job] \in Row
<1>1. crashes \in Nat /\ MaxJobs \in Nat /\ Selection \in Nat
  BY JobsAssumption DEF TypeInv, JobsTypeOK, JobsAssumption
<1> QED BY <1>1 DEF TypeInv, JobsTypeOK, Existing, Row, Progress, Request

LEMMA TypedAgain ==
  ASSUME job' \in [Jobs -> Row], work' \in [Workers -> Progress],
         call' \in [Clients -> Request], runs' \in [Jobs -> Nat],
         requeued' \in [Jobs -> Nat], crashes' \in 0..MaxCrashes
  PROVE  JobsTypeOK'
BY DEF JobsTypeOK, Row, Progress, Request

LEMMA Resting ==
  ASSUME NEW pc \in WorkPc
  PROVE  /\ Rest(pc) \in Progress /\ Rest(pc).pc = pc /\ Rest(pc).found = {}
         /\ \A j \in 0..MaxJobs : LET p == [Rest(pc) EXCEPT !.job = j]
              IN p \in Progress /\ p.pc = pc /\ p.job = j /\ p.found = {}
<1>1. 0 \in 0..MaxJobs /\ 0 \in 0..Selection /\ "absent" \in Status
  BY JobsAssumption DEF JobsAssumption, Status
<1> QED BY <1>1 DEF Rest, Progress

(* A step of worker w in run_once after the claim: it leaves row r and     *)
(* goes on as p.                                                           *)
Turn(w, r, p) ==
  /\ Busy(w)
  /\ job' = [job EXCEPT ![work[w].job] = r] /\ work' = [work EXCEPT ![w] = p]
  /\ UNCHANGED <<requeued, call, crashes>>
  /\ r \in Row /\ r.status # "absent" /\ r.cancel = job[work[w].job].cancel
  /\ r.status = "queued" => job[work[w].job].status = "queued"
  /\ p \in Progress /\ p.pc # "recovering" /\ p.found = {}
  /\ p.pc \notin {"down", "recovering", "idle"} => p.job = work[w].job
  /\ p.pc = "scenario" => p.finished + p.failed < Selection
  /\ runs' \in [Jobs -> Nat]
  /\ p.pc \in BeforeRun => work[w].pc \in BeforeRun /\ UNCHANGED runs
  /\ \A j \in Jobs :
       \/ runs'[j] = runs[j]
       \/ j = work[w].job /\ work[w].pc \in BeforeRun /\ runs'[j] = runs[j] + 1

(* What it leaves is right if what it read was.                            *)
Sound(w, r, p) ==
  /\ r.beat = "fresh"
  /\ p.pc \in {"down", "recovering", "idle"} => r.status \in Final
  /\ p.pc \notin {"down", "recovering", "idle"} =>
       /\ r.status \in Claimed \cup {"cancelled"}
       /\ r.status = "cancelled" => r.cancel
  /\ p.pc \in {"preflight", "finishing"} =>
       /\ p.status \in Claimed \cup {"cancelled"}
       /\ p.status = "cancelled" => r.status = "cancelled" /\ p.cancel

Turns(w) == \E r, p : Turn(w, r, p) /\ (HandledInv => Sound(w, r, p))

Handling(w) ==
  \/ LoadForPreflight(w) \/ \E passed \in BOOLEAN : CommitPreflight(w, passed)
  \/ CreateRun(w) \/ BeginScenario(w) \/ \E ok \in BOOLEAN : EndScenario(w, ok)
  \/ ReturnResult(w) \/ LoadForFinish(w) \/ CommitFinish(w) \/ FailJob(w)

(* The row as it is, and the row with a new status or a fresh heartbeat.   *)
LEMMA Written ==
  ASSUME TypeInv, NEW w \in Workers, Busy(w), NEW status \in Status \ {"absent"}
  PROVE  LET row == job[work[w].job]
             r == Store(w, row, status)
         IN  /\ r \in Row /\ r.beat = "fresh" /\ r.cancel = row.cancel
             /\ r.status = IF status = work[w].status THEN row.status ELSE status
             /\ r.status # "absent"
<1>1. job[work[w].job] \in Row /\ job[work[w].job].status # "absent"
  BY Types DEF TypeInv, Existing
<1> DEFINE row == job[work[w].job]
<1> HIDE DEF row
<1>2. row \in Row /\ row.status # "absent" BY <1>1 DEF row
<1>3. ASSUME NEW s \in Status
      PROVE  LET r == [row EXCEPT !.status = s, !.beat = "fresh"]
             IN  r \in Row /\ r.beat = "fresh" /\ r.cancel = row.cancel /\ r.status = s
  BY <1>2 DEF Row
<1> DEFINE s == IF status = work[w].status THEN row.status ELSE status
           r == [row EXCEPT !.status = s, !.beat = "fresh"]
<1>4. Store(w, row, status) = r BY DEF Store
<1>5. s \in Status /\ s # "absent" BY <1>2 DEF Row
<1> HIDE DEF s
<1>6. r \in Row /\ r.beat = "fresh" /\ r.cancel = row.cancel /\ r.status = s BY <1>3, <1>5
<1> HIDE DEF r
<1> QED BY <1>2, <1>4, <1>5, <1>6 DEF row, s

(* The steps that leave the status alone.                                  *)
LEMMA LoadTurns ==
  ASSUME TypeInv, NEW w \in Workers, LoadForPreflight(w) \/ LoadForFinish(w)
  PROVE  Turns(w)
<1> DEFINE row == job[work[w].job]
<1>1. PICK to \in {"preflight", "finishing"} :
        /\ work[w].pc = IF to = "preflight" THEN "claimed" ELSE "returned"
        /\ work' = [work EXCEPT ![w].pc = to, ![w].status = row.status, ![w].cancel = row.cancel]
        /\ UNCHANGED <<job, runs, requeued, call, crashes>>
  BY DEF LoadForPreflight, LoadForFinish, Load
<1>2. Busy(w) BY <1>1 DEF Busy
<1>3. /\ row \in Row /\ row.status # "absent" /\ work[w] \in Progress
      /\ work[w].job \in Jobs /\ work[w].found = {}
  BY <1>1, <1>2, Types DEF TypeInv, Existing
<1> DEFINE p == [work[w] EXCEPT !.pc = to, !.status = row.status, !.cancel = row.cancel]
<1>4. /\ p \in Progress /\ p.pc = to /\ p.job = work[w].job /\ p.status = row.status
      /\ p.cancel = row.cancel /\ p.found = {}
  <2> DEFINE q == row
  <2>1. q.status \in Status /\ q.cancel \in BOOLEAN BY <1>3 DEF Row
  <2> HIDE DEF q
  <2> QED BY <1>3, <2>1 DEF Progress, WorkPc, q
<1> HIDE DEF p
<1>5. work' = [work EXCEPT ![w] = p] BY <1>1, Types DEF p
<1>6. job' = [job EXCEPT ![work[w].job] = row] BY <1>1, <1>3, Types
<1>7. Turn(w, row, p) BY <1>1, <1>2, <1>3, <1>4, <1>5, <1>6, Types DEF Turn, BeforeRun
<1>8. HandledInv => Sound(w, row, p)
  BY <1>1, <1>2, <1>4 DEF Sound, HandledInv, Loaded
<1> QED BY <1>7, <1>8 DEF Turns

LEMMA QuietTurns ==
  ASSUME TypeInv, NEW w \in Workers, CreateRun(w) \/ ReturnResult(w)
  PROVE  Turns(w)
<1> DEFINE row == job[work[w].job]
           j == work[w].job
           run == IF CreateRun(w) THEN runs[j] + 1 ELSE work[w].run
           pc == IF CreateRun(w) THEN "between" ELSE "returned"
           p == [work[w] EXCEPT !.pc = pc, !.run = run]
<1>1. work[w].pc \in {"starting", "between"} /\ UNCHANGED <<job, requeued, call, crashes>>
  BY DEF CreateRun, ReturnResult
<1>2. Busy(w) BY <1>1 DEF Busy
<1>3. /\ row \in Row /\ row.status # "absent" /\ work[w] \in Progress /\ j \in Jobs
      /\ work[w].found = {}
  BY <1>1, <1>2, Types DEF TypeInv, Existing
<1>4. runs[j] \in Nat /\ work[w].run \in Nat BY <1>3, Types DEF Progress
<1>5. run \in Nat /\ pc \in {"between", "returned"} BY <1>4
<1>6. work' = [work EXCEPT ![w] = p]
  <2>1. CASE CreateRun(w) BY <2>1, Types DEF CreateRun
  <2>2. CASE ~CreateRun(w)
    <3>1. work' = [work EXCEPT ![w].pc = "returned"] BY <2>2 DEF ReturnResult
    <3>2. p = [work[w] EXCEPT !.pc = "returned"] BY <1>3, <2>2 DEF Progress
    <3> QED BY <3>1, <3>2, Types
  <2> QED BY <2>1, <2>2
<1>7. /\ runs' \in [Jobs -> Nat]
      /\ \A i \in Jobs : \/ runs'[i] = runs[i]
                         \/ i = j /\ work[w].pc = "starting" /\ runs'[i] = runs[i] + 1
  BY <1>3, <1>4, Types DEF CreateRun, ReturnResult
<1> HIDE DEF run, pc
<1>8. p \in Progress /\ p.pc = pc /\ p.job = j /\ p.found = {} BY <1>3, <1>5 DEF Progress, WorkPc
<1>9. job' = [job EXCEPT ![j] = row] BY <1>1, <1>3, Types
<1> HIDE DEF p
<1>10. Turn(w, row, p) BY <1>1, <1>2, <1>3, <1>5, <1>6, <1>7, <1>8, <1>9 DEF Turn, BeforeRun
<1>11. HandledInv => Sound(w, row, p)
  BY <1>1, <1>2, <1>5, <1>7, <1>8 DEF Sound, HandledInv, Loaded
<1> QED BY <1>10, <1>11 DEF Turns

(* A scenario begins or ends, with a heartbeat unless the job is to stop.  *)
LEMMA ScenarioTurns ==
  ASSUME TypeInv, NEW w \in Workers,
         BeginScenario(w) \/ \E ok \in BOOLEAN : EndScenario(w, ok)
  PROVE  Turns(w)
<1> DEFINE j == work[w].job
           row == job[j]
<1>1. work[w].pc \in {"between", "scenario"} /\ UNCHANGED <<runs, requeued, call, crashes>>
  BY DEF BeginScenario, EndScenario
<1>2. Busy(w) BY <1>1 DEF Busy
<1>3. /\ row \in Row /\ row.status # "absent" /\ work[w] \in Progress /\ j \in Jobs
      /\ work[w].found = {}
  BY <1>1, <1>2, Types DEF TypeInv, Existing
<1> DEFINE beaten == [row EXCEPT !.beat = "fresh"]
<1>4. /\ beaten \in Row /\ beaten.status = row.status /\ beaten.cancel = row.cancel
      /\ beaten.beat = "fresh"
  BY <1>3 DEF Row
<1>5. PICK r \in {row, beaten}, p \in Progress :
        /\ job' = [job EXCEPT ![j] = r] /\ work' = [work EXCEPT ![w] = p]
        /\ p.job = j /\ p.pc \in {"returned", "scenario", "between"} /\ p.found = {}
        /\ p.pc = "scenario" => p.finished + p.failed < Selection
  <2>1. CASE BeginScenario(w) /\ row.cancel
    <3> DEFINE p == [work[w] EXCEPT !.pc = "returned", !.cancelled = TRUE]
    <3>1. work' = [work EXCEPT ![w] = p] /\ UNCHANGED job BY <2>1, Types DEF BeginScenario
    <3>2. p \in Progress /\ p.job = j /\ p.pc = "returned" /\ p.found = {} BY <1>3 DEF Progress, WorkPc
    <3>3. job' = [job EXCEPT ![j] = row] BY <1>3, <3>1, Types
    <3> QED BY <3>1, <3>2, <3>3
  <2>2. CASE BeginScenario(w) /\ ~row.cancel
    <3> DEFINE p == [work[w] EXCEPT !.pc = "scenario"]
    <3>1. /\ work' = [work EXCEPT ![w] = p] /\ job' = [job EXCEPT ![j] = beaten]
          /\ work[w].finished + work[w].failed < Selection
      BY <2>2, Types DEF BeginScenario, ScenariosLeft
    <3>2. /\ p \in Progress /\ p.job = j /\ p.pc = "scenario" /\ p.found = {}
          /\ p.finished = work[w].finished /\ p.failed = work[w].failed
      BY <1>3 DEF Progress, WorkPc
    <3> QED BY <3>1, <3>2
  <2>3. ASSUME NEW ok \in BOOLEAN, EndScenario(w, ok)
        PROVE  \E p \in Progress :
                 /\ job' = [job EXCEPT ![j] = beaten] /\ work' = [work EXCEPT ![w] = p]
                 /\ p.job = j /\ p.pc = "between" /\ p.found = {}
    <3> DEFINE finished == IF ok THEN work[w].finished + 1 ELSE work[w].finished
               failed == IF ok THEN work[w].failed ELSE work[w].failed + 1
               p == [work[w] EXCEPT !.pc = "between", !.finished = finished, !.failed = failed]
    <3>1. work[w].finished + work[w].failed < Selection
      BY <2>3 DEF EndScenario, TypeInv, Existing
    <3>2. /\ work[w].finished \in Nat /\ work[w].failed \in Nat /\ Selection \in Nat
      BY <1>3, Types DEF Progress
    <3>3. finished \in 0..Selection /\ failed \in 0..Selection BY <3>1, <3>2
    <3>4. work' = [work EXCEPT ![w] = p] /\ job' = [job EXCEPT ![j] = beaten]
      BY <2>3, Types DEF EndScenario
    <3> HIDE DEF finished, failed
    <3>5. p \in Progress /\ p.job = j /\ p.pc = "between" /\ p.found = {}
      BY <1>3, <3>3 DEF Progress, WorkPc
    <3> QED BY <3>4, <3>5
  <2> QED BY <2>1, <2>2, <2>3
<1>6. /\ r \in Row /\ r.status = row.status /\ r.cancel = row.cancel
      /\ r.beat = "fresh" \/ r = row
  BY <1>3, <1>4, <1>5
<1>7. Turn(w, r, p) BY <1>1, <1>2, <1>3, <1>5, <1>6, Types DEF Turn, BeforeRun
<1>8. HandledInv => Sound(w, r, p)
  <2> SUFFICES ASSUME HandledInv PROVE Sound(w, r, p) OBVIOUS
  <2>1. /\ row.beat = "fresh" /\ row.status \in Claimed \cup {"cancelled"}
        /\ row.status = "cancelled" => row.cancel
    BY <1>2 DEF HandledInv, Loaded
  <2>2. r.beat = "fresh" BY <1>6, <2>1
  <2> HIDE DEF row
  <2> QED BY <1>1, <1>5, <1>6, <2>1, <2>2 DEF Sound
<1> QED BY <1>7, <1>8 DEF Turns

(* The preflight's verdict: the worker goes on or lets go of the job.      *)
LEMMA PreflightTurns ==
  ASSUME TypeInv, NEW w \in Workers, NEW passed \in BOOLEAN, CommitPreflight(w, passed)
  PROVE  Turns(w)
<1> DEFINE j == work[w].job
           row == job[j]
           verdict == IF ~passed THEN "failed"
                      ELSE IF work[w].cancel THEN "cancelled" ELSE "running"
           r == Store(w, row, verdict)
<1>1. /\ work[w].pc = "preflight" /\ UNCHANGED <<runs, requeued, call, crashes>>
      /\ job' = [job EXCEPT ![j] = r]
      /\ work' = [work EXCEPT ![w] = IF verdict = "running"
                     THEN [work[w] EXCEPT !.pc = "starting"] ELSE Rest("idle")]
  BY Types DEF CommitPreflight
<1>2. Busy(w) BY <1>1 DEF Busy
<1>3. work[w] \in Progress /\ j \in Jobs /\ work[w].found = {}
  BY <1>1, <1>2, Types DEF TypeInv, Existing
<1>4. verdict \in {"failed", "cancelled", "running"} BY Types
<1>5. /\ verdict = "cancelled" => work[w].cancel
      /\ verdict = "running" => ~work[w].cancel
  OBVIOUS
<1>6. verdict \in Status \ {"absent"}
  BY <1>4 DEF Status, ACTIVE_STATUSES, Claimed, Final
<1>7. /\ r \in Row /\ r.beat = "fresh" /\ r.cancel = row.cancel
      /\ r.status = IF verdict = work[w].status THEN row.status ELSE verdict
      /\ r.status # "absent"
  BY <1>2, <1>6, Written
<1> HIDE DEF verdict, r
<1>8. PICK p \in Progress :
        /\ work' = [work EXCEPT ![w] = p] /\ p.found = {}
        /\ IF verdict = "running" THEN p.pc = "starting" /\ p.job = j ELSE p.pc = "idle"
  <2>1. CASE verdict = "running"
    <3> DEFINE p == [work[w] EXCEPT !.pc = "starting"]
    <3>1. p \in Progress /\ p.pc = "starting" /\ p.job = j /\ p.found = {}
      BY <1>3 DEF Progress, WorkPc
    <3> QED BY <1>1, <2>1, <3>1
  <2>2. CASE verdict # "running"
    <3>1. /\ Rest("idle") \in Progress /\ Rest("idle").found = {} /\ Rest("idle").pc = "idle"
      BY Resting DEF WorkPc
    <3> QED BY <1>1, <2>2, <3>1
  <2> QED BY <2>1, <2>2
<1>9. Turn(w, r, p) BY <1>1, <1>2, <1>4, <1>7, <1>8, Types DEF Turn, BeforeRun
<1>10. HandledInv => Sound(w, r, p)
  <2> SUFFICES ASSUME HandledInv PROVE Sound(w, r, p) OBVIOUS
  <2>1. /\ row.status \in Claimed \cup {"cancelled"}
        /\ row.status = "cancelled" => row.cancel
        /\ work[w].status \in Claimed \cup {"cancelled"}
        /\ work[w].status = "cancelled" => row.status = "cancelled" /\ work[w].cancel
    BY <1>1, <1>2 DEF HandledInv, Loaded
  <2>2. CASE verdict = "running"
    <3>1. r.status \in Claimed \cup {"cancelled"} /\ (r.status = "cancelled" => r.cancel)
      BY <1>7, <2>1, <2>2 DEF Claimed
    <3> QED BY <1>1, <1>7, <1>8, <2>2, <3>1 DEF Sound
  <2>3. CASE verdict # "running"
    <3>1. r.status \in Final
      BY <1>4, <1>7, <2>1, <2>3 DEF Claimed, Final
    <3> QED BY <1>1, <1>7, <1>8, <2>3, <3>1 DEF Sound
  <2> QED BY <2>2, <2>3
<1> QED BY <1>9, <1>10 DEF Turns

(* The job is finished, or failed whatever the worker believes about it.   *)
LEMMA EndTurns ==
  ASSUME TypeInv, NEW w \in Workers, CommitFinish(w) \/ FailJob(w)
  PROVE  Turns(w)
<1> DEFINE j == work[w].job
           row == job[j]
<1>1. /\ Busy(w) /\ UNCHANGED <<runs, requeued, call, crashes>>
      /\ work' = [work EXCEPT ![w] = Rest("idle")]
  BY DEF CommitFinish, FailJob, Busy
<1>2. /\ row \in Row /\ row.status # "absent" /\ work[w] \in Progress /\ j \in Jobs
  BY <1>1, Types DEF TypeInv, Existing
<1>3. Rest("idle") \in Progress /\ Rest("idle").pc = "idle" /\ Rest("idle").found = {}
  BY Resting DEF WorkPc
<1>4. CASE FailJob(w)
  <2> DEFINE r == [row EXCEPT !.status = "failed"]
  <2>1. job' = [job EXCEPT ![j] = r] BY <1>4, Types DEF FailJob
  <2>2. /\ r \in Row /\ r.status = "failed" /\ r.cancel = row.cancel /\ r.beat = row.beat
        /\ r.status # "absent" /\ r.status \in Final
    BY <1>2 DEF Row, Status, Final
  <2> HIDE DEF r
  <2>3. Turn(w, r, Rest("idle")) BY <1>1, <1>2, <1>3, <2>1, <2>2, Types DEF Turn, BeforeRun
  <2>4. HandledInv => Sound(w, r, Rest("idle"))
    BY <1>1, <1>3, <2>2 DEF Sound, HandledInv, Loaded
  <2> QED BY <2>3, <2>4 DEF Turns
<1>5. CASE CommitFinish(w)
  <2> DEFINE stopped == work[w].cancelled \/ work[w].cancel
             verdict == IF stopped THEN "cancelled"
                        ELSE IF work[w].failed > 0 THEN "partially_completed" ELSE "completed"
             stored == Store(w, row, verdict)
             run == IF stopped THEN stored.run ELSE work[w].run
             r == [stored EXCEPT !.run = run]
  <2>1. work[w].pc = "finishing" /\ job' = [job EXCEPT ![j] = r]
    <3>1. job' = [job EXCEPT ![j] = r] BY <1>5, Zenon DEF CommitFinish
    <3> QED BY <1>5, <3>1 DEF CommitFinish
  <2>2. verdict \in {"cancelled", "partially_completed", "completed"} OBVIOUS
  <2>3. verdict \in Status \ {"absent"} BY <2>2 DEF Status, Final
  <2>4. /\ stored \in Row /\ stored.beat = "fresh" /\ stored.cancel = row.cancel
        /\ stored.status = IF verdict = work[w].status THEN row.status ELSE verdict
        /\ stored.status # "absent"
    BY <1>1, <2>3, Written
  <2> HIDE DEF verdict, stored
  <2>5. run \in Nat BY <1>2, <2>4 DEF Row, Progress
  <2> HIDE DEF run
  <2>6. /\ r \in Row /\ r.beat = "fresh" /\ r.cancel = stored.cancel /\ r.status = stored.status
    BY <2>4, <2>5 DEF Row
  <2> HIDE DEF r
  <2>7. Turn(w, r, Rest("idle"))
    BY <1>1, <1>2, <1>3, <2>1, <2>2, <2>4, <2>6, Types DEF Turn, BeforeRun
  <2>8. HandledInv => Sound(w, r, Rest("idle"))
    <3> SUFFICES ASSUME HandledInv PROVE Sound(w, r, Rest("idle")) OBVIOUS
    <3>1. /\ work[w].status \in Claimed \cup {"cancelled"}
          /\ work[w].status = "cancelled" => row.status = "cancelled"
      BY <1>1, <2>1 DEF HandledInv, Loaded
    <3>2. r.status \in Final BY <2>2, <2>4, <2>6, <3>1 DEF Claimed, Final
    <3> QED BY <1>1, <1>3, <2>6, <3>2 DEF Sound
  <2> QED BY <2>7, <2>8 DEF Turns
<1> QED BY <1>4, <1>5

LEMMA HandlingTurns ==
  ASSUME TypeInv, NEW w \in Workers, Handling(w)
  PROVE  Turns(w)
BY LoadTurns, QuietTurns, ScenarioTurns, PreflightTurns, EndTurns DEF Handling

-----------------------------------------------------------------------------
(* Types.                                                                  *)

(* No step makes a row disappear, and only InsertJob makes one appear.     *)
SameRows == \A j \in Jobs : job'[j].status = "absent" <=> job[j].status = "absent"

LEMMA RowsStay ==
  ASSUME TypeInv, SameRows
  PROVE  \E n \in 0..MaxJobs : Created(n)'
<1>1. PICK n \in 0..MaxJobs : Created(n) BY DEF TypeInv
<1> QED BY <1>1 DEF Created, SameRows

LEMMA TurnTypes ==
  ASSUME TypeInv, NEW w \in Workers, NEW r, NEW p, Turn(w, r, p)
  PROVE  TypeInv'
<1> DEFINE j == work[w].job
<1>1. /\ job' = [job EXCEPT ![j] = r] /\ work' = [work EXCEPT ![w] = p]
      /\ UNCHANGED <<requeued, call, crashes>>
      /\ r \in Row /\ r.status # "absent"
      /\ p \in Progress /\ (p.pc \notin {"down", "recovering", "idle"} => p.job = j)
      /\ p.found = {}
      /\ p.pc = "scenario" => p.finished + p.failed < Selection
      /\ runs' \in [Jobs -> Nat]
  BY DEF Turn
<1>2. Busy(w) /\ j \in Jobs /\ job[j].status # "absent"
  BY DEF Turn, TypeInv, Existing
<1>3. job' \in [Jobs -> Row] /\ \A i \in Jobs : job'[i] = IF i = j THEN r ELSE job[i]
  BY <1>1, <1>2, Types
<1>4. /\ work' \in [Workers -> Progress]
      /\ \A v \in Workers : work'[v] = IF v = w THEN p ELSE work[v]
  BY <1>1, Types
<1>5. JobsTypeOK'
  <2>1. crashes' \in 0..MaxCrashes BY <1>1 DEF TypeInv, JobsTypeOK
  <2>2. call' \in [Clients -> Request] /\ requeued' \in [Jobs -> Nat] BY <1>1, Types
  <2> QED BY <1>1, <1>3, <1>4, <2>1, <2>2, TypedAgain
<1>6. SameRows BY <1>1, <1>2, <1>3 DEF SameRows
<1>7. Existing' BY <1>1, <1>2, <1>3, <1>4, <1>6 DEF TypeInv, Existing, Busy, SameRows
<1> QED BY <1>5, <1>6, <1>7, RowsStay DEF TypeInv

(* A worker takes a job, dies or starts, and a heartbeat grows old.        *)
LEMMA ClaimTypes ==
  ASSUME TypeInv, NEW w \in Workers, NEW j \in Jobs, Claim(w, j)
  PROVE  /\ TypeInv'
         /\ \A i \in Jobs : i # j => job'[i] = job[i]
         /\ job'[j].status = "preflight" /\ job'[j].beat = "fresh"
         /\ \A v \in Workers : v # w => work'[v] = work[v]
         /\ work'[w].pc = "claimed" /\ work'[w].job = j /\ work'[w].found = {}
<1> DEFINE r == [job[j] EXCEPT !.status = "preflight", !.beat = "fresh"]
           p == [Rest("claimed") EXCEPT !.job = j]
<1>1. /\ job' = [job EXCEPT ![j] = r] /\ work' = [work EXCEPT ![w] = p]
      /\ UNCHANGED <<runs, requeued, call, crashes>> /\ job[j].status = "queued"
  BY Types DEF Claim
<1>2. r \in Row /\ r.status = "preflight" /\ r.beat = "fresh"
  BY Types DEF Row, Status, ACTIVE_STATUSES, Claimed
<1>3. p \in Progress /\ p.pc = "claimed" /\ p.job = j /\ p.found = {}
  BY Types, Resting DEF WorkPc, Jobs
<1> HIDE DEF r, p
<1>4. /\ job' \in [Jobs -> Row] /\ work' \in [Workers -> Progress]
      /\ \A i \in Jobs : job'[i] = IF i = j THEN r ELSE job[i]
      /\ \A v \in Workers : work'[v] = IF v = w THEN p ELSE work[v]
  BY <1>1, <1>2, <1>3, Types
<1>5. JobsTypeOK'
  <2>1. crashes' \in 0..MaxCrashes BY <1>1 DEF TypeInv, JobsTypeOK
  <2>2. call' \in [Clients -> Request] /\ runs' \in [Jobs -> Nat] /\ requeued' \in [Jobs -> Nat] BY <1>1, Types
  <2> QED BY <1>4, <2>1, <2>2, TypedAgain
<1>6. SameRows BY <1>1, <1>2, <1>4 DEF SameRows
<1>7. Existing' BY <1>1, <1>2, <1>3, <1>4, <1>6 DEF TypeInv, Existing, Busy, SameRows
<1> QED BY <1>2, <1>3, <1>4, <1>5, <1>6, <1>7, RowsStay DEF TypeInv

Requeued(row) == [row EXCEPT !.status = "queued", !.beat = "none"]

Restarts(w) == StartWorker(w) \/ CommitRecovery(w) \/ Crash(w)

LEMMA RestTypes ==
  ASSUME TypeInv, NEW w \in Workers, Restarts(w)
  PROVE  /\ TypeInv'
         /\ \A j \in Jobs :
              \/ job'[j] = job[j]
              \/ CommitRecovery(w) /\ j \in work[w].found /\ job'[j] = Requeued(job[j])
         /\ \A v \in Workers : v # w => work'[v] = work[v]
         /\ ~Busy(w)' /\ (~StartWorker(w) => work'[w].found = {})
         /\ UNCHANGED <<runs, call>>
<1>1. PICK pc \in {"idle", "down", "recovering"}, found \in SUBSET Jobs :
        /\ work' = [work EXCEPT ![w] = [Rest(pc) EXCEPT !.found = found]]
        /\ pc # "recovering" => found = {}
        /\ \A j \in found : j \in Jobs /\ job[j].status # "absent"
        /\ ~StartWorker(w) => found = {}
  <2>1. CASE StartWorker(w)
    <3> DEFINE found == {j \in Jobs : Stale(job[j])}
    <3>1. \A j \in found : j \in Jobs /\ job[j].status # "absent" BY DEF Stale, Claimed
    <3>2. work' = [work EXCEPT ![w] = [Rest("recovering") EXCEPT !.found = found]]
      BY <2>1 DEF StartWorker
    <3>3. found \in SUBSET Jobs OBVIOUS
    <3> HIDE DEF found
    <3> QED BY <2>1, <3>1, <3>2, <3>3
  <2>2. CASE ~StartWorker(w)
    <3>1. \A p \in Progress : p.found = {} => p = [p EXCEPT !.found = {}] BY DEF Progress
    <3>2. PICK pc \in {"idle", "down"} : work' = [work EXCEPT ![w] = Rest(pc)]
      BY <2>2 DEF Restarts, CommitRecovery, Crash
    <3>3. Rest(pc) \in Progress /\ Rest(pc).found = {} BY Resting DEF WorkPc
    <3> QED BY <2>2, <3>1, <3>2, <3>3
  <2> QED BY <2>1, <2>2
<1> DEFINE p == [Rest(pc) EXCEPT !.found = found]
<1>2. p \in Progress /\ p.pc = pc /\ p.found = found
  BY <1>1, Resting DEF Progress, WorkPc
<1>3. /\ work' \in [Workers -> Progress] /\ work'[w] = p /\ ~Busy(w)'
      /\ \A v \in Workers : v # w => work'[v] = work[v]
  BY <1>1, <1>2, Types DEF Busy
<1>4. \A row \in Row : Requeued(row) \in Row /\ Requeued(row).status = "queued"
  BY DEF Requeued, Row, Status, ACTIVE_STATUSES
<1>5. \A j \in Jobs :
        \/ job'[j] = job[j]
        \/ CommitRecovery(w) /\ j \in work[w].found /\ job'[j] = Requeued(job[j])
  <2>1. CASE CommitRecovery(w) BY <2>1 DEF CommitRecovery, Recovered, Requeued
  <2>2. CASE ~CommitRecovery(w) BY <2>2 DEF Restarts, StartWorker, Crash
  <2> QED BY <2>1, <2>2
<1>6. job' \in [Jobs -> Row] /\ SameRows
  <2>1. \A j \in Jobs : job'[j] \in Row BY <1>4, <1>5, Types
  <2>2. SameRows
    BY <1>4, <1>5, Types DEF SameRows, TypeInv, Existing
  <2>3. job' = [j \in Jobs |-> job'[j]]
    BY Types DEF Restarts, StartWorker, CommitRecovery, Recovered, Crash
  <2> HIDE DEF Restarts
  <2> QED BY <2>1, <2>2, <2>3
<1>7. UNCHANGED <<runs, call>> BY DEF Restarts, StartWorker, CommitRecovery, Crash
<1>8. JobsTypeOK'
  <2>1. crashes' \in 0..MaxCrashes
    BY JobsAssumption DEF TypeInv, JobsTypeOK, Restarts, StartWorker, CommitRecovery, Crash, JobsAssumption
  <2>2. call' \in [Clients -> Request] /\ runs' \in [Jobs -> Nat] BY <1>7, Types
  <2>3. requeued' \in [Jobs -> Nat]
    BY Types DEF Restarts, StartWorker, CommitRecovery, Crash
  <2> QED BY <1>3, <1>6, <2>1, <2>2, <2>3, TypedAgain
<1>9. Existing' BY <1>1, <1>2, <1>3, <1>6, <1>7 DEF TypeInv, Existing, Busy, SameRows
<1> QED BY <1>1, <1>2, <1>3, <1>5, <1>6, <1>7, <1>8, <1>9, RowsStay DEF TypeInv

LEMMA StaleTypes ==
  ASSUME TypeInv, NEW j \in Jobs, BeatGoesStale(j)
  PROVE  /\ TypeInv'
         /\ \A i \in Jobs : i # j => job'[i] = job[i]
         /\ job'[j].status = job[j].status
<1> DEFINE r == [job[j] EXCEPT !.beat = "stale"]
<1>1. /\ job' = [job EXCEPT ![j] = r] /\ UNCHANGED <<runs, requeued, work, call, crashes>>
  BY Types DEF BeatGoesStale
<1>2. r \in Row /\ r.status = job[j].status BY Types DEF Row
<1> HIDE DEF r
<1>3. /\ job' \in [Jobs -> Row] /\ \A i \in Jobs : job'[i] = IF i = j THEN r ELSE job[i]
  BY <1>1, <1>2, Types
<1>4. JobsTypeOK'
  <2>1. crashes' \in 0..MaxCrashes BY <1>1 DEF TypeInv, JobsTypeOK
  <2>2. /\ call' \in [Clients -> Request] /\ runs' \in [Jobs -> Nat] /\ requeued' \in [Jobs -> Nat]
        /\ work' \in [Workers -> Progress]
    BY <1>1, Types
  <2> QED BY <1>3, <2>1, <2>2, TypedAgain
<1>5. SameRows BY <1>2, <1>3 DEF SameRows
<1>6. Existing' BY <1>1, <1>5 DEF TypeInv, Existing, Busy, SameRows
<1> QED BY <1>2, <1>3, <1>4, <1>5, <1>6, RowsStay DEF TypeInv

(* What a request may do to the row of job j.                              *)
Touched(j) ==
  \/ job'[j] = job[j]
  \/ job[j].status = "absent" /\ job'[j].status = "queued"
  \/ /\ job[j].status # "absent" /\ job'[j].cancel /\ job'[j].beat = job[j].beat
     /\ job'[j].status \in {job[j].status, "cancelled"}

LEMMA AskingTypes ==
  ASSUME TypeInv, NEW c \in Clients, NEW request \in Request,
         call' = [call EXCEPT ![c] = request],
         request.pc = "cancel" => request.job \in Jobs /\ job[request.job].status # "absent",
         UNCHANGED <<job, runs, requeued, work, crashes>>
  PROVE  TypeInv' /\ \A j \in Jobs : Touched(j)
<1>1. call' \in [Clients -> Request] /\ \A d \in Clients : call'[d] = IF d = c THEN request ELSE call[d]
  BY Types
<1>2. JobsTypeOK'
  <2>1. crashes' \in 0..MaxCrashes BY DEF TypeInv, JobsTypeOK
  <2>2. /\ job' \in [Jobs -> Row] /\ runs' \in [Jobs -> Nat] /\ requeued' \in [Jobs -> Nat]
        /\ work' \in [Workers -> Progress]
    BY Types
  <2> QED BY <1>1, <2>1, <2>2, TypedAgain
<1>3. Existing' BY <1>1 DEF TypeInv, Existing, Busy
<1>4. SameRows BY DEF SameRows
<1> QED BY <1>2, <1>3, <1>4, RowsStay DEF TypeInv, Touched

LEMMA RequestTypes ==
  ASSUME TypeInv, NEW c \in Clients,
         \/ \E workspace \in Workspaces : CheckLimits(c, workspace, 0)
         \/ \E j \in Jobs : Retry(c, j) \/ LoadForCancel(c, j)
  PROVE  TypeInv' /\ UNCHANGED <<runs, requeued, work, crashes>> /\ \A j \in Jobs : Touched(j)
<1>1. NoCall \in Request
  BY JobsAssumption DEF NoCall, Request, Status, JobsAssumption
<1>2. ASSUME NEW workspace \in Workspaces \cup {NoWorkspace}, NEW parent \in 0..MaxJobs,
             CheckLimits(c, workspace, parent)
      PROVE  TypeInv' /\ UNCHANGED <<runs, requeued, work, crashes>> /\ \A j \in Jobs : Touched(j)
  <2> DEFINE request == [NoCall EXCEPT !.pc = "create", !.workspace = workspace, !.parent = parent]
  <2>1. request \in Request /\ request.pc = "create" BY <1>1 DEF Request
  <2>2. call' = [call EXCEPT ![c] = request] /\ UNCHANGED <<job, runs, requeued, work, crashes>>
    BY <1>2 DEF CheckLimits
  <2> HIDE DEF request
  <2> QED BY <2>1, <2>2, AskingTypes
<1>3. ASSUME NEW j \in Jobs, LoadForCancel(c, j)
      PROVE  TypeInv' /\ UNCHANGED <<runs, requeued, work, crashes>> /\ \A i \in Jobs : Touched(i)
  <2> DEFINE status == job[j].status
             request == [NoCall EXCEPT !.pc = "cancel", !.job = j, !.status = status]
  <2>1. status \in Status /\ status # "absent" /\ j \in 0..MaxJobs
    <3>1. status \in ACTIVE_STATUSES BY <1>3 DEF LoadForCancel
    <3> QED BY <3>1, Types DEF Status, ACTIVE_STATUSES, Claimed, Jobs
  <2>2. call' = [call EXCEPT ![c] = request] /\ UNCHANGED <<job, runs, requeued, work, crashes>>
    BY <1>3 DEF LoadForCancel
  <2>3. job[j].status = status OBVIOUS
  <2> HIDE DEF status
  <2>4. request \in Request /\ request.pc = "cancel" /\ request.job = j BY <1>1, <2>1 DEF Request
  <2> HIDE DEF request
  <2> QED BY <2>1, <2>2, <2>3, <2>4, AskingTypes
<1>4. 0 \in 0..MaxJobs BY Types
<1>5. \A j \in Jobs : job[j].workspace \in Workspaces \cup {NoWorkspace} /\ j \in 0..MaxJobs
  BY Types DEF Row, Jobs
<1> QED BY <1>2, <1>3, <1>4, <1>5 DEF Retry

LEMMA CancelTypes ==
  ASSUME TypeInv, NEW c \in Clients, CommitCancel(c)
  PROVE  TypeInv' /\ UNCHANGED <<runs, requeued, work, crashes>> /\ \A j \in Jobs : Touched(j)
<1> DEFINE j == call[c].job
           row == job[j]
           status == IF call[c].status = "queued" THEN "cancelled" ELSE row.status
           r == [row EXCEPT !.cancel = TRUE, !.status = status]
<1>1. /\ UNCHANGED <<runs, requeued, work, crashes>> /\ call' = [call EXCEPT ![c] = NoCall]
      /\ j \in Jobs /\ row.status # "absent"
  BY DEF CommitCancel, TypeInv, Existing
<1>2. row \in Row BY <1>1, Types
<1>3. job' = [job EXCEPT ![j] = r]
  <2>1. job' = [job EXCEPT ![j].cancel = TRUE,
                           ![j].status = IF call[c].status = "queued" THEN "cancelled" ELSE @]
    BY DEF CommitCancel
  <2> QED BY <1>1, <1>2, <2>1, Types DEF Row
<1>4. status \in Status /\ status # "absent" /\ status \in {row.status, "cancelled"}
  BY <1>1, <1>2 DEF Row, Status, Final
<1> HIDE DEF status
<1>5. r \in Row /\ r.status = status /\ r.cancel /\ r.beat = row.beat
  BY <1>2, <1>4 DEF Row
<1> HIDE DEF r
<1>6. NoCall \in Request /\ NoCall.pc = "idle"
  BY JobsAssumption DEF NoCall, Request, Status, JobsAssumption
<1>7. /\ job' \in [Jobs -> Row] /\ \A i \in Jobs : job'[i] = IF i = j THEN r ELSE job[i]
      /\ call' \in [Clients -> Request]
      /\ \A d \in Clients : call'[d] = IF d = c THEN NoCall ELSE call[d]
  BY <1>1, <1>3, <1>5, <1>6, Types
<1>8. JobsTypeOK'
  <2>1. crashes' \in 0..MaxCrashes BY <1>1 DEF TypeInv, JobsTypeOK
  <2>2. /\ runs' \in [Jobs -> Nat] /\ requeued' \in [Jobs -> Nat]
        /\ work' \in [Workers -> Progress]
    BY <1>1, Types
  <2> QED BY <1>7, <2>1, <2>2, TypedAgain
<1>9. SameRows BY <1>1, <1>4, <1>5, <1>7 DEF SameRows
<1>10. Existing' BY <1>1, <1>6, <1>7, <1>9 DEF TypeInv, Existing, Busy, SameRows
<1>11. \A i \in Jobs : Touched(i) BY <1>1, <1>4, <1>5, <1>7 DEF Touched
<1> QED BY <1>1, <1>8, <1>9, <1>10, <1>11, RowsStay DEF TypeInv

(* The next number is the lowest that no job has.                          *)
LEMMA InsertTypes ==
  ASSUME TypeInv, NEW c \in Clients, InsertJob(c)
  PROVE  TypeInv' /\ UNCHANGED <<runs, requeued, work, crashes>> /\ \A j \in Jobs : Touched(j)
<1> DEFINE Lowest(k) == job[k].status = "absent" /\ \A i \in 1..(k - 1) : job[i].status # "absent"
           j == CHOOSE k \in Jobs : Lowest(k)
           r == [NoRow EXCEPT !.status = "queued", !.workspace = call[c].workspace,
                              !.parent = call[c].parent]
<1>1. /\ ActiveJobs({"absent"}) # {} /\ job' = [job EXCEPT ![j] = r]
      /\ call' = [call EXCEPT ![c] = NoCall] /\ UNCHANGED <<runs, requeued, work, crashes>>
  BY Zenon DEF InsertJob
<1>2. PICK n \in 0..MaxJobs : Created(n) BY DEF TypeInv
<1>3. MaxJobs \in Nat /\ n \in Nat /\ n <= MaxJobs BY <1>2, Types
<1>4. n + 1 \in Jobs /\ Lowest(n + 1)
  <2>1. PICK k \in Jobs : job[k].status = "absent" BY <1>1 DEF ActiveJobs
  <2>2. n < k BY <1>2, <1>3, <2>1 DEF Created, Jobs
  <2>3. n + 1 \in Jobs BY <1>3, <2>1, <2>2 DEF Jobs
  <2>4. job[n + 1].status = "absent" BY <1>2, <1>3, <2>3 DEF Created
  <2>5. \A i \in 1..(n + 1 - 1) : i \in Jobs /\ ~(i > n) BY <1>3 DEF Jobs
  <2> QED BY <1>2, <2>3, <2>4, <2>5 DEF Created
<1>5. j = n + 1
  <2>1. j \in Jobs /\ Lowest(j) BY <1>4, Zenon
  <2> HIDE DEF j
  <2>2. ~(j > n + 1)
    <3> SUFFICES ASSUME j > n + 1 PROVE FALSE OBVIOUS
    <3>1. n + 1 \in 1..(j - 1) BY <1>3, <2>1 DEF Jobs
    <3> QED BY <1>4, <2>1, <3>1
  <2>3. j > n BY <1>2, <2>1 DEF Created
  <2> QED BY <1>3, <2>1, <2>2, <2>3 DEF Jobs
<1> HIDE DEF j
<1>6. j \in Jobs /\ job[j].status = "absent" BY <1>4, <1>5
<1>7. NoRow \in Row /\ NoCall \in Request /\ NoCall.pc = "idle"
  BY JobsAssumption DEF NoRow, Row, NoCall, Request, Status, JobsAssumption
<1>8. r \in Row /\ r.status = "queued"
  <2>1. call[c].workspace \in Workspaces \cup {NoWorkspace} /\ call[c].parent \in 0..MaxJobs
    BY Types DEF Request
  <2> QED BY <1>7, <2>1 DEF Row, Status, ACTIVE_STATUSES
<1> HIDE DEF r
<1>9. /\ job' \in [Jobs -> Row] /\ \A i \in Jobs : job'[i] = IF i = j THEN r ELSE job[i]
      /\ call' \in [Clients -> Request]
      /\ \A d \in Clients : call'[d] = IF d = c THEN NoCall ELSE call[d]
  BY <1>1, <1>6, <1>7, <1>8, Types
<1>10. JobsTypeOK'
  <2>1. crashes' \in 0..MaxCrashes BY <1>1 DEF TypeInv, JobsTypeOK
  <2>2. /\ runs' \in [Jobs -> Nat] /\ requeued' \in [Jobs -> Nat]
        /\ work' \in [Workers -> Progress]
    BY <1>1, Types
  <2> QED BY <1>9, <2>1, <2>2, TypedAgain
<1>11. Existing' BY <1>1, <1>6, <1>7, <1>8, <1>9 DEF TypeInv, Existing, Busy
<1>12. Created(n + 1)'
  <2>1. \A i \in Jobs : i > n <=> i = n + 1 \/ i > n + 1 BY <1>3 DEF Jobs
  <2>2. ~(n + 1 > n + 1) BY <1>3
  <2> QED BY <1>2, <1>5, <1>8, <1>9, <2>1, <2>2 DEF Created
<1>13. n + 1 \in 0..MaxJobs BY <1>3, <1>4 DEF Jobs
<1>14. \A i \in Jobs : Touched(i) BY <1>6, <1>8, <1>9 DEF Touched
<1> QED BY <1>1, <1>10, <1>11, <1>12, <1>13, <1>14 DEF TypeInv

LEMMA ClientTypes ==
  ASSUME TypeInv, NEW c \in Clients, ClientStep(c)
  PROVE  TypeInv' /\ UNCHANGED <<runs, requeued, work, crashes>> /\ \A j \in Jobs : Touched(j)
BY RequestTypes, CancelTypes, InsertTypes DEF ClientStep

-----------------------------------------------------------------------------
LEMMA InitInv ==
  ASSUME JobsInit
  PROVE  IInv
<1>1. {MaxCrashes, MaxJobs} \subseteq Nat BY JobsAssumption DEF JobsAssumption
<1>2. /\ NoRow \in Row /\ NoRow.status = "absent" /\ NoCall \in Request /\ NoCall.pc = "idle"
  BY JobsAssumption DEF NoRow, Row, NoCall, Request, Status, JobsAssumption
<1>3. Rest("down") \in Progress /\ Rest("down").pc = "down" /\ Rest("down").found = {}
  BY Resting DEF WorkPc
<1>4. /\ \A w \in Workers : ~Busy(w) /\ work[w].pc = "down" /\ work[w].found = {}
      /\ \A j \in Jobs : job[j].status = "absent" /\ requeued[j] = 0
      /\ \A c \in Clients : call[c].pc = "idle"
  BY <1>2, <1>3 DEF JobsInit, Busy
<1>5. JobsTypeOK
  <2>1. /\ job \in [Jobs -> Row] /\ work \in [Workers -> Progress]
        /\ call \in [Clients -> Request] /\ runs \in [Jobs -> Nat]
        /\ requeued \in [Jobs -> Nat] /\ crashes \in 0..MaxCrashes
    BY <1>1, <1>2, <1>3 DEF JobsInit
  <2> QED BY <2>1 DEF JobsTypeOK, Row, Progress, Request
<1>6. Existing BY <1>4 DEF Existing
<1>7. Created(0) BY <1>1, <1>4 DEF Created, Jobs
<1>8. TypeInv BY <1>1, <1>5, <1>6, <1>7 DEF TypeInv
<1>9. crashes = 0 BY DEF JobsInit
<1>10. \A w \in Workers, j \in Jobs : ~Handles(w, j) BY <1>4 DEF Handles
<1>11. HandledInv /\ OneWorkerPerJob BY <1>4, <1>10 DEF HandledInv, OneWorkerPerJob
<1>12. ClaimsAreServed BY <1>4 DEF ClaimsAreServed, Claimed
<1>13. RecoveryInv /\ RequeueInv
  BY <1>4, <1>9 DEF RecoveryInv, RequeueInv, Lost, Claimed
<1> QED BY <1>8, <1>11, <1>12, <1>13 DEF IInv

LEMMA TypeNext ==
  ASSUME TypeInv, [JobsNext]_jobVars
  PROVE  TypeInv'
<1>1. ASSUME NEW w \in Workers, WorkerStep(w) PROVE TypeInv'
  <2>1. CommitRecovery(w) \/ (\E j \in Jobs : Claim(w, j)) \/ Handling(w)
    BY <1>1 DEF WorkerStep, Handling
  <2>2. CASE Handling(w)
    <3>1. PICK r, p : Turn(w, r, p) BY <2>2, HandlingTurns DEF Turns
    <3> QED BY <3>1, TurnTypes
  <2> QED BY <2>1, <2>2, ClaimTypes, RestTypes DEF Restarts
<1>2. ASSUME UNCHANGED jobVars PROVE TypeInv'
  BY <1>2 DEF jobVars, TypeInv, JobsTypeOK, Existing, Busy, Created, Row, Progress, Request
<1> QED BY <1>1, <1>2, RestTypes, ClientTypes, StaleTypes DEF JobsNext, Restarts

(* Every row and every worker has its type (JobsTypeOK), whatever requests,    *)
(* workers, crashes and time do.                                           *)
THEOREM JobsTypeCorrect == JobsSpec => []JobsTypeOK
<1>1. JobsInit => TypeInv BY InitInv DEF IInv
<1>2. TypeInv /\ [JobsNext]_jobVars => TypeInv' BY TypeNext
<1>3. TypeInv => JobsTypeOK BY DEF TypeInv
<1> QED BY <1>1, <1>2, <1>3, PTL DEF JobsSpec

-----------------------------------------------------------------------------
(* Who works on a job.                                                     *)
Others ==
  HandledInv /\ OneWorkerPerJob /\ ClaimsAreServed /\ RecoveryInv /\ RequeueInv

LEMMA HandlesBusy ==
  \A w \in Workers, j \in Jobs : Handles(w, j) <=> Busy(w) /\ work[w].job = j
BY DEF Handles, Busy

(* What a starting worker loaded is nobody's.                              *)
LEMMA FoundAlone ==
  ASSUME TypeInv, HandledInv, RecoveryInv, NEW w \in Workers, NEW j \in work[w].found
  PROVE  /\ work[w].pc = "recovering" /\ j \in Jobs
         /\ \A v \in Workers : ~Handles(v, j) /\ (j \in work[v].found => v = w)
         /\ job[j].status \in Claimed \cup {"cancelled"}
<1>1. /\ job[j].beat = "stale" /\ job[j].status \in Claimed \cup {"cancelled"}
      /\ work[w].pc = "recovering" /\ j \in Jobs
  BY DEF RecoveryInv, TypeInv, Existing
<1>2. \A v \in Workers : ~Handles(v, j)
  BY <1>1, HandlesBusy DEF HandledInv, Loaded
<1>3. \A v \in Workers : j \in work[v].found => v = w
  BY <1>1 DEF RecoveryInv, TypeInv, Existing
<1> QED BY <1>1, <1>2, <1>3

LEMMA TurnSafe ==
  ASSUME IInv, NEW w \in Workers, NEW r, NEW p, Turn(w, r, p), Sound(w, r, p)
  PROVE  Others'
<1>0. PICK j \in Jobs : j = work[w].job BY DEF Turn, IInv, TypeInv, Existing
<1>1. /\ job' = [job EXCEPT ![j] = r] /\ work' = [work EXCEPT ![w] = p]
      /\ UNCHANGED <<requeued, call, crashes>> /\ Busy(w) /\ j = work[w].job
      /\ p.pc \notin {"down", "recovering", "idle"} => p.job = j
  BY <1>0 DEF Turn
<1>2. /\ \A i \in Jobs : job'[i] = IF i = j THEN r ELSE job[i]
      /\ \A v \in Workers : work'[v] = IF v = w THEN p ELSE work[v]
      /\ \A i \in Jobs : runs[i] \in Nat /\ crashes \in Nat
  BY <1>1, Types DEF IInv
<1>3. \A v \in Workers : Busy(v) => work[v].job \in Jobs BY DEF IInv, TypeInv, Existing
<1>4. \A v \in Workers, i \in Jobs : Handles(v, i) /\ Handles(w, i) => v = w
  BY DEF IInv, OneWorkerPerJob
<1>5. \A v \in Workers : v # w /\ Busy(v) => work[v].job # j
  BY <1>1, <1>3, <1>4, HandlesBusy
<1>6. Busy(w)' <=> p.pc \notin {"down", "recovering", "idle"} BY <1>2 DEF Busy
<1>7. \A v \in Workers : v # w => (Busy(v)' <=> Busy(v)) BY <1>2 DEF Busy
<1>8. \A v \in Workers, i \in Jobs :
        /\ Handles(v, i)' => Handles(v, i)
        /\ v # w => (Handles(v, i)' <=> Handles(v, i))
  BY <1>1, <1>2, <1>6 DEF Handles, Busy
<1>9. Busy(w)' => Handles(w, j)' BY <1>1, <1>2, <1>6 DEF Handles
<1>10. r.status \in Claimed => Busy(w)' BY <1>6 DEF Sound, Claimed, Final
<1>11. HandledInv'
  <2> SUFFICES ASSUME NEW v \in Workers, Busy(v)' PROVE Loaded(v)' BY DEF HandledInv
  <2>1. CASE v = w BY <1>1, <1>2, <1>6, <2>1 DEF Loaded, Sound
  <2>2. CASE v # w
    <3>1. Busy(v) /\ work[v].job # j /\ work[v].job \in Jobs BY <1>3, <1>5, <1>7, <2>2
    <3>2. Loaded(v) BY <3>1 DEF IInv, HandledInv
    <3> QED BY <1>2, <2>2, <3>1, <3>2 DEF Loaded
  <2> QED BY <2>1, <2>2
<1>12. OneWorkerPerJob' BY <1>8 DEF IInv, OneWorkerPerJob
<1>13. ClaimsAreServed'
  <2> SUFFICES ASSUME NEW i \in Jobs, job'[i].status \in Claimed
               PROVE  crashes' > 0 \/ \E v \in Workers : Handles(v, i)'
    BY DEF ClaimsAreServed
  <2>1. CASE i = j BY <1>2, <1>9, <1>10, <2>1
  <2>2. CASE i # j
    <3>1. crashes > 0 \/ \E v \in Workers : Handles(v, i)
      BY <1>2, <2>2 DEF IInv, ClaimsAreServed
    <3>2. \A v \in Workers : Handles(v, i) => v # w BY <1>1, <2>2 DEF Handles
    <3> QED BY <1>1, <1>8, <3>1, <3>2
  <2> QED BY <2>1, <2>2
<1>14. /\ \A v \in Workers : v # w => work'[v] = work[v]
       /\ work'[w].found = {} /\ work'[w].pc # "recovering"
       /\ \A v \in Workers : j \notin work[v].found
  <2>1. Handles(w, j) BY <1>1, HandlesBusy
  <2> QED BY <1>1, <1>2, <2>1, FoundAlone DEF Turn, IInv
<1>15. RecoveryInv'
  BY <1>2, <1>14, FoundAlone DEF RecoveryInv, IInv
<1>16. RequeueInv'
  <2> SUFFICES ASSUME NEW i \in Jobs, Lost(i)' PROVE Lost(i)
    BY <1>1 DEF RequeueInv, IInv
  <2>1. CASE i = j
    <3>1. ~Busy(w)' BY <1>9, <2>1 DEF Lost
    <3>2. job'[i].status \notin Claimed BY <1>2, <1>10, <2>1, <3>1
    <3>3. \A v \in Workers : i \notin work'[v].found BY <1>14, <2>1
    <3> QED BY <3>2, <3>3 DEF Lost
  <2>2. CASE i # j
    <3>1. job'[i] = job[i] BY <1>2, <2>2
    <3>2. \A v \in Workers : Handles(v, i) => v # w BY <1>1, <2>2 DEF Handles
    <3>3. \A v \in Workers : ~Handles(v, i) BY <1>8, <3>2 DEF Lost
    <3>4. \A v \in Workers : i \in work'[v].found => i \in work[v].found BY <1>14
    <3> QED BY <3>1, <3>3, <3>4 DEF Lost
  <2> QED BY <2>1, <2>2
<1> QED BY <1>11, <1>12, <1>13, <1>15, <1>16 DEF Others

(* A queued job is nobody's.                                               *)
LEMMA ClaimSafe ==
  ASSUME IInv, NEW w \in Workers, NEW j \in Jobs, Claim(w, j)
  PROVE  Others'
<1>1. /\ \A i \in Jobs : i # j => job'[i] = job[i]
      /\ job'[j].status = "preflight" /\ job'[j].beat = "fresh"
      /\ \A v \in Workers : v # w => work'[v] = work[v]
      /\ work'[w].pc = "claimed" /\ work'[w].job = j
  BY ClaimTypes DEF IInv
<1>2. /\ UNCHANGED <<runs, requeued, call, crashes>> /\ job[j].status = "queued" /\ ~Busy(w)
  BY DEF Claim, Busy
<1>3. \A v \in Workers : Busy(v) => work[v].job \in Jobs /\ work[v].job # j
  BY <1>2 DEF IInv, TypeInv, Existing, HandledInv, Loaded, Claimed
<1>4. \A v \in Workers : v # w => (Busy(v)' <=> Busy(v)) BY <1>1 DEF Busy
<1>5. \A v \in Workers, i \in Jobs :
        Handles(v, i)' <=> (Handles(v, i) \/ (v = w /\ i = j))
  BY <1>1, <1>2 DEF Handles, Busy
<1>6. \A v \in Workers : ~Handles(v, j) BY <1>3, HandlesBusy
<1>7. HandledInv'
  <2> SUFFICES ASSUME NEW v \in Workers, Busy(v)' PROVE Loaded(v)' BY DEF HandledInv
  <2>1. CASE v = w BY <1>1, <2>1 DEF Loaded, Claimed
  <2>2. CASE v # w
    <3>1. Busy(v) /\ work[v].job \in Jobs \ {j} BY <1>3, <1>4, <2>2
    <3>2. Loaded(v) BY <3>1 DEF IInv, HandledInv
    <3> QED BY <1>1, <2>2, <3>1, <3>2 DEF Loaded
  <2> QED BY <2>1, <2>2
<1>8. \A i \in Jobs : \A v \in Workers : Handles(v, i) => v # w /\ i # j
  BY <1>2, <1>6, HandlesBusy
<1>9. OneWorkerPerJob' BY <1>5, <1>8 DEF IInv, OneWorkerPerJob
<1>10. ClaimsAreServed' BY <1>1, <1>2, <1>5 DEF IInv, ClaimsAreServed
<1>11. RecoveryInv'
  <2>1. \A v \in Workers : j \notin work[v].found
    BY <1>2, FoundAlone DEF IInv, Claimed
  <2>2. work'[w].found = {} BY ClaimTypes DEF IInv
  <2> QED BY <1>1, <2>1, <2>2, FoundAlone DEF RecoveryInv, IInv
<1>12. RequeueInv'
  <2> SUFFICES ASSUME NEW i \in Jobs, Lost(i)' PROVE Lost(i)
    BY <1>2 DEF RequeueInv, IInv
  <2>1. i # j BY <1>5 DEF Lost
  <2>2. work'[w].found = {} BY ClaimTypes DEF IInv
  <2> QED BY <1>1, <1>5, <2>1, <2>2 DEF Lost
<1> QED BY <1>7, <1>9, <1>10, <1>11, <1>12 DEF Others

LEMMA RestSafe ==
  ASSUME ~OverlappingRecovery, IInv, NEW w \in Workers, Restarts(w)
  PROVE  Others'
<1>1. /\ \A j \in Jobs :
           \/ job'[j] = job[j]
           \/ CommitRecovery(w) /\ j \in work[w].found /\ job'[j] = Requeued(job[j])
      /\ \A v \in Workers : v # w => work'[v] = work[v]
      /\ ~Busy(w)' /\ (~StartWorker(w) => work'[w].found = {})
  BY RestTypes DEF IInv
<1>2. /\ crashes \in Nat /\ \A j \in Jobs : requeued[j] \in Nat
      /\ \A j \in Jobs : job[j] \in Row
  BY Types DEF IInv
<1>3. /\ Crash(w) => crashes' = crashes + 1 /\ UNCHANGED requeued
      /\ ~Crash(w) => crashes' = crashes /\ ~Busy(w)
      /\ StartWorker(w) => UNCHANGED requeued
  BY DEF Restarts, StartWorker, CommitRecovery, Crash, Busy
<1>4. \A v \in Workers : Busy(v)' => v # w /\ Busy(v) /\ work'[v] = work[v]
  BY <1>1 DEF Busy
<1>5. \A v \in Workers, i \in Jobs : Handles(v, i)' => Handles(v, i) /\ work'[v] = work[v] /\ v # w
  BY <1>1, <1>4 DEF Handles, Busy
<1>6. ~Crash(w) => \A v \in Workers, i \in Jobs : Handles(v, i) => Handles(v, i)'
  BY <1>1, <1>3 DEF Handles, Busy
<1>7. \A j \in Jobs : (\E v \in Workers : Handles(v, j)) => job'[j] = job[j]
  BY <1>1, FoundAlone DEF IInv
<1>8. \A v \in Workers : Busy(v)' => job'[work[v].job] = job[work[v].job] /\ Loaded(v)
  BY <1>4, <1>7, HandlesBusy DEF IInv, HandledInv, TypeInv, Existing
<1>9. HandledInv' BY <1>4, <1>8 DEF HandledInv, Loaded
<1>10. OneWorkerPerJob' BY <1>5 DEF IInv, OneWorkerPerJob
<1>11. \A j \in Jobs : job'[j].status \in Claimed => job'[j] = job[j]
  BY <1>1, <1>2 DEF Requeued, Claimed, Row
<1>12. ClaimsAreServed' BY <1>2, <1>3, <1>6, <1>11 DEF IInv, ClaimsAreServed
<1>13. CASE StartWorker(w)
  <2>1. /\ \A v \in Workers : work[v].pc # "recovering"
        /\ UNCHANGED <<job, crashes, requeued>> /\ ~Crash(w)
        /\ work'[w] = [Rest("recovering") EXCEPT !.found = {j \in Jobs : Stale(job[j])}]
    BY <1>13, Types DEF StartWorker, Crash, IInv
  <2>2. work'[w].found = {j \in Jobs : Stale(job[j])}
    <3> DEFINE found == {j \in Jobs : Stale(job[j])}
    <3>1. Rest("recovering") \in Progress BY Resting DEF WorkPc
    <3>2. work'[w] = [Rest("recovering") EXCEPT !.found = found] BY <2>1
    <3> HIDE DEF found
    <3>3. work'[w].found = found BY <3>1, <3>2 DEF Progress
    <3> QED BY <3>3 DEF found
  <2>3. \A v \in Workers : v # w => work'[v].pc # "recovering" /\ work'[v].found = {}
    BY <1>1, <2>1 DEF IInv, TypeInv, Existing
  <2>4. RecoveryInv' BY <2>1, <2>2, <2>3 DEF RecoveryInv, Stale
  <2>5. RequeueInv'
    <3> SUFFICES ASSUME NEW i \in Jobs, Lost(i)' PROVE Lost(i)
      BY <2>1 DEF RequeueInv, IInv
    <3>1. job[i].status \in Claimed BY <2>1, <2>2, <2>3 DEF Lost, Stale
    <3> QED BY <1>6, <2>1, <3>1 DEF Lost
  <2> QED BY <1>9, <1>10, <1>12, <2>4, <2>5 DEF Others
<1>14. CASE CommitRecovery(w)
  <2>1. /\ work[w].pc = "recovering" /\ crashes' = crashes
        /\ \A j \in Jobs : requeued'[j] = requeued[j] + IF j \in work[w].found THEN 1 ELSE 0
        /\ \A j \in work[w].found : job'[j] = Requeued(job[j])
        /\ ~StartWorker(w) /\ ~Crash(w) /\ work'[w].pc # "recovering"
    <3>1. /\ work[w].pc = "recovering" /\ crashes' = crashes
          /\ requeued' = [j \in Jobs |-> requeued[j] + IF j \in work[w].found THEN 1 ELSE 0]
          /\ job' = Recovered(w)
      BY <1>14 DEF CommitRecovery
    <3>2. work'[w].pc = "idle" BY <1>14, Types, Resting DEF CommitRecovery, IInv, WorkPc
    <3>3. ~StartWorker(w) BY <3>1 DEF StartWorker
    <3>4. ~Crash(w) BY <1>2, <3>1 DEF Crash
    <3>5. \A j \in work[w].found : j \in Jobs BY DEF IInv, TypeInv, Existing
    <3> QED BY <3>1, <3>2, <3>3, <3>4, <3>5 DEF Recovered, Requeued
  <2>2. \A v \in Workers : work'[v].pc # "recovering" /\ work'[v].found = {}
    BY <1>1, <2>1 DEF IInv, TypeInv, Existing, RecoveryInv
  <2>3. RecoveryInv' BY <2>2 DEF RecoveryInv
  <2>4. RequeueInv'
    <3> SUFFICES ASSUME NEW i \in Jobs
                 PROVE  requeued'[i] <= crashes' /\ (Lost(i)' => requeued'[i] < crashes')
      BY DEF RequeueInv
    <3>0. requeued[i] <= crashes /\ (Lost(i) => requeued[i] < crashes)
      BY DEF IInv, RequeueInv
    <3>1. CASE i \in work[w].found
      <4>1. Lost(i) BY <3>1, FoundAlone DEF Lost, IInv
      <4>2. job'[i].status = "queued" BY <1>2, <2>1, <3>1 DEF Requeued, Row
      <4>3. ~Lost(i)' BY <2>2, <4>2 DEF Lost, Claimed
      <4> QED BY <1>2, <2>1, <3>0, <3>1, <4>1, <4>3
    <3>2. CASE i \notin work[w].found
      <4>1. job'[i] = job[i] BY <1>1, <3>2
      <4>2. Lost(i)' => Lost(i) BY <1>6, <2>1, <2>2, <4>1 DEF Lost
      <4> QED BY <1>2, <2>1, <3>0, <3>2, <4>2
    <3> QED BY <3>1, <3>2
  <2> QED BY <1>9, <1>10, <1>12, <2>3, <2>4 DEF Others
<1>15. CASE Crash(w)
  <2>1. /\ UNCHANGED <<job, requeued>> /\ crashes' = crashes + 1
        /\ ~StartWorker(w) /\ work'[w].pc = "down"
    BY <1>15, Types, Resting DEF Crash, StartWorker, IInv, WorkPc
  <2>2. work'[w].found = {} BY <1>1, <2>1
  <2>3. RecoveryInv' BY <1>1, <2>1, <2>2 DEF IInv, RecoveryInv
  <2>4. RequeueInv' BY <1>2, <2>1 DEF IInv, RequeueInv
  <2> QED BY <1>9, <1>10, <1>12, <2>3, <2>4 DEF Others
<1> QED BY <1>13, <1>14, <1>15 DEF Restarts

LEMMA StaleSafe ==
  ASSUME ~SlowScenarios, IInv, NEW j \in Jobs, BeatGoesStale(j)
  PROVE  Others'
<1>1. \A i \in Jobs : job'[i].status = job[i].status /\ (i # j => job'[i] = job[i])
  BY StaleTypes DEF IInv
<1>2. /\ UNCHANGED <<runs, requeued, work, call, crashes>> /\ \A w \in Workers : ~Handles(w, j)
  BY DEF BeatGoesStale
<1>3. \A w \in Workers : Busy(w) => work[w].job \in Jobs /\ work[w].job # j
  BY <1>2, HandlesBusy DEF IInv, TypeInv, Existing
<1>4. \A w \in Workers : (Busy(w)' <=> Busy(w)) /\ \A i \in Jobs : Handles(w, i)' <=> Handles(w, i)
  BY <1>2 DEF Busy, Handles
<1>5. HandledInv'
  <2> SUFFICES ASSUME NEW w \in Workers, Busy(w)' PROVE Loaded(w)' BY DEF HandledInv
  <2>1. Loaded(w) /\ job'[work[w].job] = job[work[w].job]
    BY <1>1, <1>3, <1>4 DEF IInv, HandledInv
  <2> QED BY <1>2, <2>1 DEF Loaded
<1>6. OneWorkerPerJob' BY <1>4 DEF IInv, OneWorkerPerJob
<1>7. ClaimsAreServed' BY <1>1, <1>2, <1>4 DEF IInv, ClaimsAreServed
<1>8. job'[j].beat = "stale" BY Types DEF BeatGoesStale, IInv, Row
<1>9. RecoveryInv' BY <1>1, <1>2, <1>8, FoundAlone DEF IInv, RecoveryInv
<1>10. RequeueInv' BY <1>1, <1>2, <1>4 DEF IInv, RequeueInv, Lost
<1> QED BY <1>5, <1>6, <1>7, <1>9, <1>10 DEF Others

LEMMA ClientSafe ==
  ASSUME IInv, NEW c \in Clients, ClientStep(c)
  PROVE  Others'
<1>1. UNCHANGED <<runs, requeued, work, crashes>> /\ \A j \in Jobs : Touched(j)
  BY ClientTypes DEF IInv
<1>2. \A w \in Workers : (Busy(w)' <=> Busy(w)) /\ \A i \in Jobs : Handles(w, i)' <=> Handles(w, i)
  BY <1>1 DEF Busy, Handles
<1>3. HandledInv'
  <2> SUFFICES ASSUME NEW w \in Workers, Busy(w)' PROVE Loaded(w)' BY DEF HandledInv
  <2>1. Loaded(w) /\ Touched(work[w].job) /\ job[work[w].job].status # "absent"
    BY <1>1, <1>2 DEF IInv, HandledInv, TypeInv, Existing
  <2> QED BY <1>1, <2>1 DEF Loaded, Touched
<1>4. OneWorkerPerJob' BY <1>2 DEF IInv, OneWorkerPerJob
<1>5. \A j \in Jobs : job'[j].status \in Claimed => job[j].status \in Claimed
  BY <1>1 DEF Touched, Claimed
<1>6. ClaimsAreServed' BY <1>1, <1>2, <1>5 DEF IInv, ClaimsAreServed
<1>7. RecoveryInv'
  <2>1. \A w \in Workers : \A j \in work[w].found :
          j \in Jobs /\ Touched(j) /\ job[j].status # "absent"
    BY <1>1 DEF IInv, TypeInv, Existing
  <2>2. \A w \in Workers : \A j \in work[w].found :
          job'[j].beat = "stale" /\ job'[j].status \in Claimed \cup {"cancelled"}
    BY <2>1 DEF IInv, RecoveryInv, Touched
  <2> QED BY <1>1, <2>2 DEF IInv, RecoveryInv
<1>8. RequeueInv' BY <1>1, <1>2, <1>5 DEF IInv, RequeueInv, Lost
<1> QED BY <1>3, <1>4, <1>6, <1>7, <1>8 DEF Others

LEMMA InvNext ==
  ASSUME ~SlowScenarios, ~OverlappingRecovery, IInv, [JobsNext]_jobVars
  PROVE  IInv'
<1>1. TypeInv' BY TypeNext DEF IInv
<1>2. ASSUME NEW w \in Workers, WorkerStep(w) PROVE Others'
  <2>1. Restarts(w) \/ (\E j \in Jobs : Claim(w, j)) \/ Handling(w)
    BY <1>2 DEF WorkerStep, Handling, Restarts
  <2>2. CASE Handling(w)
    <3>1. PICK r, p : Turn(w, r, p) /\ Sound(w, r, p)
      BY <2>2, HandlingTurns DEF Turns, IInv
    <3> QED BY <3>1, TurnSafe
  <2> QED BY <2>1, <2>2, ClaimSafe, RestSafe
<1>3. ASSUME UNCHANGED jobVars PROVE Others'
  BY <1>3 DEF jobVars, IInv, Others, HandledInv, Busy, Loaded, OneWorkerPerJob, Handles,
              ClaimsAreServed, RecoveryInv, RequeueInv, Lost
<1>4. ASSUME NEW w \in Workers, StartWorker(w) \/ Crash(w) PROVE Others'
  BY <1>4, RestSafe DEF Restarts
<1> QED BY <1>1, <1>2, <1>3, <1>4, ClientSafe, StaleSafe DEF JobsNext, IInv, Others

LEMMA Invariant ==
  ASSUME ~SlowScenarios, ~OverlappingRecovery
  PROVE  JobsSpec => []IInv
<1>1. JobsInit => IInv BY InitInv
<1>2. IInv /\ [JobsNext]_jobVars => IInv' BY InvNext
<1> QED BY <1>1, <1>2, PTL DEF JobsSpec

(* If no scenario outlasts stale_after_seconds and no worker starts while  *)
(* another is between loading and committing its recovery, recovery never  *)
(* takes a job from a living worker: no two workers work on one job        *)
(* (OneWorkerPerJob), even if crashed workers are restarted at once.       *)
THEOREM JobsHaveOneWorker ==
  ASSUME ~SlowScenarios, ~OverlappingRecovery
  PROVE  JobsSpec => []OneWorkerPerJob
<1>1. IInv => OneWorkerPerJob BY DEF IInv
<1> QED BY <1>1, Invariant, PTL

(* On the same conditions a claim that nobody works on is a crash's        *)
(* (ClaimsAreServed): no request takes a row from its worker.              *)
THEOREM JobClaimsAreServed ==
  ASSUME ~SlowScenarios, ~OverlappingRecovery
  PROVE  JobsSpec => []ClaimsAreServed
<1>1. IInv => ClaimsAreServed BY DEF IInv
<1> QED BY <1>1, Invariant, PTL

-----------------------------------------------------------------------------
(* How often a job is run.  A job that waits for a worker, or is with one  *)
(* that has not created the run yet, has had one run less than recovery    *)
(* allows, whoever took it from whom.                                      *)
Before(j) == {w \in Workers : Handles(w, j) /\ work[w].pc \in BeforeRun}
Waiting(j) == IF job[j].status \in {"absent", "queued"} THEN 1 ELSE 0

Allowance ==
  \A j \in Jobs : runs[j] + Cardinality(Before(j)) + Waiting(j) <= 1 + requeued[j]

LEMMA BeforeFinite ==
  ASSUME IsFiniteSet(Workers), NEW S \in SUBSET Workers
  PROVE  IsFiniteSet(S) /\ Cardinality(S) \in Nat
BY FS_Subset, FS_CardinalityType

(* The claim's worker takes the place of the waiting job.                  *)
LEMMA ClaimAllowed ==
  ASSUME TypeInv, IsFiniteSet(Workers), Allowance,
         NEW w \in Workers, NEW i \in Jobs, Claim(w, i)
  PROVE  Allowance'
<1>1. /\ \A j \in Jobs : j # i => job'[j] = job[j]
      /\ job'[i].status = "preflight" /\ work'[w].job = i
      /\ \A v \in Workers : v # w => work'[v] = work[v]
  BY ClaimTypes
<1>2. UNCHANGED <<runs, requeued>> /\ job[i].status = "queued" /\ ~Busy(w)
  BY DEF Claim, Busy
<1> SUFFICES ASSUME NEW j \in Jobs
             PROVE  runs[j] + Cardinality(Before(j)') + Waiting(j)' <= 1 + requeued[j]
  BY <1>2 DEF Allowance
<1>3. /\ runs[j] + Cardinality(Before(j)) + Waiting(j) <= 1 + requeued[j]
      /\ runs[j] \in Nat /\ requeued[j] \in Nat
  BY Types DEF Allowance
<1>4. \A S \in SUBSET Workers : IsFiniteSet(S) /\ Cardinality(S) \in Nat BY BeforeFinite
<1>5. Before(j) \in SUBSET Workers /\ Before(j)' \in SUBSET Workers BY DEF Before
<1>6. CASE j = i
  <2>1. Before(j)' \subseteq Before(j) \cup {w}
    BY <1>1 DEF Before, Handles, Busy
  <2>2. /\ IsFiniteSet(Before(j) \cup {w})
        /\ Cardinality(Before(j) \cup {w}) \in {Cardinality(Before(j)), Cardinality(Before(j)) + 1}
    BY <1>4, <1>5, FS_AddElement, Zenon
  <2>3. Cardinality(Before(j)') <= Cardinality(Before(j)) + 1
    <3>1. Cardinality(Before(j)') <= Cardinality(Before(j) \cup {w}) BY <2>1, <2>2, FS_Subset
    <3>2. Cardinality(Before(j)) \in Nat /\ Cardinality(Before(j)') \in Nat BY <1>4, <1>5
    <3> QED BY <2>2, <3>1, <3>2
  <2>4. Waiting(j) = 1 /\ Waiting(j)' = 0 BY <1>1, <1>2, <1>6 DEF Waiting
  <2> QED BY <1>3, <1>4, <1>5, <2>3, <2>4
<1>7. CASE j # i
  <2>1. Before(j)' \subseteq Before(j) BY <1>1, <1>7 DEF Before, Handles, Busy
  <2>2. Cardinality(Before(j)') <= Cardinality(Before(j)) BY <1>4, <1>5, <2>1, FS_Subset
  <2>3. Waiting(j)' = Waiting(j) BY <1>1, <1>7 DEF Waiting
  <2> QED BY <1>3, <1>4, <1>5, <2>2, <2>3 DEF Waiting
<1> QED BY <1>6, <1>7

(* The run takes the place of the worker that created it.                  *)
LEMMA TurnAllowed ==
  ASSUME TypeInv, IsFiniteSet(Workers), Allowance,
         NEW w \in Workers, NEW r, NEW p, Turn(w, r, p)
  PROVE  Allowance'
<1>0. PICK i \in Jobs : i = work[w].job BY DEF Turn, TypeInv, Existing
<1>1. /\ Busy(w) /\ UNCHANGED requeued
      /\ p.pc \notin {"down", "recovering", "idle"} => p.job = i
      /\ p.pc \in BeforeRun => work[w].pc \in BeforeRun /\ UNCHANGED runs
      /\ r.status # "absent" /\ (r.status = "queued" => job[i].status = "queued")
      /\ \A j \in Jobs : \/ runs'[j] = runs[j]
                         \/ j = i /\ work[w].pc \in BeforeRun /\ runs'[j] = runs[j] + 1
  BY <1>0 DEF Turn
<1>2. /\ \A j \in Jobs : job'[j] = IF j = i THEN r ELSE job[j]
      /\ \A v \in Workers : work'[v] = IF v = w THEN p ELSE work[v]
  BY <1>0, Types DEF Turn
<1> SUFFICES ASSUME NEW j \in Jobs
             PROVE  runs'[j] + Cardinality(Before(j)') + Waiting(j)' <= 1 + requeued[j]
  BY <1>1 DEF Allowance
<1>3. /\ runs[j] + Cardinality(Before(j)) + Waiting(j) <= 1 + requeued[j]
      /\ runs[j] \in Nat /\ requeued[j] \in Nat
  BY Types DEF Allowance
<1>4. \A S \in SUBSET Workers : IsFiniteSet(S) /\ Cardinality(S) \in Nat BY BeforeFinite
<1>5. Before(j) \in SUBSET Workers /\ Before(j)' \in SUBSET Workers BY DEF Before
<1>6. Before(j)' \subseteq Before(j)
  BY <1>0, <1>1, <1>2 DEF Before, Handles, Busy
<1>7. Cardinality(Before(j)') <= Cardinality(Before(j)) BY <1>4, <1>5, <1>6, FS_Subset
<1>8. /\ Waiting(j)' <= Waiting(j) /\ Waiting(j) \in Nat /\ Waiting(j)' \in Nat
  BY <1>1, <1>2 DEF Waiting
<1>9. CASE runs'[j] = runs[j] BY <1>3, <1>4, <1>5, <1>7, <1>8, <1>9
<1>10. CASE runs'[j] # runs[j]
  <2>1. j = i /\ work[w].pc \in BeforeRun /\ runs'[j] = runs[j] + 1 BY <1>1, <1>10
  <2>2. w \in Before(j) BY <1>0, <1>1, <2>1 DEF Before, Handles
  <2>3. w \notin Before(j)' BY <1>1, <1>2, <1>10 DEF Before
  <2>4. /\ Before(j)' \subseteq Before(j) \ {w} /\ IsFiniteSet(Before(j) \ {w})
        /\ Cardinality(Before(j) \ {w}) = Cardinality(Before(j)) - 1
    BY <1>4, <1>5, <1>6, <2>2, <2>3, FS_RemoveElement
  <2>5. Cardinality(Before(j)') <= Cardinality(Before(j)) - 1 BY <2>4, FS_Subset
  <2> QED BY <1>3, <1>4, <1>5, <1>8, <2>1, <2>5
<1> QED BY <1>9, <1>10

(* Recovery raises what it allows by the job it puts back.                 *)
LEMMA OthersAllowed ==
  ASSUME TypeInv, IsFiniteSet(Workers), Allowance,
         \/ \E w \in Workers : Restarts(w)
         \/ \E c \in Clients : ClientStep(c)
         \/ \E i \in Jobs : BeatGoesStale(i)
         \/ UNCHANGED jobVars
  PROVE  Allowance'
<1>1. UNCHANGED runs
  BY RestTypes, ClientTypes DEF BeatGoesStale, jobVars
<1> SUFFICES ASSUME NEW j \in Jobs
             PROVE  runs[j] + Cardinality(Before(j)') + Waiting(j)' <= 1 + requeued'[j]
  BY <1>1 DEF Allowance
<1>2. /\ runs[j] + Cardinality(Before(j)) + Waiting(j) <= 1 + requeued[j]
      /\ runs[j] \in Nat /\ requeued[j] \in Nat
  BY Types DEF Allowance
<1>3. /\ Waiting(j) \in 0..1 /\ Waiting(j)' \in 0..1 BY DEF Waiting
<1>4. Before(j) \in SUBSET Workers /\ Before(j)' \in SUBSET Workers BY DEF Before
<1>5. Before(j)' \subseteq Before(j)
  <2>1. ASSUME NEW w \in Workers, Restarts(w) PROVE Before(j)' \subseteq Before(j)
    <3>1. ~Busy(w)' /\ \A v \in Workers : v # w => work'[v] = work[v]
      BY <2>1, RestTypes
    <3> QED BY <3>1 DEF Before, Handles, Busy
  <2>2. (\E c \in Clients : ClientStep(c)) => UNCHANGED work BY ClientTypes
  <2>3. CASE UNCHANGED work BY <2>3 DEF Before, Handles, Busy
  <2> QED BY <2>1, <2>2, <2>3 DEF BeatGoesStale, jobVars
<1>6. /\ Cardinality(Before(j)') <= Cardinality(Before(j))
      /\ Cardinality(Before(j)) \in Nat /\ Cardinality(Before(j)') \in Nat
  BY <1>4, <1>5, BeforeFinite, FS_Subset
<1>7. \/ requeued'[j] = requeued[j] + 1
      \/ requeued'[j] = requeued[j] /\ Waiting(j)' <= Waiting(j)
  <2>1. ASSUME NEW w \in Workers, Restarts(w), job'[j] = job[j]
        PROVE  requeued'[j] \in {requeued[j], requeued[j] + 1}
    BY <1>2, <2>1 DEF Restarts, StartWorker, CommitRecovery, Crash
  <2>2. ASSUME NEW w \in Workers, CommitRecovery(w), j \in work[w].found
        PROVE  requeued'[j] = requeued[j] + 1
    BY <2>2 DEF CommitRecovery
  <2>3. ASSUME NEW c \in Clients, ClientStep(c)
        PROVE  requeued' = requeued /\ Waiting(j)' <= Waiting(j)
    BY <2>3, ClientTypes DEF Touched, Waiting
  <2>4. ASSUME NEW i \in Jobs, BeatGoesStale(i)
        PROVE  requeued' = requeued /\ Waiting(j)' <= Waiting(j)
    <3>1. job'[j].status = job[j].status BY <2>4, StaleTypes
    <3> QED BY <2>4, <3>1 DEF BeatGoesStale, Waiting
  <2>5. job'[j] = job[j] => Waiting(j)' <= Waiting(j) BY DEF Waiting
  <2>6. UNCHANGED jobVars => requeued' = requeued /\ job'[j] = job[j] BY DEF jobVars
  <2>7. ASSUME NEW w \in Workers, Restarts(w)
        PROVE  \/ requeued'[j] = requeued[j] + 1
               \/ requeued'[j] = requeued[j] /\ Waiting(j)' <= Waiting(j)
    BY <2>1, <2>2, <2>5, <2>7, RestTypes
  <2> QED BY <2>3, <2>4, <2>5, <2>6, <2>7
<1> QED BY <1>2, <1>3, <1>6, <1>7

LEMMA AllowanceNext ==
  ASSUME TypeInv, IsFiniteSet(Workers), Allowance, [JobsNext]_jobVars
  PROVE  Allowance'
<1>1. \A w \in Workers : WorkerStep(w) \/ StartWorker(w) \/ Crash(w)
        => Restarts(w) \/ (\E i \in Jobs : Claim(w, i)) \/ Handling(w)
  BY DEF WorkerStep, Handling, Restarts
<1>2. ASSUME NEW w \in Workers, Handling(w) PROVE Allowance'
  <2>1. PICK r, p : Turn(w, r, p) BY <1>2, HandlingTurns DEF Turns
  <2> QED BY <2>1, TurnAllowed
<1> QED BY <1>1, <1>2, ClaimAllowed, OthersAllowed DEF JobsNext

(* A job is run once more for each time recovery put it back, and no more, *)
(* however workers overlap; and where no scenario outlasts the cutoff and  *)
(* no two workers start together, recovery puts it back at most once for   *)
(* each crash (RunsAreAccountedFor).                                       *)
THEOREM JobRunsAreAccountedFor ==
  ASSUME IsFiniteSet(Workers)
  PROVE  JobsSpec => []RunsAreAccountedFor
<1>1. JobsInit => TypeInv /\ Allowance
  <2> SUFFICES ASSUME JobsInit PROVE TypeInv /\ Allowance OBVIOUS
  <2>1. TypeInv /\ \A w \in Workers : ~Busy(w)
    BY InitInv, Resting DEF IInv, JobsInit, Busy, WorkPc
  <2>2. \A j \in Jobs : Before(j) = {} BY <2>1 DEF Before, Handles
  <2>3. \A j \in Jobs : Cardinality(Before(j)) = 0 BY <2>2, FS_EmptySet
  <2>4. \A j \in Jobs : Waiting(j) \in 0..1 /\ runs[j] = 0 /\ requeued[j] = 0
    BY DEF JobsInit, Waiting
  <2> QED BY <2>1, <2>3, <2>4 DEF Allowance
<1>2. (TypeInv /\ Allowance) /\ [JobsNext]_jobVars => (TypeInv /\ Allowance)'
  BY TypeNext, AllowanceNext
<1>3. TypeInv /\ Allowance => \A j \in Jobs : runs[j] <= 1 + requeued[j]
  <2> SUFFICES ASSUME TypeInv, Allowance, NEW j \in Jobs PROVE runs[j] <= 1 + requeued[j]
    OBVIOUS
  <2>1. Cardinality(Before(j)) \in Nat BY BeforeFinite DEF Before
  <2>2. Waiting(j) \in 0..1 BY DEF Waiting
  <2> QED BY <2>1, <2>2, Types DEF Allowance
<1>4. CASE ~SlowScenarios /\ ~OverlappingRecovery
  <2>1. TypeInv /\ Allowance /\ IInv => RunsAreAccountedFor
    BY <1>3 DEF IInv, RequeueInv, RunsAreAccountedFor
  <2> QED BY <1>1, <1>2, <1>4, <2>1, Invariant, PTL DEF JobsSpec
<1>5. CASE ~(~SlowScenarios /\ ~OverlappingRecovery)
  <2>1. TypeInv /\ Allowance => RunsAreAccountedFor BY <1>3, <1>5 DEF RunsAreAccountedFor
  <2> QED BY <1>1, <1>2, <2>1, PTL DEF JobsSpec
<1> QED BY <1>4, <1>5

-----------------------------------------------------------------------------
(* What became of a cancellation that found its job in the queue, or with  *)
(* a worker that has yet to look at it.                                    *)
Stopping == {"queued", "preflight", "cancelled", "failed"}

Pending(j) ==
  /\ job[j].cancel /\ job[j].status \in Stopping
  /\ \A w \in Workers :
       Handles(w, j) => \/ work[w].pc = "claimed"
                        \/ work[w].pc = "preflight" /\ work[w].cancel

(* Worker w, whose job it is, can only find out, or fail.                  *)
LEMMA HandlingKeeps ==
  ASSUME IInv, NEW w \in Workers, NEW j \in Jobs, Handling(w), work[w].job = j, Pending(j)
  PROVE  Pending(j)' /\ runs'[j] = runs[j]
<1>1. PICK r, p : Turn(w, r, p) BY HandlingTurns DEF IInv, Turns
<1>2. /\ job' = [job EXCEPT ![j] = r] /\ work' = [work EXCEPT ![w] = p] /\ Busy(w)
      /\ r.cancel = job[j].cancel
  BY <1>1 DEF Turn
<1>3. job'[j] = r /\ work'[w] = p /\ \A v \in Workers : v # w => work'[v] = work[v]
  BY <1>2, Types DEF IInv
<1>4. \A v \in Workers : v # w => ~Handles(v, j)
  BY <1>2, HandlesBusy DEF IInv, OneWorkerPerJob
<1>5. \A v \in Workers : v # w => ~Handles(v, j)' BY <1>3, <1>4 DEF Handles, Busy
<1>6. /\ job[j].cancel /\ job'[j].cancel /\ job[j].status \in Stopping
      /\ \/ work[w].pc = "claimed"
         \/ work[w].pc = "preflight" /\ work[w].cancel
  BY <1>2, <1>3, HandlesBusy DEF Pending
<1>7. /\ job[j] \in Row /\ work[w] \in Progress BY Types DEF IInv
<1>8. CASE FailJob(w)
  <2>1. r.status = "failed" /\ runs' = runs
    <3>1. job' = [job EXCEPT ![j].status = "failed"] BY <1>8 DEF FailJob
    <3>2. job'[j] = [job[j] EXCEPT !.status = "failed"] BY <3>1, Types DEF IInv
    <3> QED BY <1>3, <1>7, <1>8, <3>2 DEF FailJob, Row
  <2>2. work'[w] = Rest("idle") BY <1>8, Types DEF FailJob, IInv
  <2>3. ~Handles(w, j)' BY <2>2, Resting DEF Handles, Busy, WorkPc
  <2> QED BY <1>3, <1>5, <1>6, <2>1, <2>3 DEF Pending, Stopping
<1>9. CASE LoadForPreflight(w)
  <2>1. /\ job' = job /\ runs' = runs
        /\ work' = [work EXCEPT ![w].pc = "preflight", ![w].status = job[j].status,
                                ![w].cancel = job[j].cancel]
    BY <1>9 DEF LoadForPreflight, Load
  <2>2. work'[w] = [work[w] EXCEPT !.pc = "preflight", !.status = job[j].status,
                                   !.cancel = job[j].cancel]
    BY <2>1, Types DEF IInv
  <2>3. work'[w].pc = "preflight" /\ work'[w].cancel BY <1>6, <1>7, <2>2 DEF Progress
  <2> QED BY <1>5, <1>6, <2>1, <2>3 DEF Pending
<1>10. ASSUME NEW passed \in BOOLEAN, CommitPreflight(w, passed)
       PROVE  Pending(j)' /\ runs'[j] = runs[j]
  <2> DEFINE verdict == IF ~passed THEN "failed"
                        ELSE IF work[w].cancel THEN "cancelled" ELSE "running"
  <2>1. /\ work[w].pc = "preflight" /\ runs' = runs
        /\ job' = [job EXCEPT ![j] = Store(w, @, verdict)]
        /\ work' = [work EXCEPT ![w] = IF verdict = "running"
                       THEN [@ EXCEPT !.pc = "starting"] ELSE Rest("idle")]
    BY <1>10 DEF CommitPreflight
  <2>2. verdict \in {"cancelled", "failed"} BY <1>6, <2>1
  <2>3. /\ work[w].status \in Claimed \cup {"cancelled"}
        /\ work[w].status = "cancelled" => job[j].status = "cancelled"
    BY <1>2, <2>1 DEF IInv, HandledInv, Loaded
  <2> HIDE DEF verdict
  <2>4. verdict \in Status \ {"absent"} BY <2>2 DEF Status, Final
  <2>5. job'[j] = Store(w, job[j], verdict) BY <2>1, Types DEF IInv
  <2>6. Store(w, job[j], verdict).status =
          IF verdict = work[w].status THEN job[j].status ELSE verdict
    BY <1>2, <2>4, Written DEF IInv
  <2>7. job'[j].status \in {"cancelled", "failed"}
    BY <2>2, <2>3, <2>5, <2>6 DEF Claimed
  <2>8. work'[w] = Rest("idle") BY <2>1, <2>2, Types DEF IInv
  <2>9. ~Handles(w, j)' BY <2>8, Resting DEF Handles, Busy, WorkPc
  <2> QED BY <1>5, <1>6, <2>1, <2>7, <2>9 DEF Pending, Stopping
<1>11. FailJob(w) \/ LoadForPreflight(w) \/ \E passed \in BOOLEAN : CommitPreflight(w, passed)
  BY <1>6 DEF Handling, LoadForFinish, Load, CreateRun, BeginScenario, EndScenario,
              ReturnResult, CommitFinish
<1> QED BY <1>8, <1>9, <1>10, <1>11

LEMMA PendingStays ==
  ASSUME ~SlowScenarios, ~OverlappingRecovery, IInv, [JobsNext]_jobVars, NEW j \in Jobs, Pending(j)
  PROVE  Pending(j)' /\ runs'[j] = runs[j]
<1>0. job[j] \in Row /\ runs[j] \in Nat /\ job[j].cancel /\ job[j].status \in Stopping
  BY Types DEF IInv, Pending
<1>1. ASSUME NEW w \in Workers, Handling(w) PROVE Pending(j)' /\ runs'[j] = runs[j]
  <2>1. CASE work[w].job = j BY <1>1, <2>1, HandlingKeeps
  <2>2. CASE work[w].job # j
    <3>1. PICK r, p : Turn(w, r, p) BY <1>1, HandlingTurns DEF IInv, Turns
    <3>2. /\ job' = [job EXCEPT ![work[w].job] = r] /\ work' = [work EXCEPT ![w] = p]
          /\ p.pc \notin {"down", "recovering", "idle"} => p.job = work[w].job
      BY <3>1 DEF Turn
    <3>3. /\ job'[j] = job[j] /\ work'[w] = p
          /\ \A v \in Workers : v # w => work'[v] = work[v]
      BY <2>2, <3>2, Types DEF IInv
    <3>4. \A v \in Workers : Handles(v, j)' => Handles(v, j) /\ work'[v] = work[v]
      BY <2>2, <3>2, <3>3 DEF Handles, Busy
    <3>5. runs'[j] = runs[j]
      BY <1>1, <2>2, Types DEF IInv, Handling, LoadForPreflight, LoadForFinish, Load,
         CommitPreflight, CreateRun, BeginScenario, EndScenario, ReturnResult,
         CommitFinish, FailJob
    <3> QED BY <3>3, <3>4, <3>5 DEF Pending
  <2> QED BY <2>1, <2>2
<1>2. ASSUME NEW w \in Workers, NEW i \in Jobs, Claim(w, i)
      PROVE  Pending(j)' /\ runs'[j] = runs[j]
  <2>1. /\ \A k \in Jobs : k # i => job'[k] = job[k]
        /\ job'[i].status = "preflight" /\ work'[w].pc = "claimed" /\ work'[w].job = i
        /\ \A v \in Workers : v # w => work'[v] = work[v]
    BY <1>2, ClaimTypes DEF IInv
  <2>2. /\ UNCHANGED runs
        /\ job' = [job EXCEPT ![i].status = "preflight", ![i].beat = "fresh"]
    BY <1>2 DEF Claim
  <2>3. job'[i] = [job[i] EXCEPT !.status = "preflight", !.beat = "fresh"]
    BY <2>2, Types DEF IInv
  <2>4. job'[i].cancel = job[i].cancel BY <2>3, Types DEF IInv, Row
  <2>5. \A v \in Workers : Handles(v, j)' =>
          \/ Handles(v, j) /\ work'[v] = work[v]
          \/ work'[v].pc = "claimed"
    BY <2>1 DEF Handles, Busy
  <2> QED BY <1>0, <2>1, <2>2, <2>4, <2>5 DEF Pending, Stopping
<1>3. ASSUME NEW w \in Workers, Restarts(w)
      PROVE  Pending(j)' /\ runs'[j] = runs[j]
  <2>1. /\ job'[j] = job[j] \/ job'[j] = Requeued(job[j])
        /\ \A v \in Workers : v # w => work'[v] = work[v]
        /\ ~Busy(w)' /\ UNCHANGED runs
    BY <1>3, RestTypes DEF IInv
  <2>2. job'[j].cancel /\ job'[j].status \in Stopping
    BY <1>0, <2>1 DEF Requeued, Stopping, Row
  <2>3. \A v \in Workers : Handles(v, j)' => Handles(v, j) /\ work'[v] = work[v]
    BY <2>1 DEF Handles, Busy
  <2> QED BY <2>1, <2>2, <2>3 DEF Pending
<1>4. ASSUME NEW c \in Clients, ClientStep(c) PROVE Pending(j)' /\ runs'[j] = runs[j]
  <2>1. UNCHANGED <<runs, requeued, work, crashes>> /\ Touched(j) BY <1>4, ClientTypes DEF IInv
  <2>2. job'[j].cancel /\ job'[j].status \in Stopping
    BY <1>0, <2>1 DEF Touched, Stopping
  <2> QED BY <2>1, <2>2 DEF Pending, Handles, Busy
<1>5. ASSUME NEW i \in Jobs, BeatGoesStale(i) PROVE Pending(j)' /\ runs'[j] = runs[j]
  <2>1. UNCHANGED <<runs, work>> /\ job' = [job EXCEPT ![i].beat = "stale"]
    BY <1>5 DEF BeatGoesStale
  <2>2. job'[j] = IF j = i THEN [job[j] EXCEPT !.beat = "stale"] ELSE job[j]
    BY <2>1, Types DEF IInv
  <2>3. job'[j].cancel /\ job'[j].status \in Stopping BY <1>0, <2>2 DEF Row
  <2> QED BY <2>1, <2>3 DEF Pending, Handles, Busy
<1>6. CASE UNCHANGED jobVars BY <1>6 DEF jobVars, Pending, Handles, Busy
<1>7. \A w \in Workers : WorkerStep(w) \/ StartWorker(w) \/ Crash(w)
        => Restarts(w) \/ Handling(w) \/ \E i \in Jobs : Claim(w, i)
  BY DEF WorkerStep, Handling, Restarts
<1> QED BY <1>1, <1>2, <1>3, <1>4, <1>5, <1>6, <1>7 DEF JobsNext

(* The safety half of PendingCancelWins, for every number of workers: if   *)
(* no scenario outlasts stale_after_seconds and no two workers start       *)
(* together, a queued job with a pending cancellation is never run again,  *)
(* whatever workers claim it, die with it or recover it, and cannot end    *)
(* but cancelled or failed.                                                *)
THEOREM PendingCancelIsKept ==
  ASSUME ~SlowScenarios, ~OverlappingRecovery, NEW j \in Jobs
  PROVE  JobsSpec => [](job[j].status = "queued" /\ job[j].cancel
                      => /\ [](job[j].status \in Stopping)
                         /\ [][runs'[j] = runs[j]]_jobVars)
<1>1. IInv /\ job[j].status = "queued" /\ job[j].cancel => Pending(j)
  <2> SUFFICES ASSUME IInv, job[j].status = "queued", job[j].cancel PROVE Pending(j)
    OBVIOUS
  <2>1. \A w \in Workers : ~Handles(w, j)
    BY HandlesBusy DEF IInv, HandledInv, Loaded, Claimed
  <2> QED BY <2>1 DEF Pending, Stopping
<1>2. IInv /\ [JobsNext]_jobVars /\ Pending(j) => Pending(j)' BY PendingStays
<1>3. IInv /\ [JobsNext]_jobVars /\ Pending(j) => [runs'[j] = runs[j]]_jobVars BY PendingStays
<1>4. Pending(j) => job[j].status \in Stopping BY DEF Pending
<1> QED BY <1>1, <1>2, <1>3, <1>4, Invariant, PTL DEF JobsSpec

-----------------------------------------------------------------------------
(* How much of run_once worker w has before it.                            *)
ToGo(p) == Selection - (p.finished + p.failed)

ToDo(p) ==
  CASE p.pc = "claimed"   -> 2 * Selection + 6
    [] p.pc = "preflight" -> 2 * Selection + 5
    [] p.pc = "starting"  -> 2 * Selection + 4
    [] p.pc = "between"   -> 2 * ToGo(p) + 3
    [] p.pc = "scenario"  -> 2 * ToGo(p) + 2
    [] p.pc = "returned"  -> 2
    [] p.pc = "finishing" -> 1
    [] OTHER              -> 0

Counted == \A w \in Workers : work[w].finished + work[w].failed <= Selection

LEMMA ToDoBounded ==
  ASSUME Selection \in Nat, NEW p \in Progress, p.finished + p.failed <= Selection
  PROVE  ToDo(p) \in Nat
<1>1. p.finished \in Nat /\ p.failed \in Nat /\ p.pc \in WorkPc BY DEF Progress
<1>2. ToGo(p) \in Nat BY <1>1 DEF ToGo
<1> HIDE DEF ToGo
<1> QED BY <1>1, <1>2 DEF ToDo, WorkPc

(* A step of w's own leads it closer to the end of run_once.               *)
Advances(w) ==
  /\ ToDo(work'[w]) < ToDo(work[w])
  /\ work'[w].finished + work'[w].failed <= Selection
  /\ \A v \in Workers : v # w => work'[v] = work[v]

LEMMA HandlingAdvances ==
  ASSUME TypeInv, Counted, NEW w \in Workers, Handling(w)
  PROVE  Advances(w)
<1>1. /\ work \in [Workers -> Progress] /\ work[w] \in Progress /\ Selection \in Nat
      /\ work[w].finished \in Nat /\ work[w].failed \in Nat
      /\ work[w].finished + work[w].failed <= Selection
  BY Types DEF Progress, Counted
<1>2. Busy(w) => ToDo(work[w]) > 0
  <2>1. ToGo(work[w]) \in Nat BY <1>1 DEF ToGo
  <2> HIDE DEF ToGo
  <2> QED BY <1>1, <2>1 DEF Busy, ToDo, Progress, WorkPc
<1>3. /\ ToDo(Rest("idle")) = 0 /\ Rest("idle").finished = 0 /\ Rest("idle").failed = 0
  BY DEF Rest, ToDo
<1>4. ASSUME Busy(w), work' = [work EXCEPT ![w] = Rest("idle")] PROVE Advances(w)
  <2>1. work'[w] = Rest("idle") /\ \A v \in Workers : v # w => work'[v] = work[v]
    BY <1>1, <1>4
  <2> HIDE DEF ToDo
  <2> QED BY <1>1, <1>2, <1>3, <1>4, <2>1 DEF Advances
<1>5. ASSUME NEW q \in Progress, work' = [work EXCEPT ![w] = q],
             q.finished + q.failed <= Selection, ToDo(q) < ToDo(work[w])
      PROVE  Advances(w)
  <2>1. work'[w] = q /\ \A v \in Workers : v # w => work'[v] = work[v]
    BY <1>1, <1>5
  <2> QED BY <1>5, <2>1 DEF Advances
<1>6. CASE LoadForPreflight(w) \/ LoadForFinish(w)
  <2>1. PICK to \in {"preflight", "finishing"},
             status \in {job[work[w].job].status}, cancel \in {job[work[w].job].cancel} :
          /\ work[w].pc = IF to = "preflight" THEN "claimed" ELSE "returned"
          /\ work' = [work EXCEPT ![w].pc = to, ![w].status = status, ![w].cancel = cancel]
    BY <1>6 DEF LoadForPreflight, LoadForFinish, Load
  <2>2. work'[w] = [work[w] EXCEPT !.pc = to, !.status = status, !.cancel = cancel]
    BY <1>1, <2>1
  <2>3. /\ work'[w].pc = to /\ work'[w].finished = work[w].finished
        /\ work'[w].failed = work[w].failed
    BY <1>1, <2>2 DEF Progress
  <2>4. ToDo(work'[w]) < ToDo(work[w]) BY <1>1, <2>1, <2>3 DEF ToDo
  <2>5. \A v \in Workers : v # w => work'[v] = work[v] BY <1>1, <2>1
  <2> HIDE DEF ToDo
  <2> QED BY <1>1, <2>3, <2>4, <2>5 DEF Advances
<1>7. ASSUME NEW passed \in BOOLEAN, CommitPreflight(w, passed) PROVE Advances(w)
  <2>1. Busy(w) /\ work[w].pc = "preflight" BY <1>7 DEF CommitPreflight, Busy
  <2>2. CASE work' = [work EXCEPT ![w] = Rest("idle")] BY <1>4, <2>1, <2>2
  <2>3. CASE work' = [work EXCEPT ![w] = [work[w] EXCEPT !.pc = "starting"]]
    <3> DEFINE q == [work[w] EXCEPT !.pc = "starting"]
    <3>1. /\ q \in Progress /\ q.pc = "starting" /\ q.finished = work[w].finished
          /\ q.failed = work[w].failed
      BY <1>1 DEF Progress, WorkPc
    <3>2. work' = [work EXCEPT ![w] = q] BY <2>3
    <3> HIDE DEF q
    <3>3. ToDo(q) < ToDo(work[w]) BY <1>1, <2>1, <3>1 DEF ToDo
    <3> QED BY <1>1, <1>5, <3>1, <3>2, <3>3
  <2> QED BY <1>1, <1>7, <2>2, <2>3 DEF CommitPreflight
<1>8. CASE CreateRun(w)
  <2>1. /\ work[w].pc = "starting"
        /\ work'[w] = [work[w] EXCEPT !.pc = "between", !.run = runs[work[w].job] + 1]
        /\ \A v \in Workers : v # w => work'[v] = work[v]
    BY <1>1, <1>8 DEF CreateRun
  <2>2. /\ work'[w].pc = "between" /\ work'[w].finished = work[w].finished
        /\ work'[w].failed = work[w].failed
    BY <1>1, <2>1 DEF Progress
  <2>3. ToDo(work[w]) = 2 * Selection + 4 BY <2>1 DEF ToDo
  <2>4. ToDo(work'[w]) = 2 * ToGo(work'[w]) + 3 BY <2>2 DEF ToDo
  <2>5. ToGo(work'[w]) \in Nat /\ ToGo(work'[w]) <= Selection BY <1>1, <2>2 DEF ToGo
  <2>6. ToDo(work'[w]) < ToDo(work[w]) BY <1>1, <2>3, <2>4, <2>5
  <2> QED BY <1>1, <2>1, <2>2, <2>6 DEF Advances
<1>9. CASE BeginScenario(w) \/ ReturnResult(w)
  <2>1. PICK pc \in {"scenario", "returned"}, cancelled \in {TRUE, work[w].cancelled} :
          /\ work[w].pc = "between"
          /\ work' = [work EXCEPT ![w].pc = pc, ![w].cancelled = cancelled]
    <3>1. CASE BeginScenario(w) /\ job[work[w].job].cancel BY <3>1 DEF BeginScenario
    <3>2. CASE ReturnResult(w) \/ (BeginScenario(w) /\ ~job[work[w].job].cancel)
      <4>1. PICK pc \in {"scenario", "returned"} :
              work[w].pc = "between" /\ work' = [work EXCEPT ![w].pc = pc]
        BY <3>2 DEF BeginScenario, ReturnResult
      <4>2. [work[w] EXCEPT !.pc = pc]
              = [work[w] EXCEPT !.pc = pc, !.cancelled = work[w].cancelled]
        BY <1>1 DEF Progress
      <4> QED BY <1>1, <4>1, <4>2
    <3> QED BY <1>9, <3>1, <3>2
  <2>2. /\ work'[w] = [work[w] EXCEPT !.pc = pc, !.cancelled = cancelled]
        /\ \A v \in Workers : v # w => work'[v] = work[v]
    BY <1>1, <2>1
  <2>3. /\ work'[w].pc = pc /\ work'[w].finished = work[w].finished
        /\ work'[w].failed = work[w].failed
    BY <1>1, <2>2 DEF Progress
  <2>4. ToDo(work[w]) = 2 * ToGo(work[w]) + 3 BY <2>1 DEF ToDo
  <2>5. ToGo(work[w]) \in Nat /\ ToGo(work'[w]) = ToGo(work[w]) BY <1>1, <2>3 DEF ToGo
  <2>6. ToDo(work'[w]) \in {2, 2 * ToGo(work'[w]) + 2} BY <2>3 DEF ToDo
  <2>7. ToDo(work'[w]) < ToDo(work[w]) BY <2>4, <2>5, <2>6
  <2> QED BY <1>1, <2>2, <2>3, <2>7 DEF Advances
<1>10. ASSUME NEW ok \in BOOLEAN, EndScenario(w, ok) PROVE Advances(w)
  <2> DEFINE finished == IF ok THEN work[w].finished + 1 ELSE work[w].finished
             failed == IF ok THEN work[w].failed ELSE work[w].failed + 1
  <2>1. /\ work[w].pc = "scenario"
        /\ work'[w] = [work[w] EXCEPT !.pc = "between", !.finished = finished,
                                      !.failed = failed]
        /\ \A v \in Workers : v # w => work'[v] = work[v]
    BY <1>1, <1>10 DEF EndScenario
  <2>2. finished + failed = work[w].finished + work[w].failed + 1 BY <1>1
  <2>3. work[w].finished + work[w].failed < Selection BY <2>1 DEF TypeInv, Existing
  <2>4. finished \in Nat /\ failed \in Nat BY <1>1
  <2> HIDE DEF finished, failed
  <2>5. /\ work'[w].pc = "between" /\ work'[w].finished = finished
        /\ work'[w].failed = failed
    BY <1>1, <2>1 DEF Progress
  <2>6. ToDo(work[w]) = 2 * ToGo(work[w]) + 2 BY <2>1 DEF ToDo
  <2>7. ToDo(work'[w]) = 2 * ToGo(work'[w]) + 3 BY <2>5 DEF ToDo
  <2>8. ToGo(work[w]) \in Nat /\ ToGo(work'[w]) = ToGo(work[w]) - 1
    BY <1>1, <2>2, <2>3, <2>4, <2>5 DEF ToGo
  <2>9. ToDo(work'[w]) < ToDo(work[w]) BY <2>6, <2>7, <2>8
  <2>10. work'[w].finished + work'[w].failed <= Selection BY <1>1, <2>2, <2>3, <2>4, <2>5
  <2> QED BY <2>1, <2>9, <2>10 DEF Advances
<1>11. CASE CommitFinish(w) \/ FailJob(w)
  BY <1>4, <1>11 DEF CommitFinish, FailJob, Busy
<1> QED BY <1>6, <1>7, <1>8, <1>9, <1>10, <1>11 DEF Handling

LEMMA CountedNext ==
  ASSUME TypeInv, Counted, [JobsNext]_jobVars
  PROVE  Counted'
<1>1. work \in [Workers -> Progress] BY Types
<1>2. \A pc \in WorkPc : \A j \in 0..MaxJobs :
        /\ Rest(pc).finished + Rest(pc).failed <= Selection
        /\ LET p == [Rest(pc) EXCEPT !.job = j] IN p.finished + p.failed <= Selection
  BY Types DEF Rest
<1>3. ASSUME NEW w \in Workers, NEW q, work' = [work EXCEPT ![w] = q],
             q.finished + q.failed <= Selection
      PROVE  Counted'
  BY <1>1, <1>3 DEF Counted
<1>4. ASSUME NEW w \in Workers, Handling(w) \/ (\E j \in Jobs : Claim(w, j)) \/ Restarts(w)
      PROVE  Counted'
  <2>1. CASE Handling(w) BY <2>1, HandlingAdvances DEF Advances, Counted
  <2>2. ASSUME NEW j \in Jobs, Claim(w, j) PROVE Counted'
    <3>1. work' = [work EXCEPT ![w] = [Rest("claimed") EXCEPT !.job = j]]
      BY <2>2 DEF Claim
    <3>2. j \in 0..MaxJobs /\ "claimed" \in WorkPc BY Types DEF Jobs, WorkPc
    <3> QED BY <1>2, <1>3, <3>1, <3>2
  <2>3. CASE Restarts(w)
    <3>1. PICK q : work' = [work EXCEPT ![w] = q] /\ q.finished = 0 /\ q.failed = 0
      BY <2>3 DEF Restarts, StartWorker, CommitRecovery, Crash, Rest
    <3>2. q.finished + q.failed <= Selection BY <3>1, Types
    <3> QED BY <1>3, <3>1, <3>2
  <2> QED BY <1>4, <2>1, <2>2, <2>3
<1>5. ASSUME NEW c \in Clients, ClientStep(c) PROVE Counted'
  BY <1>5, ClientTypes DEF Counted
<1>6. ASSUME NEW j \in Jobs, BeatGoesStale(j) PROVE Counted'
  BY <1>6 DEF BeatGoesStale, Counted
<1>7. CASE UNCHANGED jobVars BY <1>7 DEF jobVars, Counted
<1>8. \A w \in Workers : WorkerStep(w) \/ StartWorker(w) \/ Crash(w)
        => Handling(w) \/ (\E j \in Jobs : Claim(w, j)) \/ Restarts(w)
  BY DEF WorkerStep, Handling, Restarts
<1> QED BY <1>4, <1>5, <1>6, <1>7, <1>8 DEF JobsNext

(* What worker w has in hand it works off, and ends, unless it dies.       *)
WorksOff(w) ==
  Busy(w) /\ work'[w] # work[w] =>
    \/ work'[w].pc = "down" /\ crashes' = crashes + 1
    \/ /\ ToDo(work'[w]) < ToDo(work[w])
       /\ Busy(w)' => work'[w].job = work[w].job
       /\ ~Busy(w)' => job'[work[w].job].status \in Final

LEMMA StepWorksOff ==
  ASSUME IInv, Counted, [JobsNext]_jobVars, NEW w \in Workers
  PROVE  WorksOff(w)
<1> SUFFICES ASSUME Busy(w), work'[w] # work[w]
             PROVE  \/ work'[w].pc = "down" /\ crashes' = crashes + 1
                    \/ /\ ToDo(work'[w]) < ToDo(work[w])
                       /\ Busy(w)' => work'[w].job = work[w].job
                       /\ ~Busy(w)' => job'[work[w].job].status \in Final
  BY DEF WorksOff
<1>1. PICK v \in Workers : Handling(v) \/ (\E j \in Jobs : Claim(v, j)) \/ Restarts(v)
  <2>1. \A c \in Clients : ClientStep(c) => UNCHANGED work BY ClientTypes DEF IInv
  <2>2. PICK v \in Workers : WorkerStep(v) \/ StartWorker(v) \/ Crash(v)
    BY <2>1 DEF JobsNext, jobVars, BeatGoesStale
  <2> QED BY <2>2 DEF WorkerStep, Handling, Restarts
<1>2. v = w
  <2>1. \A j \in Jobs : Claim(v, j) => work'[w] = work[w] \/ v = w
    BY ClaimTypes DEF IInv
  <2>2. Restarts(v) => work'[w] = work[w] \/ v = w
    BY RestTypes DEF IInv
  <2>3. Handling(v) => work'[w] = work[w] \/ v = w
    BY HandlingAdvances DEF IInv, Advances
  <2> QED BY <1>1, <2>1, <2>2, <2>3
<1>3. ~StartWorker(w) /\ ~CommitRecovery(w) /\ \A j \in Jobs : ~Claim(w, j)
  BY DEF Busy, StartWorker, CommitRecovery, Claim
<1>4. CASE Crash(w)
  <2>1. work'[w] = Rest("down") /\ crashes' = crashes + 1
    BY <1>4, Types DEF IInv, Crash
  <2> QED BY <2>1, Resting DEF WorkPc
<1>5. CASE Handling(w)
  <2>1. ToDo(work'[w]) < ToDo(work[w]) BY <1>5, HandlingAdvances DEF IInv, Advances
  <2>2. PICK r, p : Turn(w, r, p) /\ Sound(w, r, p)
    BY <1>5, HandlingTurns DEF IInv, Turns
  <2>3. /\ work' = [work EXCEPT ![w] = p] /\ job' = [job EXCEPT ![work[w].job] = r]
        /\ p.pc \notin {"down", "recovering", "idle"} => p.job = work[w].job
        /\ p.pc \in {"down", "recovering", "idle"} => r.status \in Final
    BY <2>2 DEF Turn, Sound
  <2>4. work'[w] = p /\ job'[work[w].job] = r BY <2>3, Types DEF IInv
  <2> QED BY <2>1, <2>3, <2>4 DEF Busy
<1> QED BY <1>1, <1>2, <1>3, <1>4, <1>5 DEF Restarts

(* The safety half of JobsEnd: what a worker that claimed a job has left   *)
(* to do is a number that goes down with every change of the worker's      *)
(* state, and when it lets go of the job, the job has ended; only a crash  *)
(* of the worker comes in between (no scenario outlasting                  *)
(* stale_after_seconds, no two workers starting together).                 *)
THEOREM WorkersUseUpTheirScenarios ==
  ASSUME ~SlowScenarios, ~OverlappingRecovery
  PROVE  JobsSpec => /\ [](\A w \in Workers : ToDo(work[w]) \in Nat)
                 /\ [][\A w \in Workers : WorksOff(w)]_jobVars
<1>1. JobsInit => IInv /\ Counted
  <2>1. JobsInit => Counted BY JobsAssumption DEF JobsInit, Counted, Rest, JobsAssumption
  <2> QED BY <2>1, InitInv
<1>2. (IInv /\ Counted) /\ [JobsNext]_jobVars => (IInv /\ Counted)'
  BY InvNext, CountedNext DEF IInv
<1>3. IInv /\ Counted => \A w \in Workers : ToDo(work[w]) \in Nat
  BY ToDoBounded, Types DEF IInv, Counted
<1>4. (IInv /\ Counted) /\ [JobsNext]_jobVars => [\A w \in Workers : WorksOff(w)]_jobVars
  BY StepWorksOff
<1> QED BY <1>1, <1>2, <1>3, <1>4, PTL DEF JobsSpec

-----------------------------------------------------------------------------
(* The quota.  A job a worker has in hand may count again: the worker can  *)
(* write running over cancelled.                                           *)
HandledJobs == {j \in Jobs : \E w \in Workers : Handles(w, j)}

(* Of the workspaces V: the jobs that count or may do so again, and the    *)
(* requests that have passed the check and not yet inserted their job.     *)
ActiveOf(V) == {j \in Jobs : job[j].status \in ACTIVE_STATUSES /\ job[j].workspace \in V}
Underway(V) ==
  {j \in Jobs : /\ job[j].status \in ACTIVE_STATUSES \/ j \in HandledJobs
                /\ job[j].workspace \in V}
Creating(V) == {c \in Clients : call[c].pc = "create" /\ call[c].workspace \in V}

Quota(V, limit) ==
  Cardinality(Underway(V)) + Cardinality(Creating(V))
    < limit + Cardinality(Clients) + Cardinality(Workers)

(* No starting worker has found a claim to recover.                        *)
NothingFound == \A w \in Workers : work[w].found = {}

LEMMA HandledJobsBounded ==
  ASSUME IsFiniteSet(Workers)
  PROVE  IsFiniteSet(HandledJobs) /\ Cardinality(HandledJobs) <= Cardinality(Workers)
<1> DEFINE f == [j \in HandledJobs |-> CHOOSE w \in Workers : Handles(w, j)]
<1>1. \A j \in HandledJobs : f[j] \in Workers /\ Handles(f[j], j) BY DEF HandledJobs
<1>2. \A j \in HandledJobs : work[f[j]].job = j BY <1>1 DEF Handles, Busy
<1>3. f \in [HandledJobs -> Workers] BY <1>1
<1> HIDE DEF f
<1>4. f \in Injection(HandledJobs, Workers) BY <1>2, <1>3 DEF Injection, IsInjective
<1> QED BY <1>4, FS_Injection

LEMMA SetsFinite ==
  ASSUME TypeInv, IsFiniteSet(Clients), NEW V
  PROVE  /\ IsFiniteSet(Underway(V)) /\ Cardinality(Underway(V)) \in Nat
         /\ IsFiniteSet(Creating(V)) /\ Cardinality(Creating(V)) \in Nat
         /\ IsFiniteSet(ActiveOf(V)) /\ Cardinality(ActiveOf(V)) \in Nat
         /\ Cardinality(Creating(V)) <= Cardinality(Clients)
<1>1. IsFiniteSet(Jobs) BY Types, FS_Interval DEF Jobs
<1>2. Underway(V) \subseteq Jobs /\ ActiveOf(V) \subseteq Jobs /\ Creating(V) \subseteq Clients
  BY DEF Underway, ActiveOf, Creating
<1> QED BY <1>1, <1>2, FS_Subset, FS_CardinalityType

LEMMA StoreKeepsWorkspace ==
  ASSUME NEW row \in Row, NEW w, NEW status
  PROVE  Store(w, row, status).workspace = row.workspace
BY DEF Store, Row

(* A job stays in its workspace.                                           *)
LEMMA HandlingKeepsWorkspace ==
  ASSUME TypeInv, NEW w \in Workers, Handling(w), NEW j \in Jobs
  PROVE  job'[j].workspace = job[j].workspace
<1>1. job \in [Jobs -> Row] /\ job[j] \in Row BY Types
<1>2. CASE UNCHANGED job BY <1>2
<1>3. ASSUME NEW passed \in BOOLEAN, CommitPreflight(w, passed)
      PROVE  job'[j].workspace = job[j].workspace
  <2>1. PICK status : job' = [job EXCEPT ![work[w].job] = Store(w, @, status)]
    BY <1>3 DEF CommitPreflight
  <2>2. job'[j] = IF j = work[w].job THEN Store(w, job[j], status) ELSE job[j]
    BY <1>1, <2>1
  <2> QED BY <1>1, <2>2, StoreKeepsWorkspace
<1>4. CASE BeginScenario(w) \/ \E ok \in BOOLEAN : EndScenario(w, ok)
  <2>1. UNCHANGED job \/ job' = [job EXCEPT ![work[w].job].beat = "fresh"]
    BY <1>4 DEF BeginScenario, EndScenario
  <2>2. job'[j] = job[j] \/ job'[j] = [job[j] EXCEPT !.beat = "fresh"] BY <1>1, <2>1
  <2> QED BY <1>1, <2>2 DEF Row
<1>5. CASE CommitFinish(w)
  <2>1. PICK status, run :
          job' = [job EXCEPT ![work[w].job] =
                    [Store(w, job[work[w].job], status) EXCEPT !.run = run]]
    <3> DEFINE i == work[w].job
               stopped == work[w].cancelled \/ work[w].cancel
               status == IF stopped THEN "cancelled"
                         ELSE IF work[w].failed > 0 THEN "partially_completed" ELSE "completed"
               stored == Store(w, job[i], status)
               run == IF stopped THEN stored.run ELSE work[w].run
    <3>1. job' = [job EXCEPT ![i] = [stored EXCEPT !.run = run]]
      BY <1>5, Zenon DEF CommitFinish
    <3> HIDE DEF status, run
    <3> QED BY <3>1
  <2>2. job'[j] = IF j = work[w].job THEN [Store(w, job[j], status) EXCEPT !.run = run] ELSE job[j]
    BY <1>1, <2>1
  <2>3. [Store(w, job[j], status) EXCEPT !.run = run].workspace = job[j].workspace
    BY <1>1 DEF Store, Row
  <2> QED BY <2>2, <2>3
<1>6. CASE FailJob(w)
  <2>1. job' = [job EXCEPT ![work[w].job].status = "failed"] BY <1>6 DEF FailJob
  <2>2. job'[j] = job[j] \/ job'[j] = [job[j] EXCEPT !.status = "failed"] BY <1>1, <2>1
  <2> QED BY <1>1, <2>2 DEF Row
<1> QED BY <1>2, <1>3, <1>4, <1>5, <1>6 DEF Handling, LoadForPreflight, LoadForFinish, Load,
           CreateRun, ReturnResult

LEMMA WorkspaceStays ==
  ASSUME TypeInv, [JobsNext]_jobVars, NEW j \in Jobs, job[j].status # "absent"
  PROVE  job'[j].workspace = job[j].workspace
<1>1. job \in [Jobs -> Row] /\ job[j] \in Row BY Types
<1>2. ASSUME NEW w \in Workers, NEW i \in Jobs, Claim(w, i)
      PROVE  job'[j].workspace = job[j].workspace
  <2>1. job' = [job EXCEPT ![i].status = "preflight", ![i].beat = "fresh"] BY <1>2 DEF Claim
  <2>2. job'[j] = job[j] \/ job'[j] = [job[j] EXCEPT !.status = "preflight", !.beat = "fresh"]
    BY <1>1, <2>1
  <2> QED BY <1>1, <2>2 DEF Row
<1>3. ASSUME NEW w \in Workers, Restarts(w)
      PROVE  job'[j].workspace = job[j].workspace
  <2>1. job'[j] = job[j] \/ job'[j] = Requeued(job[j]) BY <1>3, RestTypes
  <2> QED BY <1>1, <2>1 DEF Requeued, Row
<1>4. ASSUME NEW i \in Jobs, BeatGoesStale(i) PROVE job'[j].workspace = job[j].workspace
  <2>1. job' = [job EXCEPT ![i].beat = "stale"] BY <1>4 DEF BeatGoesStale
  <2>2. job'[j] = job[j] \/ job'[j] = [job[j] EXCEPT !.beat = "stale"] BY <1>1, <2>1
  <2> QED BY <1>1, <2>2 DEF Row
<1>5. ASSUME NEW c \in Clients, CommitCancel(c) PROVE job'[j].workspace = job[j].workspace
  <2>1. PICK status : job' = [job EXCEPT ![call[c].job] =
                                [@ EXCEPT !.cancel = TRUE, !.status = status]]
    <3> DEFINE i == call[c].job
               status == IF call[c].status = "queued" THEN "cancelled" ELSE job[i].status
    <3>1. /\ i \in Jobs
          /\ job' = [job EXCEPT ![i].cancel = TRUE,
                                ![i].status = IF call[c].status = "queued" THEN "cancelled" ELSE @]
      BY <1>5 DEF CommitCancel, TypeInv, Existing
    <3>2. job[i] \in Row BY <3>1, Types
    <3>3. job' = [job EXCEPT ![i] = [@ EXCEPT !.cancel = TRUE, !.status = status]]
      BY <1>1, <3>1, <3>2 DEF Row
    <3> QED BY <3>3
  <2>2. job'[j] = job[j] \/ job'[j] = [job[j] EXCEPT !.cancel = TRUE, !.status = status]
    BY <1>1, <2>1
  <2> QED BY <1>1, <2>2 DEF Row
<1>6. ASSUME NEW c \in Clients, InsertJob(c) PROVE job'[j].workspace = job[j].workspace
  <2> DEFINE Lowest(k) == job[k].status = "absent" /\ \A i \in 1..(k - 1) : job[i].status # "absent"
             new == CHOOSE k \in Jobs : Lowest(k)
             r == [NoRow EXCEPT !.status = "queued", !.workspace = call[c].workspace,
                                !.parent = call[c].parent]
  <2>1. /\ ActiveJobs({"absent"}) # {} /\ job' = [job EXCEPT ![new] = r]
    BY <1>6, Zenon DEF InsertJob
  <2>2. \E k \in Jobs : Lowest(k)
    <3>1. PICK n \in 0..MaxJobs : Created(n) BY DEF TypeInv
    <3>2. MaxJobs \in Nat BY Types
    <3>3. PICK k \in Jobs : job[k].status = "absent" BY <2>1 DEF ActiveJobs
    <3>4. n < k BY <3>1, <3>2, <3>3 DEF Created, Jobs
    <3>5. n + 1 \in Jobs BY <3>1, <3>2, <3>4 DEF Jobs
    <3>6. job[n + 1].status = "absent" BY <3>1, <3>5 DEF Created, Jobs
    <3>7. \A i \in 1..(n + 1 - 1) : i \in Jobs /\ ~(i > n) BY <3>1, <3>2 DEF Jobs
    <3> QED BY <3>1, <3>5, <3>6, <3>7 DEF Created
  <2>3. Lowest(new) BY <2>2, Zenon
  <2> HIDE DEF new, r
  <2>4. new # j BY <2>3
  <2> QED BY <1>1, <2>1, <2>4
<1>7. ASSUME NEW c \in Clients, ClientStep(c) PROVE job'[j].workspace = job[j].workspace
  <2>1. UNCHANGED job \/ CommitCancel(c) \/ InsertJob(c)
    BY <1>7 DEF ClientStep, CheckLimits, Retry, LoadForCancel
  <2> QED BY <1>5, <1>6, <2>1
<1>8. CASE UNCHANGED jobVars BY <1>8 DEF jobVars
<1>9. \A w \in Workers : WorkerStep(w) \/ StartWorker(w) \/ Crash(w)
        => Restarts(w) \/ Handling(w) \/ \E i \in Jobs : Claim(w, i)
  BY DEF WorkerStep, Handling, Restarts
<1> QED BY <1>2, <1>3, <1>4, <1>7, <1>8, <1>9, HandlingKeepsWorkspace DEF JobsNext

(* Only a new job comes under way: what worker or recovery make active,    *)
(* was so or is a worker's.                                                *)
Came(j) ==
  /\ job'[j].status \in ACTIVE_STATUSES \/ \E w \in Workers : Handles(w, j)'
  /\ ~(job[j].status \in ACTIVE_STATUSES \/ \E w \in Workers : Handles(w, j))

LEMMA OnlyInsertedCome ==
  ASSUME TypeInv, NothingFound, [JobsNext]_jobVars, NEW j \in Jobs, Came(j)
  PROVE  \E c \in Clients : InsertJob(c) /\ ClientStep(c) /\ job'[j] # job[j]
<1>1. ASSUME NEW w \in Workers, Handling(w) PROVE FALSE
  <2>1. PICK r, p : Turn(w, r, p) BY <1>1, HandlingTurns DEF Turns
  <2>2. /\ Busy(w) /\ job' = [job EXCEPT ![work[w].job] = r] /\ work' = [work EXCEPT ![w] = p]
        /\ p.pc \notin {"down", "recovering", "idle"} => p.job = work[w].job
    BY <2>1 DEF Turn
  <2>3. work[w].job # j BY <2>2, HandlesBusy DEF Came
  <2>4. /\ job'[j] = job[j] /\ work'[w] = p /\ \A v \in Workers : v # w => work'[v] = work[v]
    BY <2>2, <2>3, Types
  <2>5. \A v \in Workers : Handles(v, j)' => Handles(v, j) BY <2>2, <2>3, <2>4 DEF Handles, Busy
  <2> QED BY <2>4, <2>5 DEF Came
<1>2. ASSUME NEW w \in Workers, NEW i \in Jobs, Claim(w, i) PROVE FALSE
  <2>1. /\ \A k \in Jobs : k # i => job'[k] = job[k]
        /\ work'[w].job = i /\ \A v \in Workers : v # w => work'[v] = work[v]
    BY <1>2, ClaimTypes
  <2>2. job[i].status \in ACTIVE_STATUSES BY <1>2 DEF Claim, ACTIVE_STATUSES
  <2>3. j # i BY <2>2 DEF Came
  <2>4. \A v \in Workers : Handles(v, j)' => Handles(v, j) BY <2>1, <2>3 DEF Handles, Busy
  <2> QED BY <2>1, <2>3, <2>4 DEF Came
<1>3. ASSUME NEW w \in Workers, Restarts(w) PROVE FALSE
  <2>1. /\ job'[j] = job[j] /\ ~Busy(w)'
        /\ \A v \in Workers : v # w => work'[v] = work[v]
    BY <1>3, RestTypes DEF NothingFound
  <2>2. \A v \in Workers : Handles(v, j)' => Handles(v, j) BY <2>1 DEF Handles, Busy
  <2> QED BY <2>1, <2>2 DEF Came
<1>4. ASSUME NEW i \in Jobs, BeatGoesStale(i) PROVE FALSE
  <2>1. job'[j].status = job[j].status /\ UNCHANGED work
    BY <1>4, StaleTypes DEF BeatGoesStale
  <2> QED BY <2>1 DEF Came, Handles, Busy
<1>5. ASSUME NEW c \in Clients, ClientStep(c)
      PROVE  InsertJob(c) /\ job'[j] # job[j]
  <2>1. UNCHANGED work /\ Touched(j) BY <1>5, ClientTypes
  <2>2. job[j].status = "absent" /\ job'[j].status = "queued"
    BY <2>1 DEF Came, Handles, Busy, Touched, ACTIVE_STATUSES, Claimed
  <2>3. ~CommitCancel(c)
    <3> SUFFICES ASSUME CommitCancel(c) PROVE FALSE OBVIOUS
    <3>1. job' = [job EXCEPT ![call[c].job].cancel = TRUE,
                    ![call[c].job].status = IF call[c].status = "queued" THEN "cancelled" ELSE @]
          /\ job[call[c].job].status # "absent"
      BY DEF CommitCancel, TypeInv, Existing
    <3> QED BY <2>2, <3>1, Types
  <2> QED BY <1>5, <2>2, <2>3 DEF ClientStep, CheckLimits, Retry, LoadForCancel
<1>6. CASE UNCHANGED jobVars BY <1>6 DEF jobVars, Came, Handles, Busy
<1>7. \A w \in Workers : WorkerStep(w) \/ StartWorker(w) \/ Crash(w)
        => Restarts(w) \/ Handling(w) \/ \E i \in Jobs : Claim(w, i)
  BY DEF WorkerStep, Handling, Restarts
<1> QED BY <1>1, <1>2, <1>3, <1>4, <1>5, <1>6, <1>7 DEF JobsNext

LEMMA UnderwayGrowsByOne ==
  ASSUME TypeInv, NothingFound, [JobsNext]_jobVars, NEW V
  PROVE  \/ Underway(V)' \subseteq Underway(V)
         \/ \E c \in Creating(V), j \in Jobs :
              InsertJob(c) /\ Underway(V)' \subseteq Underway(V) \cup {j}
<1>1. ASSUME NEW j \in Jobs, j \in Underway(V)', j \notin Underway(V) PROVE Came(j)
  <2>1. /\ job'[j].status \in ACTIVE_STATUSES \/ \E w \in Workers : Handles(w, j)'
        /\ job'[j].workspace \in V
    BY <1>1 DEF Underway, HandledJobs
  <2>2. CASE job[j].status # "absent"
    BY <1>1, <2>1, <2>2, WorkspaceStays DEF Underway, HandledJobs, Came
  <2>3. CASE job[j].status = "absent"
    <3>1. \A w \in Workers : ~Handles(w, j) BY <2>3, HandlesBusy DEF TypeInv, Existing
    <3> QED BY <2>1, <2>3, <3>1 DEF Came, ACTIVE_STATUSES, Claimed
  <2> QED BY <2>2, <2>3
<1>2. Underway(V)' \subseteq Jobs BY DEF Underway
<1>3. CASE Underway(V)' \subseteq Underway(V) BY <1>3
<1>4. CASE ~(Underway(V)' \subseteq Underway(V))
  <2>1. PICK i \in Jobs : i \in Underway(V)' /\ i \notin Underway(V) BY <1>2, <1>4
  <2>2. PICK c \in Clients : InsertJob(c) /\ ClientStep(c) /\ job'[i] # job[i]
    BY <1>1, <2>1, OnlyInsertedCome
  <2> DEFINE new == CHOOSE k \in Jobs :
               job[k].status = "absent" /\ \A m \in 1..(k - 1) : job[m].status # "absent"
             r == [NoRow EXCEPT !.status = "queued", !.workspace = call[c].workspace,
                                !.parent = call[c].parent]
  <2>3. call[c].pc = "create" /\ job' = [job EXCEPT ![new] = r] BY <2>2, Zenon DEF InsertJob
  <2>4. r.workspace = call[c].workspace BY DEF NoRow
  <2> HIDE DEF new, r
  <2>5. \A k \in Jobs : job'[k] = IF k = new THEN r ELSE job[k] BY <2>3, Types
  <2>6. i = new BY <2>2, <2>5
  <2>7. call[c].workspace \in V
    <3>1. job'[i].workspace \in V BY <2>1 DEF Underway
    <3> QED BY <2>4, <2>5, <2>6, <3>1
  <2>8. UNCHANGED work BY <2>2 DEF InsertJob
  <2>9. \A k \in Jobs : k # i => (k \in Underway(V)' <=> k \in Underway(V))
    BY <2>5, <2>6, <2>8 DEF Underway, HandledJobs, Handles, Busy
  <2>10. Underway(V)' \subseteq Underway(V) \cup {i} BY <1>2, <2>9
  <2> QED BY <2>2, <2>3, <2>7, <2>10 DEF Creating
<1> QED BY <1>3, <1>4

(* Only a request that passed the check begins to create.                  *)
LEMMA CreatingGrowsByCheck ==
  ASSUME TypeInv, [JobsNext]_jobVars, NEW V
  PROVE  \/ Creating(V)' \subseteq Creating(V)
         \/ UNCHANGED <<job, work>> /\ \E workspace \in V : WithinConcurrency(workspace)
<1>1. call \in [Clients -> Request] BY Types
<1>2. CASE UNCHANGED call BY <1>2 DEF Creating
<1>3. ASSUME NEW c \in Clients, NEW workspace, NEW parent, CheckLimits(c, workspace, parent)
      PROVE  \/ Creating(V)' \subseteq Creating(V)
             \/ UNCHANGED <<job, work>> /\ \E ws \in V : WithinConcurrency(ws)
  <2>1. /\ UNCHANGED <<job, work>> /\ WithinConcurrency(workspace)
        /\ call' = [call EXCEPT ![c] = [NoCall EXCEPT !.pc = "create",
                       !.workspace = workspace, !.parent = parent]]
    BY <1>3 DEF CheckLimits
  <2>2. CASE workspace \in V BY <2>1, <2>2
  <2>3. CASE workspace \notin V
    <3>1. call'[c].workspace = workspace /\ \A d \in Clients : d # c => call'[d] = call[d]
      BY <1>1, <2>1 DEF NoCall
    <3> QED BY <2>3, <3>1 DEF Creating
  <2> QED BY <2>2, <2>3
<1>4. ASSUME NEW c \in Clients, NEW request, request.pc # "create",
             call' = [call EXCEPT ![c] = request]
      PROVE  Creating(V)' \subseteq Creating(V)
  BY <1>1, <1>4 DEF Creating
<1>5. ASSUME NEW c \in Clients, ClientStep(c)
      PROVE  \/ Creating(V)' \subseteq Creating(V)
             \/ UNCHANGED <<job, work>> /\ \E ws \in V : WithinConcurrency(ws)
  <2>1. CASE InsertJob(c) \/ CommitCancel(c)
    <3>1. call' = [call EXCEPT ![c] = NoCall] BY <2>1, Zenon DEF InsertJob, CommitCancel
    <3> QED BY <1>4, <3>1 DEF NoCall
  <2>2. ASSUME NEW j \in Jobs, LoadForCancel(c, j) PROVE Creating(V)' \subseteq Creating(V)
    <3> DEFINE request == [NoCall EXCEPT !.pc = "cancel", !.job = j, !.status = job[j].status]
    <3>1. call' = [call EXCEPT ![c] = request] BY <2>2 DEF LoadForCancel
    <3>2. request.pc # "create" BY DEF NoCall
    <3> QED BY <1>4, <3>1, <3>2
  <2> QED BY <1>3, <1>5, <2>1, <2>2 DEF ClientStep, Retry
<1>6. ASSUME NEW w \in Workers, Restarts(w) \/ (\E j \in Jobs : Claim(w, j)) \/ Handling(w)
      PROVE  UNCHANGED call
  <2>1. Handling(w) => UNCHANGED call
    <3>1. Handling(w) => \E r, p : Turn(w, r, p) BY HandlingTurns DEF Turns
    <3> QED BY <3>1 DEF Turn
  <2> QED BY <1>6, <2>1, RestTypes DEF Claim
<1>7. \A w \in Workers : WorkerStep(w) \/ StartWorker(w) \/ Crash(w)
        => Restarts(w) \/ (\E j \in Jobs : Claim(w, j)) \/ Handling(w)
  BY DEF WorkerStep, Handling, Restarts
<1> QED BY <1>2, <1>5, <1>6, <1>7 DEF JobsNext, jobVars, BeatGoesStale

LEMMA QuotaNext ==
  ASSUME TypeInv, NothingFound, [JobsNext]_jobVars, IsFiniteSet(Clients), IsFiniteSet(Workers),
         NEW V, NEW limit \in Nat, Quota(V, limit),
         \A workspace \in V : WithinConcurrency(workspace) => Cardinality(ActiveOf(V)) < limit
  PROVE  Quota(V, limit)'
<1>1. /\ Cardinality(Clients) \in Nat /\ Cardinality(Workers) \in Nat
      /\ Cardinality(HandledJobs) \in Nat /\ IsFiniteSet(HandledJobs)
      /\ Cardinality(HandledJobs) <= Cardinality(Workers)
  BY HandledJobsBounded, FS_CardinalityType
<1>2. /\ IsFiniteSet(Underway(V)) /\ Cardinality(Underway(V)) \in Nat
      /\ IsFiniteSet(Creating(V)) /\ Cardinality(Creating(V)) \in Nat
      /\ IsFiniteSet(ActiveOf(V)) /\ Cardinality(ActiveOf(V)) \in Nat
  BY SetsFinite
<1>3. TypeInv' BY TypeNext
<1>4. /\ IsFiniteSet(Underway(V)') /\ Cardinality(Underway(V)') \in Nat
      /\ IsFiniteSet(Creating(V)') /\ Cardinality(Creating(V)') \in Nat
      /\ Cardinality(Creating(V)') <= Cardinality(Clients)
  <2>1. IsFiniteSet(Jobs) BY Types, FS_Interval DEF Jobs
  <2>2. Underway(V)' \subseteq Jobs /\ Creating(V)' \subseteq Clients
    BY DEF Underway, Creating
  <2> QED BY <2>1, <2>2, FS_Subset, FS_CardinalityType
<1> SUFFICES Cardinality(Underway(V)') + Cardinality(Creating(V)')
               < limit + Cardinality(Clients) + Cardinality(Workers)
  BY DEF Quota
<1>5. Cardinality(Underway(V)) + Cardinality(Creating(V))
        < limit + Cardinality(Clients) + Cardinality(Workers)
  BY DEF Quota
<1>6. CASE UNCHANGED <<job, work>> /\ \E workspace \in V : WithinConcurrency(workspace)
  <2>1. Cardinality(ActiveOf(V)) < limit BY <1>6
  <2>2. Underway(V)' = Underway(V) BY <1>6 DEF Underway, HandledJobs, Handles, Busy
  <2>3. Underway(V) \subseteq ActiveOf(V) \cup HandledJobs BY DEF Underway, ActiveOf
  <2>4. /\ IsFiniteSet(ActiveOf(V) \cup HandledJobs)
        /\ Cardinality(ActiveOf(V) \cup HandledJobs)
             = Cardinality(ActiveOf(V)) + Cardinality(HandledJobs)
                 - Cardinality(ActiveOf(V) \cap HandledJobs)
    BY <1>1, <1>2, FS_Union
  <2>5. Cardinality(ActiveOf(V) \cap HandledJobs) \in Nat
    BY <1>2, FS_Subset, FS_CardinalityType
  <2>6. Cardinality(Underway(V)) <= Cardinality(ActiveOf(V) \cup HandledJobs)
    BY <2>3, <2>4, FS_Subset
  <2> QED BY <1>1, <1>2, <1>4, <2>1, <2>2, <2>4, <2>5, <2>6
<1>7. CASE Creating(V)' \subseteq Creating(V)
  <2>1. Cardinality(Creating(V)') <= Cardinality(Creating(V)) BY <1>2, <1>7, FS_Subset
  <2>2. CASE Underway(V)' \subseteq Underway(V)
    <3>1. Cardinality(Underway(V)') <= Cardinality(Underway(V)) BY <1>2, <2>2, FS_Subset
    <3> QED BY <1>1, <1>2, <1>4, <1>5, <2>1, <3>1
  <2>3. ASSUME NEW c \in Creating(V), NEW j \in Jobs, InsertJob(c),
               Underway(V)' \subseteq Underway(V) \cup {j}
        PROVE  Cardinality(Underway(V)') + Cardinality(Creating(V)')
                 <= Cardinality(Underway(V)) + Cardinality(Creating(V))
    <3>1. /\ IsFiniteSet(Underway(V) \cup {j})
          /\ Cardinality(Underway(V) \cup {j}) <= Cardinality(Underway(V)) + 1
      <4>1. /\ IsFiniteSet(Underway(V) \cup {j})
            /\ Cardinality(Underway(V) \cup {j})
                 \in {Cardinality(Underway(V)), Cardinality(Underway(V)) + 1}
        BY <1>2, FS_AddElement, Zenon
      <4> QED BY <1>2, <4>1
    <3>2. Cardinality(Underway(V)') <= Cardinality(Underway(V)) + 1
      <4>1. Cardinality(Underway(V)') <= Cardinality(Underway(V) \cup {j})
        BY <2>3, <3>1, FS_Subset
      <4>2. Cardinality(Underway(V) \cup {j}) \in Nat BY <3>1, FS_CardinalityType
      <4> QED BY <1>2, <1>4, <3>1, <4>1, <4>2
    <3>3. c \in Clients /\ call' = [call EXCEPT ![c] = NoCall]
      BY <2>3, Zenon DEF InsertJob, Creating
    <3>4. call'[c].pc = "idle" BY <3>3, Types DEF NoCall
    <3>5. Creating(V)' \subseteq Creating(V) \ {c} BY <1>7, <3>4 DEF Creating
    <3>6. /\ IsFiniteSet(Creating(V) \ {c})
          /\ Cardinality(Creating(V) \ {c}) = Cardinality(Creating(V)) - 1
      BY <1>2, <2>3, FS_RemoveElement
    <3>7. Cardinality(Creating(V)') <= Cardinality(Creating(V)) - 1
      BY <3>5, <3>6, FS_Subset
    <3> QED BY <1>2, <1>4, <3>2, <3>7
  <2> QED BY <1>1, <1>2, <1>4, <1>5, <2>2, <2>3, UnderwayGrowsByOne
<1> QED BY <1>6, <1>7, CreatingGrowsByCheck

(* As long as no worker has died, there is nothing to recover.             *)
LEMMA CalmNext ==
  ASSUME IInv, [JobsNext]_jobVars, crashes = 0 => NothingFound, crashes' = 0
  PROVE  crashes = 0 /\ NothingFound /\ NothingFound'
<1>1. crashes = 0 /\ \A w \in Workers : ~Crash(w)
  <2>1. crashes \in Nat BY Types DEF IInv
  <2>2. \A w \in Workers : ~Crash(w) BY <2>1 DEF Crash
  <2>3. \A w \in Workers : Handling(w) => UNCHANGED crashes
    <3>1. \A w \in Workers : Handling(w) => \E r, p : Turn(w, r, p)
      BY HandlingTurns DEF IInv, Turns
    <3> QED BY <3>1 DEF Turn
  <2>4. \A w \in Workers : WorkerStep(w) => UNCHANGED crashes
    BY <2>3 DEF WorkerStep, Handling, CommitRecovery, Claim
  <2>5. \A c \in Clients : ClientStep(c) => UNCHANGED crashes BY ClientTypes DEF IInv
  <2>6. UNCHANGED crashes BY <2>2, <2>4, <2>5 DEF JobsNext, StartWorker, BeatGoesStale, jobVars
  <2> QED BY <2>2, <2>6
<1>2. NothingFound BY <1>1
<1>3. {j \in Jobs : Stale(job[j])} = {}
  <2> SUFFICES ASSUME NEW j \in Jobs, Stale(job[j]) PROVE FALSE OBVIOUS
  <2>1. PICK w \in Workers : Handles(w, j)
    BY <1>1 DEF IInv, ClaimsAreServed, Stale
  <2> QED BY <2>1, HandlesBusy DEF IInv, HandledInv, Loaded, Stale
<1>4. ASSUME NEW w \in Workers PROVE work'[w].found = {}
  <2>1. ASSUME NEW v \in Workers, Restarts(v) PROVE work'[w].found = {}
    <3>1. CASE StartWorker(v)
      <4>1. work' = [work EXCEPT ![v] = [Rest("recovering") EXCEPT !.found = {}]]
        BY <1>3, <3>1 DEF StartWorker
      <4>2. Rest("recovering") \in Progress BY Resting DEF WorkPc
      <4>3. [Rest("recovering") EXCEPT !.found = {}].found = {} BY <4>2 DEF Progress
      <4> QED BY <1>2, <4>1, <4>3, Types DEF NothingFound, IInv
    <3>2. CASE ~StartWorker(v) BY <1>2, <2>1, <3>2, RestTypes DEF NothingFound, IInv
    <3> QED BY <3>1, <3>2
  <2>2. ASSUME NEW v \in Workers, Handling(v) PROVE work'[w].found = {}
    <3>1. PICK r, p : Turn(v, r, p) BY <2>2, HandlingTurns DEF IInv, Turns
    <3> QED BY <1>2, <3>1, Types DEF Turn, NothingFound, IInv
  <2>3. ASSUME NEW v \in Workers, NEW j \in Jobs, Claim(v, j) PROVE work'[w].found = {}
    BY <1>2, <2>3, ClaimTypes DEF NothingFound, IInv
  <2>4. UNCHANGED work => work'[w].found = {} BY <1>2 DEF NothingFound
  <2>5. \A c \in Clients : ClientStep(c) => UNCHANGED work BY ClientTypes DEF IInv
  <2>6. \A v \in Workers : WorkerStep(v) \/ StartWorker(v) \/ Crash(v)
          => Restarts(v) \/ Handling(v) \/ \E j \in Jobs : Claim(v, j)
    BY DEF WorkerStep, Handling, Restarts
  <2> QED BY <2>1, <2>2, <2>3, <2>4, <2>5, <2>6 DEF JobsNext, BeatGoesStale, jobVars
<1> QED BY <1>1, <1>2, <1>4 DEF NothingFound

(* The quota is counted in one statement and the job inserted in another,  *)
(* and a cancelled job that its worker sets to running again is counted in *)
(* neither (create() in evaluation_job_service.py).  As long as no worker  *)
(* has died, what the gap can let through is one job for each request that *)
(* creates at the same time and one for each worker, on top of the limit,  *)
(* and never more.  (A recovery adds the jobs it loaded that a request has *)
(* cancelled since, which it puts back into the queue.)                    *)
THEOREM QuotaOvershootIsBounded ==
  ASSUME IsFiniteSet(Clients), IsFiniteSet(Workers), ~SlowScenarios, ~OverlappingRecovery
  PROVE  JobsSpec =>
    [](crashes = 0 =>
       /\ Cardinality(ActiveJobs(ACTIVE_STATUSES))
            < GlobalLimit + Cardinality(Clients) + Cardinality(Workers)
       /\ \A workspace \in Workspaces :
            Cardinality(ActiveIn(workspace))
              < WorkspaceLimit + Cardinality(Clients) + Cardinality(Workers))
<1> DEFINE All == Workspaces \cup {NoWorkspace}
           Bounds == /\ Quota(All, GlobalLimit)
                     /\ \A workspace \in Workspaces : Quota({workspace}, WorkspaceLimit)
           Calm == IInv /\ (crashes = 0 => NothingFound /\ Bounds)
           Overshoot == /\ Cardinality(ActiveJobs(ACTIVE_STATUSES))
                             < GlobalLimit + Cardinality(Clients) + Cardinality(Workers)
                        /\ \A workspace \in Workspaces :
                             Cardinality(ActiveIn(workspace))
                               < WorkspaceLimit + Cardinality(Clients) + Cardinality(Workers)
<1>1. /\ GlobalLimit \in Nat \ {0} /\ WorkspaceLimit \in Nat \ {0}
      /\ Cardinality(Clients) \in Nat /\ Cardinality(Workers) \in Nat
  BY JobsAssumption, FS_CardinalityType DEF JobsAssumption
<1>2. JobsInit => Calm
  <2> SUFFICES ASSUME JobsInit PROVE Calm OBVIOUS
  <2>1. IInv /\ \A w \in Workers : ~Busy(w) /\ work[w].found = {}
    BY InitInv, Resting DEF JobsInit, Busy, WorkPc
  <2>2. \A V : Underway(V) = {} /\ Creating(V) = {}
    BY <2>1, HandlesBusy DEF JobsInit, Underway, Creating, HandledJobs, NoRow, NoCall,
                             ACTIVE_STATUSES, Claimed
  <2>3. \A V : Cardinality(Underway(V)) + Cardinality(Creating(V)) = 0
    BY <2>2, FS_EmptySet
  <2> QED BY <1>1, <2>1, <2>3 DEF Quota, NothingFound
<1>3. IInv => /\ ActiveOf(All) = ActiveJobs(ACTIVE_STATUSES)
              /\ \A workspace : ActiveOf({workspace}) = ActiveIn(workspace)
  BY Types DEF ActiveOf, ActiveJobs, ActiveIn, Row, IInv
<1>4. Calm /\ [JobsNext]_jobVars => Calm'
  <2> SUFFICES ASSUME Calm, [JobsNext]_jobVars PROVE Calm' OBVIOUS
  <2>1. IInv' BY InvNext
  <2> SUFFICES ASSUME crashes' = 0 PROVE NothingFound' /\ Bounds' BY <2>1
  <2>2. crashes = 0 /\ NothingFound /\ NothingFound' BY CalmNext
  <2>3. Bounds /\ TypeInv BY <2>2 DEF IInv
  <2>4. Quota(All, GlobalLimit)'
    <3>1. \A workspace \in All :
            WithinConcurrency(workspace) => Cardinality(ActiveOf(All)) < GlobalLimit
      BY <1>3 DEF WithinConcurrency
    <3> QED BY <1>1, <2>2, <2>3, <3>1, QuotaNext
  <2>5. ASSUME NEW workspace \in Workspaces PROVE Quota({workspace}, WorkspaceLimit)'
    <3>1. \A ws \in {workspace} :
            WithinConcurrency(ws) => Cardinality(ActiveOf({workspace})) < WorkspaceLimit
      BY <1>3 DEF WithinConcurrency
    <3> QED BY <1>1, <2>2, <2>3, <3>1, QuotaNext
  <2> QED BY <2>2, <2>4, <2>5
<1>5. Calm => (crashes = 0 => Overshoot)
  <2> SUFFICES ASSUME IInv, Bounds PROVE Overshoot OBVIOUS
  <2>1. ASSUME NEW V, NEW limit \in Nat, Quota(V, limit)
        PROVE  Cardinality(ActiveOf(V)) < limit + Cardinality(Clients) + Cardinality(Workers)
    <3>1. ActiveOf(V) \subseteq Underway(V) BY DEF ActiveOf, Underway
    <3>2. Cardinality(ActiveOf(V)) <= Cardinality(Underway(V))
      BY <3>1, SetsFinite, FS_Subset DEF IInv
    <3> QED BY <1>1, <2>1, <3>2, SetsFinite DEF Quota, IInv
  <2> QED BY <1>1, <1>3, <2>1
<1> HIDE DEF Bounds, Calm
<1> QED BY <1>2, <1>4, <1>5, PTL DEF JobsSpec
==============================================================================
