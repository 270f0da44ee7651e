------------------------ MODULE EvaluationRunnerProofs ------------------------
(***************************************************************************)
(* The invariants of EvaluationRunner for any number of processes,         *)
(* threads, scenarios and domains.                                         *)
(***************************************************************************)
EXTENDS EvaluationRunner, TLAPS

(* What a thread is at follows from its stage.                             *)
StageInv ==
  \A t \in Threads :
    /\ task[t].pc # "idle" =>
         /\ task[t].scenario \in Scenarios
         /\ RunOf(t) \in Processes
         /\ proc[ProcessOf[t]].pc = "running"
    /\ ~Working(t) => task[t].pure
    /\ Working(t) => task[t].attempt \in Nat \ {0}
    /\ task[t].pc \in {"cleanup", "persist"} => task[t].status \in PollOutcomes

TypeInv ==
  /\ RunnerTypeOK /\ StageInv
  /\ \A p \in Processes : proc[p].pc # "down" => proc[p].run \in Processes

(* The attempts stored of a scenario in a run are 1..k, and an execution   *)
(* under way was given one of 1..k+1.                                      *)
Stored(run, s) == {r.attempt : r \in RowsOf(run, s)}

Numbered(run, s, k) ==
  /\ Stored(run, s) = 1..k
  /\ \A t \in Threads :
       Working(t) /\ RunOf(t) = run /\ task[t].scenario = s
         => task[t].attempt <= k + 1

AttemptInv ==
  /\ \A run \in Processes, s \in Scenarios : \E k \in Nat : Numbered(run, s, k)
  /\ \A r, q \in rows : SameExecution(r, q) => r = q

(* An execution without strangers has none at work beside it, and what is  *)
(* in its database is what its stage put there.                            *)
AloneInv ==
  \A t \in Threads :
    Working(t) /\ task[t].alone =>
      /\ Strangers(ProcessOf[t], DomainAt(t)) = {}
      /\ task[t].pc = "inject" => database[DomainAt(t)] = {}
      /\ task[t].pc \in {"verify", "submit"} =>
           database[DomainAt(t)] = {task[t].scenario}

IInv == TypeInv /\ AttemptInv /\ AloneInv /\ MeasuredAgainstItsDefect

-----------------------------------------------------------------------------
(* Steps inside an execution: thread t goes on to w and leaves content in  *)
(* its domain's database; nothing else changes.                            *)
Moves(t, w, content) ==
  /\ Working(t)
  /\ w \in Progress /\ w.pc \notin {"idle", "lock"}
  /\ w.scenario = task[t].scenario /\ w.attempt = task[t].attempt
  /\ w.alone = task[t].alone
  /\ w.pc \in {"cleanup", "persist"} => w.status \in PollOutcomes
  /\ content \in SUBSET Scenarios
  /\ w.alone =>
       /\ w.pure
       /\ w.pc = "inject" => content = {}
       /\ w.pc \in {"verify", "submit"} => content = {w.scenario}
  /\ task' = [task EXCEPT ![t] = w]
  /\ database' = [database EXCEPT ![DomainAt(t)] = content]
  /\ UNCHANGED <<proc, holder, rows, artifacts>>

Moving(t) ==
  Reset(t) \/ Inject(t) \/ Verify(t) \/ Investigate(t) \/ SubmitAgain(t)
    \/ Submit(t) \/ Interrupt(t) \/ Cleanup(t)

(* The facts about a working thread that every step needs.                 *)
LEMMA AtWork ==
  ASSUME TypeInv, NEW t \in Threads, Working(t)
  PROVE  /\ task[t] \in Progress /\ task[t].scenario \in Scenarios
         /\ DomainAt(t) \in Domains
         /\ task[t].attempt \in Nat \ {0}
         /\ ProcessOf[t] \in Processes /\ RunOf(t) \in Processes
         /\ holder[ProcessOf[t]][DomainAt(t)] = t
         /\ database[DomainAt(t)] \in SUBSET Scenarios
<1>1. /\ task[t] \in Progress /\ task[t].scenario \in Scenarios
      /\ task[t].attempt \in Nat \ {0} /\ RunOf(t) \in Processes
  BY DEF TypeInv, RunnerTypeOK, StageInv, Working
<1>2. DomainAt(t) \in Domains /\ ProcessOf[t] \in Processes
  BY <1>1, RunnerAssumption DEF DomainAt
<1>3. holder[ProcessOf[t]][DomainAt(t)] = t
  BY <1>2 DEF TypeInv, RunnerTypeOK
<1> QED BY <1>1, <1>2, <1>3 DEF TypeInv, RunnerTypeOK

(* Two executions in one domain belong to different processes, and neither *)
(* counts as alone.                                                        *)
LEMMA NotAloneTogether ==
  ASSUME TypeInv, AloneInv, NEW t \in Threads, NEW u \in Threads, t # u,
         Working(t), Working(u), DomainAt(t) = DomainAt(u)
  PROVE  ~task[t].alone
<1>1. holder[ProcessOf[u]][DomainAt(t)] = u BY AtWork
<1>2. holder[ProcessOf[t]][DomainAt(t)] = t BY AtWork
<1>3. ProcessOf[u] # ProcessOf[t] BY <1>1, <1>2
<1>4. u \in Strangers(ProcessOf[t], DomainAt(t)) BY <1>1, <1>3 DEF Strangers
<1> QED BY <1>4 DEF AloneInv

LEMMA MovingMoves ==
  ASSUME IInv, NEW t \in Threads, Moving(t)
  PROVE  \E w, content : Moves(t, w, content)
<1> DEFINE d == DomainAt(t)
           s == task[t].scenario
<1>1. Working(t)
  BY DEF Moving, Reset, Inject, Verify, Investigate, SubmitAgain, Submit, Interrupt,
         Cleanup, At, Working
<1>2. /\ task[t] \in Progress /\ s \in Scenarios /\ d \in Domains
      /\ database[d] \in SUBSET Scenarios
  BY <1>1, AtWork DEF IInv
<1>3. task \in [Threads -> Progress] /\ database \in [Domains -> SUBSET Scenarios]
  BY DEF IInv, TypeInv, RunnerTypeOK
<1>4. task[t].alone =>
        /\ task[t].pure
        /\ task[t].pc = "inject" => database[d] = {}
        /\ task[t].pc \in {"verify", "submit"} => database[d] = {s}
  BY <1>1 DEF IInv, AloneInv, MeasuredAgainstItsDefect
<1>5. database = [database EXCEPT ![d] = database[d]] BY <1>3
<1>6. ASSUME NEW status \in PollOutcomes, NEW content \in SUBSET Scenarios, Ends(t, status),
             DatabaseAt(t, content), UNCHANGED <<proc, holder, rows, artifacts>>
      PROVE  Moves(t, [task[t] EXCEPT !.pc = "cleanup", !.status = status], content)
  <2> DEFINE w == [task[t] EXCEPT !.pc = "cleanup", !.status = status]
  <2>1. /\ w \in Progress /\ w.pc = "cleanup" /\ w.status = status
        /\ w.scenario = task[t].scenario /\ w.attempt = task[t].attempt
        /\ w.alone = task[t].alone /\ w.pure = task[t].pure
    BY <1>2 DEF Progress
  <2>2. task' = [task EXCEPT ![t] = w] BY <1>6, <1>3 DEF Ends
  <2> QED BY <1>1, <1>4, <1>6, <2>1, <2>2 DEF Moves, DatabaseAt
<1>7. ASSUME NEW pc \in {"inject", "verify", "submit"}, NEW content \in SUBSET Scenarios,
             To(t, pc), DatabaseAt(t, content), UNCHANGED <<proc, holder, rows, artifacts>>,
             task[t].alone => content = IF pc = "inject" THEN {} ELSE {s}
      PROVE  Moves(t, [task[t] EXCEPT !.pc = pc], content)
  <2> DEFINE w == [task[t] EXCEPT !.pc = pc]
  <2>1. /\ w \in Progress /\ w.pc = pc /\ w.status = task[t].status
        /\ w.scenario = task[t].scenario /\ w.attempt = task[t].attempt
        /\ w.alone = task[t].alone /\ w.pure = task[t].pure
    BY <1>2 DEF Progress
  <2>2. task' = [task EXCEPT ![t] = w] BY <1>7, <1>3 DEF To
  <2> QED BY <1>1, <1>4, <1>7, <2>1, <2>2 DEF Moves, DatabaseAt
<1>8. ASSUME UNCHANGED database PROVE DatabaseAt(t, database[d])
  BY <1>5, <1>8 DEF DatabaseAt
<1>9. "failed" \in PollOutcomes BY DEF PollOutcomes
<1>10. CASE Reset(t)
  <2>1. \/ To(t, "inject") /\ DatabaseAt(t, {})
        \/ \E left \in SUBSET database[d] : Ends(t, "failed") /\ DatabaseAt(t, left)
    BY <1>10 DEF Reset
  <2>2. UNCHANGED <<proc, holder, rows, artifacts>> BY <1>10 DEF Reset
  <2> QED BY <1>2, <1>6, <1>7, <1>9, <2>1, <2>2
<1>11. CASE Inject(t)
  <2> DEFINE injected == database[d] \cup {s}
  <2>1. \/ To(t, "verify") /\ DatabaseAt(t, injected)
        \/ \E c \in {database[d], injected} : Ends(t, "failed") /\ DatabaseAt(t, c)
    BY <1>11 DEF Inject
  <2>2. UNCHANGED <<proc, holder, rows, artifacts>> /\ task[t].pc = "inject"
    BY <1>11 DEF Inject, At
  <2>3. injected \in SUBSET Scenarios /\ (task[t].alone => injected = {s})
    BY <1>2, <1>4, <2>2
  <2> QED BY <1>2, <1>6, <1>7, <1>9, <2>1, <2>2, <2>3
<1>12. CASE Verify(t)
  <2>1. To(t, "submit") \/ Ends(t, "failed") BY <1>12 DEF Verify
  <2>2. /\ UNCHANGED <<proc, holder, rows, artifacts>> /\ UNCHANGED database
        /\ task[t].pc = "verify"
    BY <1>12 DEF Verify, At
  <2> QED BY <1>2, <1>4, <1>6, <1>7, <1>8, <1>9, <2>1, <2>2
<1>13. CASE Investigate(t) \/ SubmitAgain(t)
  <2>1. PICK v \in BOOLEAN : task' = [task EXCEPT ![t].pure = v] /\ (~v => Investigate(t))
    BY <1>13 DEF Investigate, SubmitAgain
  <2> DEFINE w == [task[t] EXCEPT !.pure = v]
  <2>2. /\ UNCHANGED <<proc, holder, rows, artifacts>> /\ UNCHANGED database
        /\ task[t].pc = "submit" /\ (~v => database[d] # {s})
    BY <1>13, <2>1 DEF Investigate, SubmitAgain, At
  <2>3. /\ w \in Progress /\ w.pc = "submit" /\ w.status = task[t].status
        /\ w.scenario = task[t].scenario /\ w.attempt = task[t].attempt
        /\ w.alone = task[t].alone /\ w.pure = v
    BY <1>2, <2>2 DEF Progress
  <2>4. task' = [task EXCEPT ![t] = w] BY <1>3, <2>1
  <2>5. task[t].alone => database[d] = {s} /\ v BY <1>4, <2>2
  <2>6. Moves(t, w, database[d]) BY <1>1, <1>2, <1>5, <2>2, <2>3, <2>4, <2>5 DEF Moves
  <2> QED BY <2>6
<1>14. CASE Submit(t) \/ Interrupt(t)
  <2>1. \E status \in PollOutcomes : Ends(t, status)
    BY <1>14 DEF Submit, Interrupt, PollOutcomes
  <2>2. UNCHANGED <<proc, holder, rows, artifacts>> /\ UNCHANGED database
    BY <1>14 DEF Submit, Interrupt
  <2> QED BY <1>2, <1>6, <1>8, <2>1, <2>2
<1>15. CASE Cleanup(t)
  <2> DEFINE left == database[d] \ {s}
             failed == IF task[t].status = "completed" THEN "failed" ELSE task[t].status
  <2>1. PICK status \in {task[t].status, failed}, content \in {database[d], left} :
          /\ task' = [task EXCEPT ![t].pc = "persist", ![t].status = status]
          /\ DatabaseAt(t, content)
    BY <1>2, <1>3, <1>15 DEF Cleanup, To, Progress
  <2>2. UNCHANGED <<proc, holder, rows, artifacts>> /\ task[t].pc = "cleanup"
    BY <1>15 DEF Cleanup, At
  <2>3. status \in PollOutcomes /\ content \in SUBSET Scenarios
    BY <1>2, <1>9, <2>1, <2>2 DEF IInv, TypeInv, StageInv
  <2> DEFINE w == [task[t] EXCEPT !.pc = "persist", !.status = status]
  <2>4. /\ w \in Progress /\ w.pc = "persist" /\ w.status = status
        /\ w.scenario = task[t].scenario /\ w.attempt = task[t].attempt
        /\ w.alone = task[t].alone /\ w.pure = task[t].pure
    BY <1>2, <2>3 DEF Progress
  <2>5. task' = [task EXCEPT ![t] = w] BY <1>3, <2>1
  <2>6. Moves(t, w, content) BY <1>1, <1>4, <2>1, <2>2, <2>3, <2>4, <2>5 DEF Moves, DatabaseAt
  <2> QED BY <2>6
<1> QED BY <1>10, <1>11, <1>12, <1>13, <1>14, <1>15 DEF Moving

LEMMA MoveKeepsTypes ==
  ASSUME TypeInv, NEW t \in Threads, NEW w, NEW content, Moves(t, w, content)
  PROVE  TypeInv'
<1> USE DEF Moves
<1>1. task \in [Threads -> Progress] /\ database \in [Domains -> SUBSET Scenarios]
  BY DEF TypeInv, RunnerTypeOK
<1>2. task' \in [Threads -> Progress] /\ database' \in [Domains -> SUBSET Scenarios]
  BY <1>1
<1>3. \A u \in Threads : /\ task'[u].scenario = task[u].scenario
                         /\ Working(u)' <=> Working(u)
  BY <1>1 DEF Working
<1>4. RunnerTypeOK' BY <1>2, <1>3 DEF TypeInv, RunnerTypeOK, DomainAt
<1>5. StageInv'
  <2> SUFFICES ASSUME NEW u \in Threads
               PROVE  /\ task'[u].pc # "idle" =>
                           /\ task'[u].scenario \in Scenarios
                           /\ RunOf(u)' \in Processes
                           /\ proc'[ProcessOf[u]].pc = "running"
                      /\ ~Working(u)' => task'[u].pure
                      /\ Working(u)' => task'[u].attempt \in Nat \ {0}
                      /\ task'[u].pc \in {"cleanup", "persist"} => task'[u].status \in PollOutcomes
    BY DEF StageInv
  <2>1. CASE u = t
    <3>1. /\ task'[t] = w /\ RunOf(t)' = RunOf(t) /\ proc' = proc
          /\ task[t].pc # "idle" /\ Working(t) /\ Working(t)'
      BY <1>1 DEF RunOf, Working
    <3> QED BY <2>1, <3>1 DEF TypeInv, StageInv
  <2>2. CASE u # t
    <3>1. task'[u] = task[u] /\ RunOf(u)' = RunOf(u) /\ proc' = proc BY <1>1, <2>2 DEF RunOf
    <3> QED BY <1>3, <3>1 DEF TypeInv, StageInv
  <2> QED BY <2>1, <2>2
<1> QED BY <1>4, <1>5 DEF TypeInv

LEMMA MoveKeepsInv ==
  ASSUME IInv, NEW t \in Threads, NEW w, NEW content, Moves(t, w, content)
  PROVE  IInv'
<1> USE DEF Moves
<1>1. /\ task \in [Threads -> Progress] /\ database \in [Domains -> SUBSET Scenarios]
      /\ TypeInv /\ DomainAt(t) \in Domains
  BY AtWork DEF IInv, TypeInv, RunnerTypeOK
<1>2. TypeInv' BY <1>1, MoveKeepsTypes
<1>3. \A u \in Threads :
        /\ task'[u].scenario = task[u].scenario /\ task'[u].attempt = task[u].attempt
        /\ task'[u].alone = task[u].alone
        /\ Working(u)' <=> Working(u)
        /\ DomainAt(u)' = DomainAt(u) /\ RunOf(u)' = RunOf(u)
        /\ u # t => task'[u] = task[u]
  BY <1>1 DEF Working, DomainAt, RunOf
<1>4. AttemptInv'
  <2>1. \A run, s : Stored(run, s)' = Stored(run, s) BY DEF Stored, RowsOf
  <2>2. \A run, s, k : Numbered(run, s, k) => Numbered(run, s, k)'
    BY <1>3, <2>1 DEF Numbered
  <2> QED BY <2>2 DEF IInv, AttemptInv, SameExecution
<1>5. \A p, d : Strangers(p, d)' = Strangers(p, d) BY DEF Strangers
<1>6. AloneInv'
  <2> SUFFICES ASSUME NEW u \in Threads, Working(u), task[u].alone
               PROVE  /\ Strangers(ProcessOf[u], DomainAt(u)) = {}
                      /\ task'[u].pc = "inject" => database'[DomainAt(u)] = {}
                      /\ task'[u].pc \in {"verify", "submit"} =>
                           database'[DomainAt(u)] = {task[u].scenario}
    BY <1>3, <1>5 DEF AloneInv
  <2>1. Strangers(ProcessOf[u], DomainAt(u)) = {} BY DEF IInv, AloneInv
  <2>2. CASE u = t
    <3>1. task'[t] = w /\ database'[DomainAt(t)] = content BY <1>1
    <3> QED BY <2>1, <2>2, <3>1
  <2>3. CASE u # t
    <3>1. DomainAt(u) # DomainAt(t) BY <1>1, <2>3, NotAloneTogether DEF IInv
    <3>2. DomainAt(u) \in Domains BY <1>1, AtWork
    <3>3. database'[DomainAt(u)] = database[DomainAt(u)] BY <1>1, <3>1, <3>2
    <3> QED BY <1>3, <2>1, <2>3, <3>3 DEF IInv, AloneInv
  <2> QED BY <2>2, <2>3
<1>7. MeasuredAgainstItsDefect'
  <2>1. task'[t] = w BY <1>1
  <2> QED BY <1>3, <2>1 DEF IInv, MeasuredAgainstItsDefect
<1> QED BY <1>2, <1>4, <1>6, <1>7 DEF IInv

-----------------------------------------------------------------------------
(* Steps of commands, and ends of executions.  NoOne works who did not    *)
(* before, those who do are as they were, and no database changes.         *)
Calm ==
  /\ UNCHANGED database
  /\ \A u \in Threads : Working(u)' =>
       Working(u) /\ task'[u] = task[u] /\ RunOf(u)' = RunOf(u)
  /\ \A u \in Threads, p \in Processes, d \in Domains :
       holder'[p][d] = u => holder[p][d] = u
  /\ \A u \in Threads : ~Working(u)' => task'[u].pure

LEMMA CalmKeepsAttempts ==
  ASSUME AttemptInv, Calm, UNCHANGED rows
  PROVE  AttemptInv'
<1>1. \A run, s : Stored(run, s)' = Stored(run, s) BY DEF Stored, RowsOf
<1>2. \A run, s, k : Numbered(run, s, k) => Numbered(run, s, k)'
  BY <1>1 DEF Numbered, Calm
<1> QED BY <1>2 DEF AttemptInv, SameExecution

LEMMA CalmKeepsAlone ==
  ASSUME IInv, Calm
  PROVE  AloneInv' /\ MeasuredAgainstItsDefect'
<1> USE DEF Calm
<1>1. AloneInv'
  <2> SUFFICES ASSUME NEW u \in Threads, Working(u)', task'[u].alone
               PROVE  /\ Strangers(ProcessOf[u], DomainAt(u))' = {}
                      /\ task'[u].pc = "inject" => database'[DomainAt(u)'] = {}
                      /\ task'[u].pc \in {"verify", "submit"} =>
                           database'[DomainAt(u)'] = {task'[u].scenario}
    BY DEF AloneInv
  <2>1. /\ Working(u) /\ task'[u] = task[u] /\ DomainAt(u)' = DomainAt(u)
        /\ DomainAt(u) \in Domains
    BY AtWork DEF DomainAt, IInv
  <2>2. Strangers(ProcessOf[u], DomainAt(u))' \subseteq Strangers(ProcessOf[u], DomainAt(u))
    BY <2>1, RunnerAssumption DEF Strangers
  <2> QED BY <2>1, <2>2 DEF IInv, AloneInv
<1>2. MeasuredAgainstItsDefect' BY DEF IInv, MeasuredAgainstItsDefect
<1> QED BY <1>1, <1>2

(* What the invariants say of the commands, once and for all.              *)
LEMMA Types ==
  ASSUME TypeInv
  PROVE  /\ proc \in [Processes -> Command] /\ task \in [Threads -> Progress]
         /\ database \in [Domains -> SUBSET Scenarios]
         /\ rows \subseteq Executions /\ artifacts \subseteq Executions
         /\ holder \in [Processes -> [Domains -> Threads \cup {NoOne}]]
         /\ \A t \in Threads : ProcessOf[t] \in Processes /\ t # NoOne
         /\ \A s \in Scenarios : DomainOf[s] \in Domains
  BY RunnerAssumption DEF TypeInv, RunnerTypeOK

LEMMA StartInv ==
  ASSUME IInv, NEW p \in Processes, NEW command, NEW run \in Processes,
         NEW selected \in SUBSET Scenarios, Start(p, command, run, selected)
  PROVE  TypeInv' /\ Calm
<1>1. /\ proc[p].pc = "down"
      /\ UNCHANGED <<task, holder, database, rows, artifacts>>
      /\ proc' = [proc EXCEPT ![p] =
           [pc |-> "running", run |-> run, sequential |-> command = "pilot-smoke",
            chosen |-> selected, todo |-> selected]]
  BY DEF Start
<1>2. TypeInv BY DEF IInv
<1>3. \A t \in Threads : ProcessOf[t] = p => task[t].pc = "idle"
  BY <1>1, <1>2 DEF TypeInv, StageInv
<1>4. (command = "pilot-smoke") \in BOOLEAN OBVIOUS
<1>5. proc' \in [Processes -> Command] BY <1>1, <1>2, <1>4, Types DEF Command
<1>6. \A t \in Threads : task[t].pc # "idle" =>
        RunOf(t)' = RunOf(t) /\ proc'[ProcessOf[t]] = proc[ProcessOf[t]]
  BY <1>1, <1>2, <1>3, Types DEF RunOf
<1>7. StageInv' BY <1>1, <1>2, <1>6 DEF TypeInv, StageInv, Working
<1>8. RunnerTypeOK' BY <1>1, <1>2, <1>5 DEF TypeInv, RunnerTypeOK, Working, DomainAt
<1>9. \A q \in Processes : proc'[q].pc # "down" => proc'[q].run \in Processes
  BY <1>1, <1>2, Types DEF TypeInv
<1>10. Calm
  BY <1>1, <1>2, <1>6 DEF Calm, Working, TypeInv, StageInv
<1> QED BY <1>7, <1>8, <1>9, <1>10 DEF TypeInv

LEMMA TakeInv ==
  ASSUME IInv, NEW t \in Threads, Take(t)
  PROVE  TypeInv' /\ Calm
<1> DEFINE p == ProcessOf[t]
<1>1. PICK s \in proc[p].todo :
        /\ proc[p].pc = "running" /\ task[t].pc = "idle"
        /\ proc' = [proc EXCEPT ![p].todo = @ \ {s}]
        /\ task' = [task EXCEPT ![t] = [Idle EXCEPT !.pc = "lock", !.scenario = s]]
        /\ UNCHANGED <<holder, database, rows, artifacts>>
  BY DEF Take
<1>2. TypeInv BY DEF IInv
<1>3. p \in Processes /\ proc[p] \in Command /\ proc[p].run \in Processes
  BY <1>1, <1>2, Types DEF TypeInv
<1>4. s \in Scenarios BY <1>1, <1>3 DEF Command
<1>5. /\ proc'[p] \in Command /\ proc'[p].pc = "running" /\ proc'[p].run = proc[p].run
      /\ \A q \in Processes \ {p} : proc'[q] = proc[q]
      /\ proc' \in [Processes -> Command]
  BY <1>1, <1>2, <1>3, Types DEF Command
<1> DEFINE w == [Idle EXCEPT !.pc = "lock", !.scenario = s]
<1>6. Idle \in Progress /\ Idle.pure BY DEF Idle, Progress
<1>7. w \in Progress /\ w.pc = "lock" /\ w.scenario = s /\ w.pure
  BY <1>4, <1>6 DEF Progress
<1> HIDE DEF w
<1>8. /\ task' \in [Threads -> Progress] /\ task'[t] = w
      /\ \A u \in Threads \ {t} : task'[u] = task[u]
  BY <1>1, <1>2, <1>7, Types DEF w
<1>9. \A u \in Threads : RunOf(u)' = RunOf(u) /\ proc'[ProcessOf[u]].pc = proc[ProcessOf[u]].pc
  BY <1>1, <1>2, <1>5, Types DEF RunOf
<1>10. ~Working(t) /\ ~Working(t)' BY <1>1, <1>7, <1>8 DEF Working
<1>11. StageInv'
  <2>1. \A u \in Threads \ {t} : Working(u)' <=> Working(u) BY <1>8 DEF Working
  <2>2. RunOf(t)' \in Processes /\ proc'[p].pc = "running"
    BY <1>3, <1>5, <1>9 DEF RunOf
  <2> SUFFICES ASSUME NEW u \in Threads
               PROVE  /\ task'[u].pc # "idle" =>
                           /\ task'[u].scenario \in Scenarios
                           /\ RunOf(u)' \in Processes
                           /\ proc'[ProcessOf[u]].pc = "running"
                      /\ ~Working(u)' => task'[u].pure
                      /\ Working(u)' => task'[u].attempt \in Nat \ {0}
                      /\ task'[u].pc \in {"cleanup", "persist"} => task'[u].status \in PollOutcomes
    BY DEF StageInv
  <2>3. CASE u = t BY <1>4, <1>7, <1>8, <1>10, <2>2, <2>3
  <2>4. CASE u # t BY <1>2, <1>8, <1>9, <2>1, <2>4 DEF TypeInv, StageInv
  <2> QED BY <2>3, <2>4
<1>12. RunnerTypeOK'
  BY <1>1, <1>2, <1>5, <1>8, <1>10 DEF TypeInv, RunnerTypeOK, Working, DomainAt
<1>13. \A q \in Processes : proc'[q].pc # "down" => proc'[q].run \in Processes
  BY <1>2, <1>3, <1>5 DEF TypeInv
<1>14. Calm
  BY <1>1, <1>2, <1>7, <1>8, <1>9, <1>10 DEF Calm, Working, TypeInv, StageInv
<1> QED BY <1>11, <1>12, <1>13, <1>14 DEF TypeInv

LEMMA FinishInv ==
  ASSUME IInv, NEW p \in Processes, Finish(p)
  PROVE  TypeInv' /\ Calm
<1>1. /\ \A t \in Threads : ProcessOf[t] = p => task[t].pc = "idle"
      /\ proc[p].pc = "running"
      /\ proc' = [proc EXCEPT ![p].pc = "ended"]
      /\ UNCHANGED <<task, holder, database, rows, artifacts>>
  BY DEF Finish
<1>2. TypeInv BY DEF IInv
<1>3. /\ proc' \in [Processes -> Command] /\ proc'[p].run = proc[p].run
      /\ \A q \in Processes \ {p} : proc'[q] = proc[q]
  BY <1>1, <1>2, Types DEF Command
<1>4. \A t \in Threads : task[t].pc # "idle" =>
        RunOf(t)' = RunOf(t) /\ proc'[ProcessOf[t]] = proc[ProcessOf[t]]
  BY <1>1, <1>2, <1>3, Types DEF RunOf
<1>5. StageInv' BY <1>1, <1>2, <1>4 DEF TypeInv, StageInv, Working
<1>6. RunnerTypeOK' BY <1>1, <1>2, <1>3 DEF TypeInv, RunnerTypeOK, Working, DomainAt
<1>7. \A q \in Processes : proc'[q].pc # "down" => proc'[q].run \in Processes
  BY <1>1, <1>2, <1>3 DEF TypeInv
<1>8. Calm BY <1>1, <1>2, <1>4 DEF Calm, Working, TypeInv, StageInv
<1> QED BY <1>5, <1>6, <1>7, <1>8 DEF TypeInv

LEMMA CrashInv ==
  ASSUME IInv, NEW p \in Processes, Kill(p)
  PROVE  TypeInv' /\ Calm
<1>1. /\ proc[p].pc = "running"
      /\ proc' = [proc EXCEPT ![p].pc = "killed"]
      /\ task' = [t \in Threads |-> IF ProcessOf[t] = p THEN Idle ELSE task[t]]
      /\ holder' = [holder EXCEPT ![p] = [d \in Domains |-> NoOne]]
      /\ UNCHANGED <<database, rows, artifacts>>
  BY DEF Kill
<1>2. TypeInv BY DEF IInv
<1>3. /\ proc' \in [Processes -> Command] /\ proc'[p].run = proc[p].run
      /\ \A q \in Processes \ {p} : proc'[q] = proc[q]
  BY <1>1, <1>2, Types DEF Command
<1>4. Idle \in Progress /\ Idle.pc = "idle" /\ Idle.pure BY DEF Idle, Progress
<1>5. /\ task' \in [Threads -> Progress]
      /\ \A t \in Threads : IF ProcessOf[t] = p THEN task'[t] = Idle ELSE task'[t] = task[t]
  BY <1>1, <1>2, <1>4, Types
<1>6. \A t \in Threads : IF ProcessOf[t] = p
        THEN ~Working(t)' /\ task'[t].pc = "idle" /\ task'[t].pure
        ELSE /\ task'[t] = task[t] /\ RunOf(t)' = RunOf(t) /\ (Working(t)' <=> Working(t))
             /\ DomainAt(t)' = DomainAt(t)
             /\ proc'[ProcessOf[t]] = proc[ProcessOf[t]]
  BY <1>2, <1>3, <1>4, <1>5, Types DEF Working, RunOf, DomainAt
<1>7. /\ holder' \in [Processes -> [Domains -> Threads \cup {NoOne}]]
      /\ \A q \in Processes, d \in Domains :
           holder'[q][d] = IF q = p THEN NoOne ELSE holder[q][d]
  BY <1>1, <1>2, Types
<1>8. \A q \in Processes, d \in Domains, t \in Threads :
        holder'[q][d] = t <=> ProcessOf[t] = q /\ Working(t)' /\ DomainAt(t)' = d
  BY <1>2, <1>6, <1>7, Types DEF TypeInv, RunnerTypeOK
<1>9. RunnerTypeOK' BY <1>1, <1>2, <1>3, <1>5, <1>7, <1>8 DEF TypeInv, RunnerTypeOK
<1>10. StageInv'
  <2> SUFFICES ASSUME NEW t \in Threads
               PROVE  /\ task'[t].pc # "idle" =>
                           /\ task'[t].scenario \in Scenarios
                           /\ RunOf(t)' \in Processes
                           /\ proc'[ProcessOf[t]].pc = "running"
                      /\ ~Working(t)' => task'[t].pure
                      /\ Working(t)' => task'[t].attempt \in Nat \ {0}
                      /\ task'[t].pc \in {"cleanup", "persist"} => task'[t].status \in PollOutcomes
    BY DEF StageInv
  <2>1. CASE ProcessOf[t] = p BY <1>6, <2>1
  <2>2. CASE ProcessOf[t] # p BY <1>2, <1>6, <2>2 DEF TypeInv, StageInv
  <2> QED BY <2>1, <2>2
<1>11. \A q \in Processes : proc'[q].pc # "down" => proc'[q].run \in Processes
  BY <1>1, <1>2, <1>3 DEF TypeInv
<1>12. Calm
  <2>1. \A t \in Threads : Working(t)' => Working(t) /\ task'[t] = task[t] /\ RunOf(t)' = RunOf(t)
    BY <1>6
  <2>2. \A t \in Threads : ~Working(t)' => task'[t].pure BY <1>10 DEF StageInv
  <2>3. \A u \in Threads, q \in Processes, d \in Domains :
          holder'[q][d] = u => holder[q][d] = u
    BY <1>2, <1>7, Types
  <2> QED BY <1>1, <2>1, <2>2, <2>3 DEF Calm
<1> QED BY <1>9, <1>10, <1>11, <1>12 DEF TypeInv

LEMMA AttemptUnknownInv ==
  ASSUME IInv, NEW t \in Threads, AttemptUnknown(t)
  PROVE  TypeInv' /\ Calm
<1> DEFINE p == ProcessOf[t]
<1>1. /\ task[t].pc = "lock"
      /\ task' = [task EXCEPT ![t] = Idle]
      /\ proc' = [proc EXCEPT ![p].todo = IF proc[p].sequential THEN {} ELSE @]
      /\ UNCHANGED <<holder, database, rows, artifacts>>
  BY DEF AttemptUnknown, At
<1>2. TypeInv BY DEF IInv
<1>3. p \in Processes /\ proc[p] \in Command BY <1>2, Types
<1>4. /\ proc' \in [Processes -> Command]
      /\ proc'[p].run = proc[p].run /\ proc'[p].pc = proc[p].pc
      /\ \A q \in Processes \ {p} : proc'[q] = proc[q]
  BY <1>1, <1>2, <1>3, Types DEF Command
<1>5. Idle \in Progress /\ Idle.pc = "idle" /\ Idle.pure BY DEF Idle, Progress
<1>6. /\ task' \in [Threads -> Progress] /\ task'[t] = Idle
      /\ \A u \in Threads \ {t} : task'[u] = task[u]
  BY <1>1, <1>2, <1>5, Types
<1>7. \A u \in Threads : RunOf(u)' = RunOf(u) /\ proc'[ProcessOf[u]].pc = proc[ProcessOf[u]].pc
  BY <1>2, <1>4, Types DEF RunOf
<1>8. ~Working(t) /\ ~Working(t)' BY <1>1, <1>5, <1>6 DEF Working
<1>9. StageInv'
  BY <1>2, <1>5, <1>6, <1>7, <1>8 DEF TypeInv, StageInv, Working
<1>10. RunnerTypeOK'
  BY <1>1, <1>2, <1>4, <1>6, <1>8 DEF TypeInv, RunnerTypeOK, Working, DomainAt
<1>11. \A q \in Processes : proc'[q].pc # "down" => proc'[q].run \in Processes
  BY <1>2, <1>3, <1>4 DEF TypeInv
<1>12. Calm
  BY <1>1, <1>2, <1>5, <1>6, <1>7, <1>8 DEF Calm, Working, TypeInv, StageInv
<1> QED BY <1>9, <1>10, <1>11, <1>12 DEF TypeInv

-----------------------------------------------------------------------------
(* next_attempt continues the numbers stored.                              *)
LEMMA HighestOfSegment ==
  ASSUME NEW k \in Nat
  PROVE  Highest(1..k) = k
<1> DEFINE Top(n) == n \in (1..k) \cup {0} /\ \A m \in 1..k : m <= n
<1>1. Top(k) OBVIOUS
<1>2. \A n : Top(n) => n = k OBVIOUS
<1> QED BY <1>1, <1>2 DEF Highest

LEMMA BeginInv ==
  ASSUME IInv, NEW t \in Threads, Begin(t)
  PROVE  IInv'
<1> DEFINE p == ProcessOf[t]
           s == task[t].scenario
           d == DomainOf[s]
           strangers == Strangers(p, d)
           refused == s \notin Supported[p]
           w == [task[t] EXCEPT !.attempt = NextAttempt(RunOf(t), s),
                                !.status = IF refused THEN "failed" ELSE "running",
                                !.pc = IF refused THEN "cleanup" ELSE "reset",
                                !.alone = (strangers = {})]
           other(u) == [task[u] EXCEPT !.alone = @ /\ u \notin strangers]
<1>1. /\ task[t].pc = "lock" /\ holder[p][d] = NoOne
      /\ holder' = [holder EXCEPT ![p][d] = t]
      /\ task' = [u \in Threads |-> IF u = t THEN w ELSE other(u)]
      /\ UNCHANGED <<proc, database, rows, artifacts>>
  BY DEF Begin, At
<1>2. TypeInv BY DEF IInv
<1>3. /\ task[t] \in Progress /\ s \in Scenarios /\ d \in Domains /\ p \in Processes
      /\ RunOf(t) \in Processes /\ task[t].pure /\ proc[p].pc = "running"
  BY <1>1, <1>2, Types DEF TypeInv, StageInv, Working
<1>4. PICK k \in Nat : Numbered(RunOf(t), s, k) BY <1>3 DEF IInv, AttemptInv
<1>5. NextAttempt(RunOf(t), s) = k + 1
  BY <1>4, HighestOfSegment DEF NextAttempt, Numbered, Stored
<1>6. /\ w \in Progress /\ w.attempt = k + 1 /\ w.scenario = s /\ w.pure
      /\ w.alone = (strangers = {}) /\ w.pc \in {"cleanup", "reset"}
      /\ w.pc = "cleanup" => w.status \in PollOutcomes
  <2>1. PICK pc \in {"cleanup", "reset"}, status \in PollOutcomes \cup {"running"},
             unshared \in BOOLEAN :
          /\ pc = IF refused THEN "cleanup" ELSE "reset"
          /\ status = IF refused THEN "failed" ELSE "running"
          /\ unshared = (strangers = {})
    BY DEF PollOutcomes
  <2> DEFINE begun == [task[t] EXCEPT !.attempt = k + 1, !.status = status, !.pc = pc,
                                      !.alone = unshared]
  <2>2. w = begun BY <1>5, <2>1
  <2>3. /\ begun \in Progress /\ begun.attempt = k + 1 /\ begun.status = status
        /\ begun.pc = pc /\ begun.alone = unshared
        /\ begun.scenario = s /\ begun.pure = task[t].pure
    <3> DEFINE e == task[t]
               m == k + 1
    <3>1. e \in Progress /\ m \in Nat BY <1>3
    <3> HIDE DEF e, m, w, p, strangers, refused, other
    <3>2. LET v == [e EXCEPT !.attempt = m, !.status = status, !.pc = pc, !.alone = unshared]
          IN  /\ v \in Progress /\ v.attempt = m /\ v.status = status /\ v.pc = pc
              /\ v.alone = unshared /\ v.scenario = e.scenario /\ v.pure = e.pure
      BY <3>1 DEF Progress
    <3> QED BY <3>2 DEF e, m
  <2>4. pc = "cleanup" => status \in PollOutcomes BY <2>1 DEF PollOutcomes
  <2> HIDE DEF w, begun
  <2> QED BY <1>3, <2>1, <2>2, <2>3, <2>4
<1>7. ASSUME NEW u \in Threads
      PROVE  /\ other(u) \in Progress /\ other(u).pc = task[u].pc
             /\ other(u).scenario = task[u].scenario /\ other(u).attempt = task[u].attempt
             /\ other(u).status = task[u].status /\ other(u).pure = task[u].pure
             /\ other(u).alone = (task[u].alone /\ u \notin strangers)
  BY <1>2, Types DEF Progress
<1> HIDE DEF w, other
<1>8. task' \in [Threads -> Progress] /\ task'[t] = w BY <1>1, <1>6, <1>7
<1>9. \A u \in Threads \ {t} : task'[u] = other(u) BY <1>1
<1>10. /\ ~Working(t) /\ Working(t)' /\ DomainAt(t)' = d /\ DomainAt(t) = d
       /\ \A u \in Threads : RunOf(u)' = RunOf(u)
       /\ \A u \in Threads \ {t} :
            /\ task'[u].pc = task[u].pc /\ task'[u].scenario = task[u].scenario
            /\ task'[u].attempt = task[u].attempt /\ task'[u].status = task[u].status
            /\ task'[u].pure = task[u].pure
            /\ task'[u].alone => task[u].alone /\ u \notin strangers
            /\ Working(u)' <=> Working(u)
            /\ DomainAt(u)' = DomainAt(u)
  BY <1>1, <1>6, <1>7, <1>8, <1>9 DEF Working, DomainAt, RunOf
<1>11. /\ holder' \in [Processes -> [Domains -> Threads \cup {NoOne}]]
       /\ \A q \in Processes, e \in Domains :
            holder'[q][e] = IF q = p /\ e = d THEN t ELSE holder[q][e]
  BY <1>1, <1>2, <1>3, Types
<1>12. \A q \in Processes, e \in Domains, u \in Threads :
         holder'[q][e] = u <=> ProcessOf[u] = q /\ Working(u)' /\ DomainAt(u)' = e
  <2> SUFFICES ASSUME NEW q \in Processes, NEW e \in Domains, NEW u \in Threads
               PROVE  holder'[q][e] = u <=> ProcessOf[u] = q /\ Working(u)' /\ DomainAt(u)' = e
    OBVIOUS
  <2>1. holder[q][e] = u <=> ProcessOf[u] = q /\ Working(u) /\ DomainAt(u) = e
    BY <1>2 DEF TypeInv, RunnerTypeOK
  <2>2. ~(ProcessOf[u] = p /\ Working(u) /\ DomainAt(u) = d)
    BY <1>1, <1>2, <1>3, Types DEF TypeInv, RunnerTypeOK
  <2> QED BY <1>10, <1>11, <2>1, <2>2
<1>13. RunnerTypeOK' BY <1>1, <1>2, <1>8, <1>11, <1>12 DEF TypeInv, RunnerTypeOK
<1>14. StageInv'
  <2> SUFFICES ASSUME NEW u \in Threads
               PROVE  /\ task'[u].pc # "idle" =>
                           /\ task'[u].scenario \in Scenarios
                           /\ RunOf(u)' \in Processes
                           /\ proc'[ProcessOf[u]].pc = "running"
                      /\ ~Working(u)' => task'[u].pure
                      /\ Working(u)' => task'[u].attempt \in Nat \ {0}
                      /\ task'[u].pc \in {"cleanup", "persist"} => task'[u].status \in PollOutcomes
    BY DEF StageInv
  <2>1. CASE u = t BY <1>1, <1>3, <1>6, <1>8, <1>10, <2>1
  <2>2. CASE u # t BY <1>1, <1>2, <1>10, <2>2 DEF TypeInv, StageInv
  <2> QED BY <2>1, <2>2
<1>15. TypeInv' BY <1>1, <1>2, <1>13, <1>14 DEF TypeInv
<1>16. AttemptInv'
  <2>1. \A run, z : Stored(run, z)' = Stored(run, z) BY <1>1 DEF Stored, RowsOf
  <2>2. ASSUME NEW run \in Processes, NEW z \in Scenarios
        PROVE  \E i \in Nat : Numbered(run, z, i)'
    <3>1. PICK i \in Nat : Numbered(run, z, i) BY DEF IInv, AttemptInv
    <3>2. CASE run = RunOf(t) /\ z = s
      <4>1. Numbered(run, z, k)'
        BY <1>4, <1>6, <1>8, <1>10, <2>1, <3>2 DEF Numbered
      <4> QED BY <4>1
    <3>3. CASE ~(run = RunOf(t) /\ z = s)
      <4>1. Numbered(run, z, i)'
        BY <1>6, <1>8, <1>10, <2>1, <3>1, <3>3 DEF Numbered
      <4> QED BY <4>1
    <3> QED BY <3>2, <3>3
  <2>3. \A r, q \in rows' : SameExecution(r, q)' => r = q
    BY <1>1 DEF IInv, AttemptInv, SameExecution
  <2> QED BY <2>2, <2>3 DEF AttemptInv
<1>17. AloneInv'
  <2> SUFFICES ASSUME NEW u \in Threads, Working(u)', task'[u].alone
               PROVE  /\ Strangers(ProcessOf[u], DomainAt(u))' = {}
                      /\ task'[u].pc = "inject" => database'[DomainAt(u)'] = {}
                      /\ task'[u].pc \in {"verify", "submit"} =>
                           database'[DomainAt(u)'] = {task'[u].scenario}
    BY DEF AloneInv
  <2> DEFINE after(q, e) == {x \in Threads : ProcessOf[x] # q /\ holder'[ProcessOf[x]][e] = x}
  <2>1. \A q \in Processes, e \in Domains :
          after(q, e) \subseteq Strangers(q, e) \cup (IF q # p /\ e = d THEN {t} ELSE {})
    BY <1>2, <1>11, Types DEF Strangers
  <2>4. Strangers(ProcessOf[u], DomainAt(u))' = after(ProcessOf[u], DomainAt(u)')
    BY DEF Strangers
  <2> HIDE DEF after
  <2>2. CASE u = t
    <3>1. strangers = {} BY <1>6, <1>8, <2>2
    <3>2. after(p, d) = {} BY <1>3, <2>1, <3>1
    <3> QED BY <1>6, <1>8, <1>10, <2>2, <2>4, <3>2
  <2>3. CASE u # t
    <3>1. /\ Working(u) /\ task[u].alone /\ u \notin strangers
          /\ ProcessOf[u] \in Processes /\ DomainAt(u) \in Domains
          /\ holder[ProcessOf[u]][DomainAt(u)] = u
      BY <1>2, <1>10, <2>3, AtWork
    <3>2. ~(ProcessOf[u] # p /\ DomainAt(u) = d) BY <3>1 DEF Strangers
    <3>3. after(ProcessOf[u], DomainAt(u)) \subseteq Strangers(ProcessOf[u], DomainAt(u))
      <4>1. ~(ProcessOf[u] # p /\ DomainAt(u) = d) BY <3>2
      <4> HIDE DEF p, d
      <4> QED BY <2>1, <3>1, <4>1
    <3>4. Strangers(ProcessOf[u], DomainAt(u)) = {} BY <3>1 DEF IInv, AloneInv
    <3>5. Strangers(ProcessOf[u], DomainAt(u))' = {} BY <2>4, <3>3, <3>4, <1>10, <2>3
    <3> QED BY <1>1, <1>10, <2>3, <3>1, <3>5 DEF IInv, AloneInv
  <2> QED BY <2>2, <2>3
<1>18. MeasuredAgainstItsDefect'
  BY <1>6, <1>8, <1>10 DEF IInv, MeasuredAgainstItsDefect
<1> QED BY <1>15, <1>16, <1>17, <1>18 DEF IInv

(* run_scenario returns: the lock is released whatever was stored.         *)
LEMMA ReturnInv ==
  ASSUME IInv, NEW t \in Threads, task[t].pc = "persist", Return(t),
         UNCHANGED database, rows' \subseteq Executions, artifacts' \subseteq Executions
  PROVE  TypeInv' /\ Calm
<1> DEFINE p == ProcessOf[t]
           d == DomainAt(t)
<1>1. /\ task' = [task EXCEPT ![t] = Idle]
      /\ holder' = [holder EXCEPT ![p][d] = NoOne]
      /\ UNCHANGED <<proc, database>>
  BY DEF Return
<1>2. TypeInv BY DEF IInv
<1>3. /\ Working(t) /\ p \in Processes /\ d \in Domains /\ holder[p][d] = t
  <2>1. Working(t) BY DEF Working
  <2> QED BY <1>2, <2>1, AtWork
<1>4. Idle \in Progress /\ Idle.pc = "idle" /\ Idle.pure BY DEF Idle, Progress
<1>5. /\ task' \in [Threads -> Progress] /\ task'[t] = Idle /\ ~Working(t)'
      /\ \A u \in Threads \ {t} :
           /\ task'[u] = task[u] /\ (Working(u)' <=> Working(u)) /\ DomainAt(u)' = DomainAt(u)
  BY <1>1, <1>2, <1>4, Types DEF Working, DomainAt
<1>6. \A u \in Threads : RunOf(u)' = RunOf(u) BY <1>1 DEF RunOf
<1>7. /\ holder' \in [Processes -> [Domains -> Threads \cup {NoOne}]]
      /\ \A q \in Processes, e \in Domains :
           holder'[q][e] = IF q = p /\ e = d THEN NoOne ELSE holder[q][e]
  BY <1>1, <1>2, <1>3, Types
<1>8. \A q \in Processes, e \in Domains, u \in Threads :
        holder'[q][e] = u <=> ProcessOf[u] = q /\ Working(u)' /\ DomainAt(u)' = e
  <2> SUFFICES ASSUME NEW q \in Processes, NEW e \in Domains, NEW u \in Threads
               PROVE  holder'[q][e] = u <=> ProcessOf[u] = q /\ Working(u)' /\ DomainAt(u)' = e
    OBVIOUS
  <2>1. holder[q][e] = u <=> ProcessOf[u] = q /\ Working(u) /\ DomainAt(u) = e
    BY <1>2 DEF TypeInv, RunnerTypeOK
  <2>2. u # NoOne BY <1>2, Types
  <2> QED BY <1>3, <1>5, <1>7, <2>1, <2>2
<1>9. RunnerTypeOK' BY <1>1, <1>2, <1>5, <1>7, <1>8 DEF TypeInv, RunnerTypeOK
<1>10. StageInv'
  <2> SUFFICES ASSUME NEW u \in Threads
               PROVE  /\ task'[u].pc # "idle" =>
                           /\ task'[u].scenario \in Scenarios
                           /\ RunOf(u)' \in Processes
                           /\ proc'[ProcessOf[u]].pc = "running"
                      /\ ~Working(u)' => task'[u].pure
                      /\ Working(u)' => task'[u].attempt \in Nat \ {0}
                      /\ task'[u].pc \in {"cleanup", "persist"} => task'[u].status \in PollOutcomes
    BY DEF StageInv
  <2>1. CASE u = t BY <1>4, <1>5, <2>1
  <2>2. CASE u # t BY <1>1, <1>2, <1>5, <1>6, <2>2 DEF TypeInv, StageInv
  <2> QED BY <2>1, <2>2
<1>11. TypeInv' BY <1>1, <1>2, <1>9, <1>10 DEF TypeInv
<1>12. Calm
  <2>1. \A u \in Threads, q \in Processes, e \in Domains :
          holder'[q][e] = u => holder[q][e] = u
    BY <1>2, <1>7, Types
  <2>2. \A u \in Threads : Working(u)' =>
          Working(u) /\ task'[u] = task[u] /\ RunOf(u)' = RunOf(u)
    BY <1>5, <1>6
  <2>3. \A u \in Threads : ~Working(u)' => task'[u].pure BY <1>10 DEF StageInv
  <2> QED BY <1>1, <2>1, <2>2, <2>3 DEF Calm
<1> QED BY <1>11, <1>12

LEMMA PersistInv ==
  ASSUME IInv, NEW t \in Threads, Persist(t)
  PROVE  IInv'
<1> DEFINE run == RunOf(t)
           s == task[t].scenario
           row == Result(t, task[t].status)
<1>1. /\ task[t].pc = "persist" /\ \A r \in rows : ~SameExecution(r, row)
      /\ rows' = rows \cup {row} /\ Return(t) /\ UNCHANGED <<database, artifacts>>
  BY DEF Persist, At
<1>2. /\ TypeInv /\ Working(t)
      /\ task[t].status \in PollOutcomes /\ task[t].attempt \in Nat \ {0}
      /\ s \in Scenarios /\ run \in Processes
  BY <1>1, AtWork DEF IInv, TypeInv, StageInv, Working
<1>3. /\ row \in Executions /\ row.run = run /\ row.scenario = s
      /\ row.attempt = task[t].attempt
  BY <1>2 DEF Executions, Result
<1> HIDE DEF row
<1>4. TypeInv' /\ Calm BY <1>1, <1>2, <1>3, ReturnInv, Types
<1>5. AloneInv' /\ MeasuredAgainstItsDefect' BY <1>4, CalmKeepsAlone
<1>6. AttemptInv'
  <2>1. \A r \in rows : /\ ~SameExecution(r, row) /\ ~SameExecution(row, r)
                        /\ \A q \in rows : SameExecution(r, q) => r = q
    BY <1>1 DEF IInv, AttemptInv, SameExecution
  <2>2. \A r, q \in rows' : SameExecution(r, q) => r = q BY <1>1, <2>1
  <2>3. ASSUME NEW x \in Processes, NEW z \in Scenarios
        PROVE  \E i \in Nat : Numbered(x, z, i)'
    <3>1. PICK k \in Nat : Numbered(x, z, k) BY DEF IInv, AttemptInv
    <3>2. \A u \in Threads : Working(u)' => Working(u) /\ task'[u] = task[u] /\ RunOf(u)' = RunOf(u)
      BY <1>4 DEF Calm
    <3>3. CASE x = run /\ z = s
      <4>1. Stored(x, z)' = Stored(x, z) \cup {task[t].attempt}
        BY <1>1, <1>3, <3>3 DEF Stored, RowsOf
      <4>2. task[t].attempt \notin Stored(x, z)
        BY <1>1, <1>3, <3>3 DEF Stored, RowsOf, SameExecution
      <4>3. task[t].attempt = k + 1
        BY <1>2, <3>1, <3>3, <4>2 DEF Numbered
      <4>4. Stored(x, z)' = 1..(k + 1) BY <3>1, <4>1, <4>3 DEF Numbered
      <4>5. \A u \in Threads : Working(u)' /\ RunOf(u)' = x /\ task'[u].scenario = z
               => task'[u].attempt <= k + 2
        BY <3>1, <3>2, AtWork, <1>2 DEF Numbered
      <4>6. Numbered(x, z, k + 1)' BY <4>4, <4>5 DEF Numbered
      <4> QED BY <4>6
    <3>4. CASE ~(x = run /\ z = s)
      <4>1. Stored(x, z)' = Stored(x, z)
        BY <1>1, <1>3, <3>4 DEF Stored, RowsOf
      <4>2. Numbered(x, z, k)' BY <3>1, <3>2, <4>1 DEF Numbered
      <4> QED BY <4>2
    <3> QED BY <3>3, <3>4
  <2> QED BY <2>2, <2>3 DEF AttemptInv
<1> QED BY <1>4, <1>5, <1>6 DEF IInv

LEMMA PersistFailsInv ==
  ASSUME IInv, NEW t \in Threads, PersistFails(t)
  PROVE  IInv'
<1>1. /\ task[t].pc = "persist" /\ Return(t) /\ UNCHANGED <<database, rows>>
      /\ artifacts' \subseteq artifacts \cup {Result(t, "failed")}
  BY DEF PersistFails, At
<1>2. TypeInv /\ Working(t) BY <1>1 DEF IInv, Working
<1>3. task[t].attempt \in Nat \ {0} /\ task[t].scenario \in Scenarios /\ RunOf(t) \in Processes
  BY <1>2, AtWork
<1>4. Result(t, "failed") \in Executions BY <1>3 DEF Executions, Result, PollOutcomes
<1>5. TypeInv' /\ Calm BY <1>1, <1>2, <1>4, ReturnInv, Types
<1> QED BY <1>1, <1>5, CalmKeepsAlone, CalmKeepsAttempts DEF IInv

-----------------------------------------------------------------------------
LEMMA InitInv == RunnerInit => IInv
<1> SUFFICES ASSUME RunnerInit PROVE IInv OBVIOUS
<1>1. Idle \in Progress /\ Idle.pc = "idle" /\ Idle.pure BY DEF Idle, Progress
<1>2. Down \in Command /\ Down.pc = "down" BY DEF Down, Command
<1>3. /\ \A t \in Threads : task[t] = Idle /\ ~Working(t)
      /\ \A p \in Processes : proc[p] = Down
      /\ \A p \in Processes, d \in Domains : holder[p][d] = NoOne
  BY <1>1 DEF RunnerInit, Working
<1>4. RunnerTypeOK
  <2>1. \A t \in Threads : t # NoOne BY RunnerAssumption
  <2> QED BY <1>1, <1>2, <1>3, <2>1 DEF RunnerInit, RunnerTypeOK
<1>5. StageInv BY <1>1, <1>3 DEF StageInv
<1>6. TypeInv BY <1>2, <1>3, <1>4, <1>5 DEF TypeInv
<1>7. AttemptInv
  <2>1. ASSUME NEW run \in Processes, NEW s \in Scenarios PROVE Numbered(run, s, 0)
    <3>1. Stored(run, s) = {} BY DEF RunnerInit, Stored, RowsOf
    <3> QED BY <1>3, <3>1 DEF Numbered
  <2> QED BY <2>1 DEF RunnerInit, AttemptInv
<1> QED BY <1>1, <1>3, <1>6, <1>7 DEF IInv, AloneInv, MeasuredAgainstItsDefect

(* The four commands start alike.                                          *)
Starting(p) ==
  \/ RunSuite(p) \/ PilotSmoke(p)
  \/ \E run \in Processes : Resume(p, run) \/ RerunFailed(p, run)

LEMMA StartingStarts ==
  ASSUME NEW p \in Processes, Starting(p)
  PROVE  \E command \in CommandNames, run \in Processes, selected \in SUBSET Scenarios :
           Start(p, command, run, selected)
<1>1. {Pilot[d] : d \in Domains} \in SUBSET Scenarios BY RunnerAssumption
<1>2. CASE RunSuite(p) BY <1>2 DEF RunSuite, CommandNames
<1>3. CASE PilotSmoke(p) BY <1>1, <1>3 DEF PilotSmoke, CommandNames
<1>4. ASSUME NEW run \in Processes, Resume(p, run) \/ RerunFailed(p, run)
      PROVE  \E selected \in SUBSET Scenarios :
               Start(p, "resume", run, selected) \/ Start(p, "rerun-failed", run, selected)
  BY <1>4 DEF Resume, RerunFailed
<1> QED BY <1>2, <1>3, <1>4 DEF Starting, CommandNames

LEMMA NextInv == IInv /\ [RunnerNext]_runnerVars => IInv'
<1> SUFFICES ASSUME IInv, [RunnerNext]_runnerVars PROVE IInv' OBVIOUS
<1>1. ASSUME NEW p \in Processes, Starting(p) PROVE IInv'
  <2>1. PICK command \in CommandNames, run \in Processes, selected \in SUBSET Scenarios :
          Start(p, command, run, selected)
    BY <1>1, StartingStarts
  <2>2. TypeInv' /\ Calm /\ UNCHANGED rows BY <2>1, StartInv DEF Start
  <2> QED BY <2>2, CalmKeepsAlone, CalmKeepsAttempts DEF IInv
<1>2. ASSUME NEW p \in Processes, Finish(p) \/ Kill(p) PROVE IInv'
  <2>1. TypeInv' /\ Calm /\ UNCHANGED rows BY <1>2, FinishInv, CrashInv DEF Finish, Kill
  <2> QED BY <2>1, CalmKeepsAlone, CalmKeepsAttempts DEF IInv
<1>3. ASSUME NEW t \in Threads, Take(t) \/ AttemptUnknown(t) PROVE IInv'
  <2>1. TypeInv' /\ Calm /\ UNCHANGED rows
    BY <1>3, TakeInv, AttemptUnknownInv DEF Take, AttemptUnknown
  <2> QED BY <2>1, CalmKeepsAlone, CalmKeepsAttempts DEF IInv
<1>4. ASSUME NEW t \in Threads, Begin(t) PROVE IInv' BY <1>4, BeginInv
<1>5. ASSUME NEW t \in Threads, Moving(t) PROVE IInv' BY <1>5, MovingMoves, MoveKeepsInv
<1>6. ASSUME NEW t \in Threads, Persist(t) \/ PersistFails(t) PROVE IInv'
  BY <1>6, PersistInv, PersistFailsInv
<1>7. CASE UNCHANGED runnerVars
  <2>1. UNCHANGED <<proc, task, holder, database, rows, artifacts>> BY <1>7 DEF runnerVars
  <2>2. TypeInv'
    BY <2>1 DEF IInv, TypeInv, RunnerTypeOK, StageInv, Working, RunOf, DomainAt
  <2>3. Calm BY <2>1 DEF Calm, Working, RunOf, IInv, TypeInv, StageInv
  <2> QED BY <2>1, <2>2, <2>3, CalmKeepsAlone, CalmKeepsAttempts DEF IInv
<1> QED BY <1>1, <1>2, <1>3, <1>4, <1>5, <1>6, <1>7 DEF RunnerNext, Starting, Work, Moving

LEMMA InvHolds == RunnerSpec => []IInv
BY InitInv, NextInv, PTL DEF RunnerSpec

(* The variables hold values of the expected shape, and the locks of the   *)
(* domains are held exactly by the threads that work in them.              *)
THEOREM RunnerTypeCorrect == RunnerSpec => []RunnerTypeOK
<1>1. IInv => RunnerTypeOK BY DEF IInv, TypeInv
<1> QED BY <1>1, InvHolds, PTL

(* An execution during which no other process used its domain is measured  *)
(* against its own defect alone, whatever was left in the database before. *)
THEOREM RunnerMeasures == RunnerSpec => []MeasuredAgainstItsDefect
<1>1. IInv => MeasuredAgainstItsDefect BY DEF IInv
<1> QED BY <1>1, InvHolds, PTL

-----------------------------------------------------------------------------
LEMMA AttemptsFollow == IInv => AttemptsFollowOn
<1> SUFFICES ASSUME IInv, NEW r \in rows, NEW n \in 1..(r.attempt - 1)
             PROVE  \E q \in rows : q.run = r.run /\ q.scenario = r.scenario /\ q.attempt = n
  BY DEF AttemptsFollowOn, IInv, AttemptInv
<1>1. r \in Executions BY DEF IInv, TypeInv, RunnerTypeOK
<1>2. r.run \in Processes /\ r.scenario \in Scenarios /\ r.attempt \in Nat \ {0}
  BY <1>1 DEF Executions
<1>3. PICK k \in Nat : Numbered(r.run, r.scenario, k) BY <1>2 DEF IInv, AttemptInv
<1>4. r.attempt \in 1..k BY <1>3 DEF Numbered, Stored, RowsOf
<1>5. n \in Stored(r.run, r.scenario) BY <1>2, <1>3, <1>4 DEF Numbered
<1> QED BY <1>5 DEF Stored, RowsOf

(* What ResultsSurvive asks of a step, the numbers of the attempts aside.  *)
Survives ==
  /\ rows \subseteq rows'
  /\ \A a \in artifacts : \E b \in artifacts' : SameExecution(a, b)
  /\ \A t \in Threads :
       Working(t) /\ task'[t].pc = "idle" /\ proc'[ProcessOf[t]].pc = "running"
         => \E r \in (rows' \ rows) \cup artifacts' : SameExecution(r, Result(t, "failed"))

(* A step that stores nothing is one that leaves no execution begun.       *)
LEMMA NothingStored ==
  ASSUME UNCHANGED <<rows, artifacts>>,
         \A t \in Threads : Working(t) /\ task'[t].pc = "idle"
                              => proc'[ProcessOf[t]].pc # "running"
  PROVE  Survives
BY DEF Survives, SameExecution

LEMMA NextSurvives == IInv /\ RunnerNext => Survives
<1> SUFFICES ASSUME IInv, RunnerNext PROVE Survives OBVIOUS
<1>1. TypeInv BY DEF IInv
<1>2. ASSUME NEW p \in Processes, Starting(p) \/ Finish(p) PROVE Survives
  <2>1. UNCHANGED <<task, rows, artifacts>>
    BY <1>2, StartingStarts DEF Start, Finish
  <2> QED BY <2>1, NothingStored DEF Working
<1>3. ASSUME NEW p \in Processes, Kill(p) PROVE Survives
  <2>1. /\ UNCHANGED <<rows, artifacts>>
        /\ proc'[p].pc = "killed"
        /\ \A t \in Threads : ProcessOf[t] # p => task'[t] = task[t]
    BY <1>1, <1>3, Types DEF Kill
  <2> QED BY <2>1, NothingStored DEF Working
<1>4. ASSUME NEW t \in Threads, Take(t) \/ AttemptUnknown(t) PROVE Survives
  <2>1. /\ UNCHANGED <<rows, artifacts>> /\ ~Working(t)
        /\ \A u \in Threads \ {t} : task'[u] = task[u]
    BY <1>1, <1>4, Types DEF Take, AttemptUnknown, At, Working
  <2> QED BY <2>1, NothingStored DEF Working
<1>5. ASSUME NEW t \in Threads, Begin(t) PROVE Survives
  <2>1. UNCHANGED <<rows, artifacts>> /\ ~Working(t) BY <1>5 DEF Begin, At, Working
  <2>2. ASSUME NEW u \in Threads \ {t} PROVE task'[u].pc = task[u].pc
    <3>1. PICK strangers : task'[u] = [task[u] EXCEPT !.alone = @ /\ u \notin strangers]
      BY <1>5 DEF Begin
    <3> QED BY <1>1, <3>1, Types DEF Progress
  <2> QED BY <2>1, <2>2, NothingStored DEF Working
<1>6. ASSUME NEW t \in Threads, Moving(t) PROVE Survives
  <2>1. PICK w, content : Moves(t, w, content) BY <1>6, MovingMoves
  <2>2. /\ UNCHANGED <<rows, artifacts>>
        /\ task'[t].pc # "idle"
        /\ \A u \in Threads \ {t} : task'[u] = task[u]
    BY <1>1, <2>1, Types DEF Moves
  <2> QED BY <2>2, NothingStored DEF Working
<1>7. ASSUME NEW t \in Threads, Persist(t) PROVE Survives
  <2> DEFINE row == Result(t, task[t].status)
  <2>1. /\ UNCHANGED artifacts /\ rows' = rows \cup {row}
        /\ \A u \in Threads \ {t} : task'[u] = task[u]
    BY <1>1, <1>7, Types DEF Persist, Return
  <2>2. SameExecution(row, Result(t, "failed")) /\ SameExecution(row, row)
    BY DEF SameExecution, Result
  <2>3. row \notin rows BY <1>7, <2>2 DEF Persist
  <2> QED BY <2>1, <2>2, <2>3 DEF Survives, SameExecution, Working
<1>8. ASSUME NEW t \in Threads, PersistFails(t) PROVE Survives
  <2> DEFINE file == Result(t, "failed")
  <2>1. /\ UNCHANGED rows
        /\ artifacts' = {a \in artifacts : ~SameExecution(a, file)} \cup {file}
        /\ \A u \in Threads \ {t} : task'[u] = task[u]
    BY <1>1, <1>8, Types DEF PersistFails, Return
  <2>2. SameExecution(file, file) /\ \A a \in artifacts : SameExecution(a, a)
    BY DEF SameExecution
  <2> HIDE DEF file
  <2>3. \A a \in artifacts : \E b \in artifacts' : SameExecution(a, b) BY <2>1, <2>2
  <2> QED BY <2>1, <2>2, <2>3 DEF Survives, Working, file
<1> QED BY <1>2, <1>3, <1>4, <1>5, <1>6, <1>7, <1>8 DEF RunnerNext, Starting, Work, Moving

(* No failure loses the result of an execution that was begun, no stored   *)
(* result is lost, and the attempts stored stay numbered without a gap,    *)
(* for any number of processes that work on one run.                       *)
THEOREM RunnerResultsSurvive == RunnerSpec => ResultsSurvive
<1>1. IInv /\ IInv' /\ RunnerNext => Survives /\ AttemptsFollowOn'
  <2>1. IInv' => AttemptsFollowOn' BY AttemptsFollow, PTL
  <2> QED BY <2>1, NextSurvives
<1>2. IInv /\ IInv' /\ [RunnerNext]_runnerVars =>
        [/\ rows \subseteq rows'
         /\ AttemptsFollowOn'
         /\ \A a \in artifacts : \E b \in artifacts' : SameExecution(a, b)
         /\ \A t \in Threads :
              /\ Working(t) /\ task'[t].pc = "idle"
              /\ proc'[ProcessOf[t]].pc = "running"
              => \E r \in (rows' \ rows) \cup artifacts' : SameExecution(r, Result(t, "failed"))]_runnerVars
  BY <1>1 DEF Survives
<1> QED BY <1>2, InvHolds, PTL DEF RunnerSpec, ResultsSurvive

-----------------------------------------------------------------------------
(* How far a thread is through run_scenario.                               *)
Stage ==
  [idle |-> 0, lock |-> 7, reset |-> 6, inject |-> 5, verify |-> 4, submit |-> 3,
   cleanup |-> 2, persist |-> 1]

GoesOn(t) == Stage[task'[t].pc] < Stage[task[t].pc]

TakesOne(t) ==
  /\ task[t].pc = "idle"
  /\ \E s \in proc[ProcessOf[t]].todo :
       proc'[ProcessOf[t]].todo = proc[ProcessOf[t]].todo \ {s}

(* A command that was started is not started again, and gets nothing more  *)
(* to do.                                                                  *)
NothingAdded ==
  \A p \in Processes : proc[p].pc # "down" =>
    proc'[p].pc # "down" /\ proc'[p].todo \subseteq proc[p].todo

(* Whoever waits for a domain's lock waits for a thread of its own process *)
(* that has it, and is past waiting.                                       *)
WaitsForWork ==
  \A t \in Threads : At(t, "lock") =>
    LET u == holder[ProcessOf[t]][DomainAt(t)]
    IN  u = NoOne \/ (u \in Threads /\ ProcessOf[u] = ProcessOf[t] /\ Working(u))

LEMMA Stages ==
  /\ Stage["idle"] = 0 /\ Stage["lock"] = 7 /\ Stage["reset"] = 6 /\ Stage["inject"] = 5
  /\ Stage["verify"] = 4 /\ Stage["submit"] = 3 /\ Stage["cleanup"] = 2
  /\ Stage["persist"] = 1
  /\ \A t \in Threads : TypeInv => Stage[task[t].pc] \in 0..7
<1>1. \A pc \in {"idle", "lock", "reset", "inject", "verify", "submit", "cleanup", "persist"} :
        Stage[pc] \in 0..7
  BY DEF Stage
<1>2. \A t \in Threads : TypeInv =>
        task[t].pc \in {"idle", "lock", "reset", "inject", "verify", "submit", "cleanup", "persist"}
  BY DEF TypeInv, RunnerTypeOK, Progress
<1> QED BY <1>1, <1>2 DEF Stage

(* A step of a thread brings it nearer to the end of its scenario, or      *)
(* takes the next one off the list.                                        *)
LEMMA ThreadGoesOn ==
  ASSUME IInv, NEW t \in Threads, Work(t)
  PROVE  /\ GoesOn(t) \/ TakesOne(t)
         /\ \A u \in Threads \ {t} : task'[u].pc = task[u].pc
         /\ NothingAdded
<1>1. /\ TypeInv /\ ProcessOf[t] \in Processes
      /\ proc \in [Processes -> Command] /\ task \in [Threads -> Progress]
  BY Types DEF IInv
<1>2. CASE Take(t)
  <2>1. PICK s \in proc[ProcessOf[t]].todo :
          /\ task[t].pc = "idle"
          /\ proc' = [proc EXCEPT ![ProcessOf[t]].todo = @ \ {s}]
          /\ task' = [task EXCEPT ![t] = [Idle EXCEPT !.pc = "lock", !.scenario = s]]
    BY <1>2 DEF Take
  <2>2. /\ proc'[ProcessOf[t]].todo = proc[ProcessOf[t]].todo \ {s}
        /\ \A p \in Processes : proc'[p].pc = proc[p].pc /\ proc'[p].todo \subseteq proc[p].todo
    BY <1>1, <2>1 DEF Command
  <2>3. \A u \in Threads \ {t} : task'[u] = task[u] BY <1>1, <2>1
  <2> QED BY <2>1, <2>2, <2>3 DEF TakesOne, NothingAdded
<1>3. CASE AttemptUnknown(t)
  <2>1. /\ task[t].pc = "lock" /\ task' = [task EXCEPT ![t] = Idle]
        /\ proc' = [proc EXCEPT ![ProcessOf[t]].todo =
                      IF proc[ProcessOf[t]].sequential THEN {} ELSE @]
    BY <1>3 DEF AttemptUnknown, At
  <2>2. \A p \in Processes : proc'[p].pc = proc[p].pc /\ proc'[p].todo \subseteq proc[p].todo
    BY <1>1, <2>1 DEF Command
  <2>3. task'[t].pc = "idle" /\ \A u \in Threads \ {t} : task'[u] = task[u]
    BY <1>1, <2>1 DEF Idle
  <2> QED BY <2>1, <2>2, <2>3, Stages DEF GoesOn, NothingAdded
<1>4. CASE Begin(t)
  <2>1. /\ task[t].pc = "lock" /\ task'[t].pc \in {"cleanup", "reset"} /\ UNCHANGED proc
    BY <1>1, <1>4 DEF Begin, At, Progress
  <2>2. ASSUME NEW u \in Threads \ {t} PROVE task'[u].pc = task[u].pc
    <3>1. PICK strangers : task'[u] = [task[u] EXCEPT !.alone = @ /\ u \notin strangers]
      BY <1>4 DEF Begin
    <3> QED BY <1>1, <3>1 DEF Progress
  <2>3. GoesOn(t) BY <2>1, Stages DEF GoesOn
  <2> QED BY <2>1, <2>2, <2>3 DEF NothingAdded
<1>5. CASE Persist(t) \/ PersistFails(t)
  <2>1. /\ task[t].pc = "persist" /\ UNCHANGED proc /\ task' = [task EXCEPT ![t] = Idle]
    BY <1>5 DEF Persist, PersistFails, Return, At
  <2>2. task'[t].pc = "idle" /\ \A u \in Threads \ {t} : task'[u] = task[u]
    BY <1>1, <2>1 DEF Idle
  <2> QED BY <2>1, <2>2, Stages DEF GoesOn, NothingAdded
<1>6. CASE \/ Reset(t) \/ Inject(t) \/ Verify(t) \/ Submit(t) \/ Interrupt(t) \/ Cleanup(t)
  <2>1. UNCHANGED proc
    BY <1>6 DEF Reset, Inject, Verify, Submit, Interrupt, Cleanup
  <2>2. \/ task[t].pc = "reset" /\ To(t, "inject")
        \/ task[t].pc = "inject" /\ To(t, "verify")
        \/ task[t].pc = "verify" /\ To(t, "submit")
        \/ /\ task[t].pc \in {"reset", "inject", "verify", "submit"}
           /\ \E status : Ends(t, status)
        \/ task[t].pc = "cleanup" /\ \E status : task' = [task EXCEPT ![t].pc = "persist",
                                                                  ![t].status = status]
        \/ task[t].pc = "cleanup" /\ To(t, "persist")
    BY <1>6 DEF Reset, Inject, Verify, Submit, Interrupt, Cleanup, At
  <2>3. /\ \/ task[t].pc = "reset" /\ task'[t].pc = "inject"
           \/ task[t].pc = "inject" /\ task'[t].pc = "verify"
           \/ task[t].pc = "verify" /\ task'[t].pc = "submit"
           \/ task[t].pc \in {"reset", "inject", "verify", "submit"} /\ task'[t].pc = "cleanup"
           \/ task[t].pc = "cleanup" /\ task'[t].pc = "persist"
        /\ \A u \in Threads \ {t} : task'[u] = task[u]
    BY <1>1, <2>2 DEF To, Ends, Progress
  <2>4. GoesOn(t) BY <2>3, Stages DEF GoesOn
  <2> QED BY <2>1, <2>3, <2>4 DEF NothingAdded
<1> QED BY <1>2, <1>3, <1>4, <1>5, <1>6 DEF Work

(* NoOne else throws a thread back: what the application does with its    *)
(* question, and the end or the death of a process.                        *)
LEMMA OthersLeaveIt ==
  ASSUME IInv,
         \/ \E p \in Processes : Starting(p) \/ Finish(p) \/ Kill(p)
         \/ \E t \in Threads : Investigate(t) \/ SubmitAgain(t)
  PROVE  /\ \A u \in Threads : task'[u].pc \in {task[u].pc, "idle"}
         /\ NothingAdded
<1>1. /\ TypeInv /\ proc \in [Processes -> Command] /\ task \in [Threads -> Progress]
  BY Types DEF IInv
<1>2. ASSUME NEW p \in Processes, Starting(p)
      PROVE  UNCHANGED task /\ NothingAdded
  <2>1. PICK command \in CommandNames, run \in Processes, selected \in SUBSET Scenarios :
          Start(p, command, run, selected)
    BY <1>2, StartingStarts
  <2>2. \A q \in Processes \ {p} : proc'[q] = proc[q] BY <1>1, <2>1 DEF Start
  <2> QED BY <2>1, <2>2 DEF Start, NothingAdded
<1>3. ASSUME NEW p \in Processes, Finish(p)
      PROVE  UNCHANGED task /\ NothingAdded
  <2>1. proc' = [proc EXCEPT ![p].pc = "ended"] /\ UNCHANGED task BY <1>3 DEF Finish
  <2>2. \A q \in Processes : proc'[q].todo = proc[q].todo /\ proc'[q].pc \in {"ended", proc[q].pc}
    BY <1>1, <2>1 DEF Command
  <2> QED BY <2>1, <2>2 DEF NothingAdded
<1>4. ASSUME NEW p \in Processes, Kill(p)
      PROVE  (\A u \in Threads : task'[u].pc \in {task[u].pc, "idle"}) /\ NothingAdded
  <2>1. /\ proc' = [proc EXCEPT ![p].pc = "killed"]
        /\ task' = [t \in Threads |-> IF ProcessOf[t] = p THEN Idle ELSE task[t]]
    BY <1>4 DEF Kill
  <2>2. \A q \in Processes : proc'[q].todo = proc[q].todo /\ proc'[q].pc \in {"killed", proc[q].pc}
    BY <1>1, <2>1 DEF Command
  <2>3. \A u \in Threads : task'[u].pc \in {task[u].pc, "idle"} BY <2>1 DEF Idle
  <2> QED BY <2>2, <2>3 DEF NothingAdded
<1>5. ASSUME NEW t \in Threads, Investigate(t) \/ SubmitAgain(t)
      PROVE  (\A u \in Threads : task'[u].pc = task[u].pc) /\ NothingAdded
  <2>1. PICK v \in BOOLEAN : task' = [task EXCEPT ![t].pure = v] /\ UNCHANGED proc
    BY <1>5 DEF Investigate, SubmitAgain
  <2>2. \A u \in Threads : task'[u].pc = task[u].pc BY <1>1, <2>1 DEF Progress
  <2> QED BY <2>1, <2>2 DEF NothingAdded
<1> QED BY <1>2, <1>3, <1>4, <1>5

(* A command cannot go on for ever, short of an application that is asked  *)
(* again and again: its threads only go on with a scenario or take one off *)
(* a list that nothing refills, whatever fails and whoever dies; and no    *)
(* thread waits for a lock but for one that works.  (What is left to       *)
(* assume of RunEnds is that threads take their next step.)                *)
THEOREM RunsUseUpTheirScenarios ==
  RunnerSpec => /\ []WaitsForWork
          /\ [][/\ NothingAdded
                /\ \A t \in Threads : Work(t) => GoesOn(t) \/ TakesOne(t)
                /\ \A t \in Threads :
                     Stage[task'[t].pc] <= Stage[task[t].pc] \/ TakesOne(t)]_runnerVars
<1>1. IInv => WaitsForWork
  <2> SUFFICES ASSUME IInv, NEW t \in Threads, At(t, "lock"),
                      holder[ProcessOf[t]][DomainAt(t)] # NoOne
               PROVE  \E u \in Threads : /\ u = holder[ProcessOf[t]][DomainAt(t)]
                                         /\ ProcessOf[u] = ProcessOf[t] /\ Working(u)
    BY DEF WaitsForWork
  <2>1. DomainAt(t) \in Domains /\ ProcessOf[t] \in Processes
    BY RunnerAssumption DEF IInv, TypeInv, StageInv, DomainAt, At
  <2> QED BY <2>1 DEF IInv, TypeInv, RunnerTypeOK
<1>2. ASSUME IInv, IInv', RunnerNext
      PROVE  /\ NothingAdded
             /\ \A t \in Threads : Work(t) => GoesOn(t) \/ TakesOne(t)
             /\ \A t \in Threads :
                  Stage[task'[t].pc] <= Stage[task[t].pc] \/ TakesOne(t)
  <2>1. \A t \in Threads : Stage[task[t].pc] \in 0..7 BY <1>2, Stages DEF IInv
  <2>2. \A t \in Threads : Stage[task'[t].pc] \in 0..7
    <3>1. \A t \in Threads : task'[t].pc \in
            {"idle", "lock", "reset", "inject", "verify", "submit", "cleanup", "persist"}
      BY <1>2 DEF IInv, TypeInv, RunnerTypeOK, Progress
    <3> QED BY <3>1, Stages
  <2>3. \A t \in Threads : Work(t) => GoesOn(t) \/ TakesOne(t) BY <1>2, ThreadGoesOn
  <2>4. CASE \E t \in Threads : Work(t)
    <3>1. PICK t \in Threads : Work(t) BY <2>4
    <3>2. /\ GoesOn(t) \/ TakesOne(t)
          /\ \A u \in Threads \ {t} : task'[u].pc = task[u].pc
          /\ NothingAdded
      BY <1>2, <3>1, ThreadGoesOn
    <3> QED BY <2>1, <2>2, <2>3, <3>2 DEF GoesOn
  <2>5. CASE ~\E t \in Threads : Work(t)
    <3>1. /\ \A u \in Threads : task'[u].pc \in {task[u].pc, "idle"}
          /\ NothingAdded
      BY <1>2, <2>5, OthersLeaveIt DEF RunnerNext, Starting
    <3> QED BY <2>1, <2>2, <2>3, <3>1, Stages
  <2> QED BY <2>4, <2>5
<1>3. IInv /\ IInv' /\ [RunnerNext]_runnerVars =>
        [/\ NothingAdded
         /\ \A t \in Threads : Work(t) => GoesOn(t) \/ TakesOne(t)
         /\ \A t \in Threads :
              Stage[task'[t].pc] <= Stage[task[t].pc] \/ TakesOne(t)]_runnerVars
  BY <1>2
<1> QED BY <1>1, <1>3, InvHolds, PTL DEF RunnerSpec
==============================================================================
