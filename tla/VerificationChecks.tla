-------------------------- MODULE VerificationChecks --------------------------
(***************************************************************************)
(* The verification checks of a stored investigation: which ones are       *)
(* suggested (services/evidence_verification_agent.py), and the requests   *)
(* of routers/chat.py that run or skip them and write the investigation's  *)
(* report anew.  The audit event of a check flushes its row, which stays   *)
(* locked until the request commits; a statement sees what is committed.   *)
(***************************************************************************)
EXTENDS Naturals, FiniteSets

CONSTANTS
    Sessions,       \* requests on the checks
    Situations      \* the investigations whose checks they are about

VARIABLES
    facts,          \* what the investigation has collected
    checks,         \* committed status of each suggested check
    report,         \* the statuses in the investigation's committed report
    listed,         \* the checks it lists among the results
    checking,       \* where each request stands
    seen,           \* the statuses each request found when it began
    todo,           \* checks each request has yet to run or skip
    written,        \* the statuses in each request's transaction
    view,           \* the statuses in the report each request has composed
    overlapped      \* two requests have been under way at once

checkVars == <<facts, checks, report, listed, checking, seen, todo, written, view, overlapped>>

Facts == [focus : BOOLEAN, known : BOOLEAN, engine : BOOLEAN,
          parent : {"none", "joined", "inferred"},
          gated : BOOLEAN, duplicate : BOOLEAN, states : BOOLEAN, missing : BOOLEAN,
          writer : BOOLEAN, ranked : BOOLEAN, logged : BOOLEAN, guarded : BOOLEAN]

ASSUME ChecksAssumption == Situations \subseteq Facts

Outcomes == {"Verified", "Partially Verified", "Not Enough Evidence",
             "VERIFICATION_PARAMETER_MISSING"}
CheckStatus == Outcomes \union {"Pending", "Unsupported", "Skipped"}

----------------------------------------------------------------------------
\* suggest_verification_checks: a claim is offered for what was found, ...
Suggested(f) ==
    {"the SQL is read-only"}
    \union {c \in {"affected object"} : f.focus}
    \union {c \in {"parent object"} : f.focus /\ f.parent # "none"}
    \union {c \in {"evidence gate"} : f.gated}
    \union {c \in {"duplicate"} : f.duplicate}
    \union {c \in {"missing record"} : f.missing}
    \union {c \in {"writer"} : f.focus /\ f.writer}
    \union {c \in {"execution path"} : f.focus /\ f.ranked}
    \union {c \in {"recommended fix"} : f.guarded}

\* ... with an SQL statement unless it would have to query the schema of an
\* engine that is not known.
ReadOnly(f, c) ==
    CASE c = "affected object" -> f.known => f.engine
      [] c = "parent object"   -> f.parent = "joined" \/ f.engine
      [] OTHER                 -> TRUE

Expected(f, c) ==
    CASE c = "execution path" /\ ~f.logged -> "partial"
      [] c = "writer"                      -> "containing"
      [] c = "duplicate" /\ f.states       -> "states"
      [] OTHER                             -> "rows"

CheckAnswers == {"unbound", "error", "none", "rows", "matching rows"}

\* execute_verification_check and _status_from_expected.
StatusFor(expected, answer) ==
    CASE answer = "unbound"            -> "VERIFICATION_PARAMETER_MISSING"
      [] answer \in {"error", "none"}  -> "Not Enough Evidence"
      [] expected = "partial"          -> "Partially Verified"
      [] expected = "rows"             -> "Verified"
      [] OTHER -> IF answer = "matching rows" THEN "Verified" ELSE "Partially Verified"

\* The stored ones.
Checks == DOMAIN checks

\* Fault: only the status says that there is nothing to run.
ExecutableStatus(c) == checks[c] # "Unsupported"

\* An unsupported check is not read-only, and its SQL is empty.
Executable(c) == ReadOnly(facts, c) /\ checks[c] # "Unsupported"

AsSuggested(f) ==
    [c \in Suggested(f) |-> IF ReadOnly(f, c) THEN "Pending" ELSE "Unsupported"]

Unseen == <<>>

CheckTypeOK ==
    /\ facts \in Facts
    /\ checks \in [Suggested(facts) -> CheckStatus]
    /\ report \in [Suggested(facts) -> CheckStatus]
    /\ listed \subseteq Checks
    /\ checking \in [Sessions -> {"new", "executing", "skipping", "reporting", "composed", "over"}]
    /\ todo \in [Sessions -> SUBSET Checks]

ChecksInit ==
    /\ facts \in Situations
    /\ checks = AsSuggested(facts)
    /\ report = AsSuggested(facts)
    /\ listed = {}
    /\ checking = [s \in Sessions |-> "new"]
    /\ seen = [s \in Sessions |-> Unseen]
    /\ todo = [s \in Sessions |-> {}]
    /\ written = [s \in Sessions |-> Unseen]
    /\ view = [s \in Sessions |-> Unseen]
    /\ overlapped = FALSE

----------------------------------------------------------------------------
Active(s) == checking[s] \notin {"new", "over"}
Locked(c) == \E s \in Sessions : c \in DOMAIN written[s]

Begin(s, first, chosen) ==
    /\ checking[s] = "new"
    /\ checking' = [checking EXCEPT ![s] = first]
    /\ seen' = [seen EXCEPT ![s] = checks]
    /\ todo' = [todo EXCEPT ![s] = chosen]
    /\ overlapped' = (overlapped \/ \E t \in Sessions \ {s} : Active(t))
    /\ UNCHANGED <<facts, checks, report, listed, written, view>>

RunCheck(s, c) == Executable(c) /\ Begin(s, "executing", {c})

SkipCheck(s, c) == Begin(s, "skipping", {c})

RunAll(s) == Begin(s, "executing", {c \in Checks : checks[c] = "Pending"})

\* The evaluation administrator's request writes the report alone.
RegenerateReports(s) == Begin(s, "reporting", {})

\* The row is written and locked when its audit event is recorded.
Write(s, c, new) ==
    /\ ~Locked(c)
    /\ written' = [written EXCEPT ![s] = [d \in DOMAIN @ \union {c} |->
                                            IF d = c THEN new ELSE @[d]]]
    /\ todo' = [todo EXCEPT ![s] = @ \ {c}]
    /\ UNCHANGED <<facts, checks, report, listed, checking, seen, view, overlapped>>

\* The checks of run-all are executed in the order of their creation.
ExecuteCheck(s, c, answer) ==
    /\ checking[s] = "executing" /\ c \in todo[s]
    /\ Write(s, c, StatusFor(Expected(facts, c), answer))

Skip(s, c) == checking[s] = "skipping" /\ c \in todo[s] /\ Write(s, c, "Skipped")

\* The report shows the request's own rows, and the others as committed.
Overlay(s) ==
    [c \in Checks |-> IF c \in DOMAIN written[s] THEN written[s][c] ELSE checks[c]]

Regenerate(s) ==
    /\ checking[s] \in {"executing", "skipping", "reporting"} /\ todo[s] = {}
    /\ view' = [view EXCEPT ![s] = Overlay(s)]
    /\ checking' = [checking EXCEPT ![s] = "composed"]
    /\ UNCHANGED <<facts, checks, report, listed, seen, todo, written, overlapped>>

Leave(s) ==
    /\ checking' = [checking EXCEPT ![s] = "over"]
    /\ written' = [written EXCEPT ![s] = Unseen]
    /\ view' = [view EXCEPT ![s] = Unseen]
    /\ todo' = [todo EXCEPT ![s] = {}]
    /\ seen' = [seen EXCEPT ![s] = Unseen]
    /\ UNCHANGED <<facts, overlapped>>

\* Whatever is neither pending nor skipped is listed as a result, a check
\* that could not be run included.
ResultsIn(statuses) ==
    {c \in DOMAIN statuses : statuses[c] \notin {"Pending", "Skipped"}}

\* A status goes into the UPDATE only if it is not the one that was loaded.
Commit(s) ==
    /\ checking[s] = "composed"
    /\ checks' = [c \in Checks |->
                    IF c \in DOMAIN written[s] /\ written[s][c] # seen[s][c]
                      THEN written[s][c] ELSE checks[c]]
    /\ report' = view[s]
    /\ listed' = ResultsIn(view[s])
    /\ Leave(s)

\* No connection, no permission, a report that cannot be stored, a crash.
Abandon(s) == Active(s) /\ Leave(s) /\ UNCHANGED <<checks, report, listed>>

Request(s) ==
    \/ \E c \in Checks : RunCheck(s, c) \/ SkipCheck(s, c) \/ Skip(s, c)
    \/ RunAll(s) \/ RegenerateReports(s)
    \/ \E c \in Checks, answer \in CheckAnswers : ExecuteCheck(s, c, answer)
    \/ Regenerate(s) \/ Commit(s) \/ Abandon(s)

ChecksNext == \E s \in Sessions : Request(s)

ChecksSpec == ChecksInit /\ [][ChecksNext]_checkVars

----------------------------------------------------------------------------
\* A check without a statement never gets a result, even after it has been
\* skipped and its status no longer says so.
UnsupportedNeverExecuted ==
    \A c \in Checks : ~ReadOnly(facts, c) => checks[c] \in {"Unsupported", "Skipped"}

\* The report never lists a check among its results while it is pending,
\* in whichever order requests read, run, skip and commit.
ReportIsNotAhead == \A c \in listed : checks[c] # "Pending"

\* Requests that follow each other leave a report that shows every check as
\* it is (docs/developer_flow.md, 5).  Of requests at once the last to commit
\* may write a report older than the statuses.
ReportIsCurrent ==
    ~overlapped /\ (\A s \in Sessions : ~Active(s)) => report = checks

\* "Verification results were produced only after a user approved execution",
\* says the report above them (routers/chat.py:1977).  Violated: a check
\* without a statement, which nobody can execute, is listed too.
ResultsWereExecuted == \A c \in listed : ReadOnly(facts, c)

\* What is stored of an investigation's checks is what was done with them.
ChecksAreAccountedFor ==
    CheckTypeOK /\ UnsupportedNeverExecuted /\ ReportIsNotAhead /\ ReportIsCurrent
=============================================================================
