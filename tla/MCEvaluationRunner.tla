-------------------------- MODULE MCEvaluationRunner --------------------------
EXTENDS EvaluationRunner, TLC

CONSTANTS p1, p2, t1, t2, t3, a1, a2, A

\* The first process has a pool of two threads, the second a single one; both
\* scenarios share a database, and the second process is set to an engine
\* that a1 is not for.
MCProcessOf == (t1 :> p1) @@ (t2 :> p1) @@ (t3 :> p2)
MCMainThread == (p1 :> t1) @@ (p2 :> t3)
MCCommands == (p1 :> {"run", "resume"}) @@ (p2 :> {"pilot-smoke", "rerun-failed"})
MCDomainOf == [s \in Scenarios |-> A]
MCPilot == [d \in Domains |-> a2]
MCSupported == (p1 :> Scenarios) @@ (p2 :> {a2})
MCPlace == (a1 :> 1) @@ (a2 :> 2)
=============================================================================
