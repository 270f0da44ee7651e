--------------------------- MODULE MCServerProcess ---------------------------
EXTENDS ServerProcess, TLC

\* The second version changes the credentials alone.
MCPlace == [v \in Versions |-> "host"]

\* Three asks for the slots and the circuit; a check, whose connector has the
\* key an ask's would have, beside two pages with theirs.
Several(f, k, n) == Cardinality({r \in Requests : f[r] = k}) = n

MCArrivals ==
    {f \in [Requests -> Kinds] :
        \/ Several(f, "ask", 3)
        \/ Several(f, "check", 1) /\ Several(f, "page", 2)}

\* The mixes are closed under renaming of the requests, and no property
\* names one.
Interchangeable == Permutations(Requests)
=============================================================================
