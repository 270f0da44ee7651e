---------------------------- MODULE ConnectorPool ----------------------------
(***************************************************************************)
(* The process-wide pool of customer database connectors, db/connector.py, *)
(* for one saved connection (the pool is a dictionary and its entries do   *)
(* not touch each other).  Every operation of ConnectionPool is atomic     *)
(* under its lock except its last step: the connector it throws out is     *)
(* disconnected after the lock is released, by the thread that threw it    *)
(* out.  Disconnect is that step.                                          *)
(*                                                                         *)
(* A connector carries the name of the request that constructed it: one    *)
(* request constructs at most one.                                         *)
(***************************************************************************)
EXTENDS Naturals

CONSTANTS
    Requests,       \* the requests the server serves; they name the connectors
    Admin,          \* the administrator who edits the saved connection
    None,           \* Python's None
    MaxVersions,    \* versions of the saved connection's configuration
    Place           \* host, port and database of each version

Versions == 1..MaxVersions
Kinds == {"ask", "check", "page"}

ASSUME PoolAssumption ==
    /\ MaxVersions \in Nat \ {0}
    /\ None \notin Requests
    /\ Admin \notin Requests

VARIABLES
    pooled,     \* _connections[connection_id]: a connector or None
    poolKey,    \* _cache_keys[connection_id]
    built,      \* version of the connection string each connector was built from
    open,       \* connectors whose _engine is not None
    stale       \* the connector an actor has thrown out and must disconnect

poolVars == <<pooled, poolKey, built, open, stale>>

(***************************************************************************)
(* Two fingerprints are in use: investigations and checks use              *)
(* _connection_configuration_key, which changes with the secret reference  *)
(* and so with every new connection string; the pages of the connections   *)
(* router use connector_cache_key, which leaves the credentials out.       *)
(***************************************************************************)
Key(kind, v) ==
    IF kind = "page" THEN <<"place", Place[v]>> ELSE <<"configuration", v>>

Keys == {Key(k, v) : k \in Kinds, v \in Versions} \union {None}

PoolTypeOK ==
    /\ pooled \in Requests \union {None}
    /\ poolKey \in Keys
    /\ built \in [Requests -> Versions \union {0}]
    /\ open \in SUBSET Requests
    /\ stale \in [Requests \union {Admin} -> Requests \union {None}]

PoolInit ==
    /\ pooled = None
    /\ poolKey = None
    /\ built = [r \in Requests |-> 0]
    /\ open = {}
    /\ stale = [a \in Requests \union {Admin} |-> None]

\* Fault: the connection strings are not compared.
MatchesKeyAlone(k, v) == pooled # None /\ poolKey = k

\* Fault: the pool compares with the pages' fingerprint always.
MatchesPlace(k, v) ==
    pooled # None /\ poolKey = <<"place", Place[v]>> /\ built[pooled] = v

\* The pooled connector serves version v under key k.  The connection
\* string is compared as well as the key.
Matches(k, v) == pooled # None /\ poolKey = k /\ built[pooled] = v

\* The connector get_or_create returns to request r.
Chosen(r, k, v) == IF Matches(k, v) THEN pooled ELSE r

\* get_or_create: a connector that does not match is replaced by a new one,
\* not yet connected.
GetOrCreate(r, k, v) ==
    IF Matches(k, v)
    THEN UNCHANGED poolVars
    ELSE /\ stale' = [stale EXCEPT ![r] = pooled]
         /\ pooled' = r
         /\ poolKey' = k
         /\ built' = [built EXCEPT ![r] = v]
         /\ UNCHANGED open

\* pop the entry; actor a disconnects the connector later.
PopEntry(a) ==
    /\ stale' = [stale EXCEPT ![a] = pooled]
    /\ pooled' = None
    /\ poolKey' = None
    /\ UNCHANGED <<built, open>>

\* get_existing compares the keys alone, and throws a mismatch out.
Existing(k) == IF pooled # None /\ poolKey = k THEN pooled ELSE None

GetExisting(r, k) ==
    IF pooled = None \/ poolKey = k THEN UNCHANGED poolVars ELSE PopEntry(r)

\* The thread that threw a connector out disconnects it, whoever else holds it.
Disconnect(a) ==
    /\ stale[a] # None
    /\ open' = open \ {stale[a]}
    /\ stale' = [stale EXCEPT ![a] = None]
    /\ UNCHANGED <<pooled, poolKey, built>>

\* connect() stores a new engine before it has tried it, and takes it away
\* again, from every holder of the connector, when the trial fails.
StoreEngine(c) == open' = open \union {c} /\ UNCHANGED <<pooled, poolKey, built, stale>>
DropEngine(c) == open' = open \ {c} /\ UNCHANGED <<pooled, poolKey, built, stale>>
=============================================================================
