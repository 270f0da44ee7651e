-------------------------- MODULE ServerProcessProofs --------------------------
(***************************************************************************)
(* The invariants of ServerProcess for any number of requests, slots,      *)
(* attempts and versions.                                                  *)
(***************************************************************************)
EXTENDS ServerProcess, FiniteSetTheorems, TLAPS

Actors == Requests \union {Admin}

----------------------------------------------------------------------------
(* Types and slots go together: a release keeps the count above zero only   *)
(* because every run in progress holds one of the slots taken.  What a      *)
(* request has at hand follows from where it stands.                        *)

Runs == {r \in Requests : InRun(r)}

AtHand(r) ==
    /\ pc[r] \in {"read", "missing"} => config[r] \in Versions
    /\ pc[r] \in {"connect", "probe", "reprobe", "use"} => held[r] # None
    /\ pc[r] \in {"think", "calling"} => kind[r] = "ask"
    /\ pc[r] \notin {"think", "calling"} => attempt[r] = 0
    /\ pc[r] = "think" => attempt[r] < MaxAttempts

StageInv == \A r \in Requests : AtHand(r)

TypeInv == TypeOK /\ SlotsAccountedFor /\ StageInv

(* Connectors.  A request has no connector of its own making before it      *)
(* calls get_or_create; whoever holds a connector holds one built from the  *)
(* configuration it read; and the pool's key is the key of a configuration  *)
(* of the pooled connector's version.                                       *)

Unconnected == {"idle", "running", "read", "missing"}

FreshInv ==
    \A r \in Requests : pc[r] \in Unconnected => built[r] = 0 /\ held[r] = None

HeldInv ==
    \A r \in Requests :
        held[r] # None => config[r] \in Versions /\ built[held[r]] = config[r]

PoolInv ==
    pooled # None =>
        /\ built[pooled] \in Versions
        /\ \E k \in Kinds : poolKey = Key(k, built[pooled])

ConfigInv == FreshInv /\ HeldInv /\ PoolInv

(* Evictions.  Whoever holds the pooled connector agrees with the pool on   *)
(* its key, and a connector thrown out is never pooled again.               *)

AgreeInv ==
    \A r \in Requests :
        held[r] # None /\ held[r] = pooled => poolKey = Key(kind[r], config[r])

StaleInv ==
    \A a \in Actors : stale[a] # None => built[stale[a]] # 0 /\ stale[a] # pooled

EvictInv == AgreeInv /\ StaleInv /\ EvictionsHaveACause

(* The circuit.  The calls in flight when it opens are the only ones that   *)
(* can still fail: nobody submits another before the count is cleared.      *)

Calls == {r \in Requests : pc[r] = "calling"}

CircuitInv ==
    /\ OpenBecauseOfFailures
    /\ circuit = "closed" => failures < Threshold
    /\ circuit # "closed" => failures + Cardinality(Calls) <= Threshold + Slots - 1

----------------------------------------------------------------------------
(* Types and slots. *)

RequestTypeOK ==
    /\ pc \in [Requests -> Stages]
    /\ kind \in [Requests -> Kinds]
    /\ config \in [Requests -> Versions \union {0}]
    /\ held \in [Requests -> Requests \union {None}]
    /\ attempt \in [Requests -> 0..MaxAttempts]
    /\ taken \in 0..Slots
    /\ SlotsAccountedFor

LEMMA RunsFinite == IsFiniteSet(Runs) /\ Cardinality(Runs) \in Nat
<1>1. IsFiniteSet(Requests) BY ProcessAssumption
<1>2. Runs \subseteq Requests BY DEF Runs
<1>3. IsFiniteSet(Runs) BY <1>1, <1>2, FS_Subset
<1> QED BY <1>3, FS_CardinalityType

\* Moving on inside a run leaves the runs in progress as they are.
LEMMA MoveKeepsTypes ==
    ASSUME NEW r \in Requests, NEW s \in Stages \ {"idle", "done"},
           TypeInv, pc[r] \notin {"idle", "done"}, Goto(r, s),
           UNCHANGED <<kind, taken>>
    PROVE  pc' \in [Requests -> Stages] /\ SlotsAccountedFor'
<1>1. pc' = [pc EXCEPT ![r] = s] BY DEF Goto
<1>2. pc \in [Requests -> Stages] BY DEF TypeInv, TypeOK
<1>3. Runs' = Runs BY <1>1, <1>2 DEF Runs, InRun
<1> QED BY <1>1, <1>2, <1>3 DEF TypeInv, SlotsAccountedFor, Runs

\* Ending a run gives back a slot, and one was taken.
LEMMA EndKeepsTypes ==
    ASSUME NEW r \in Requests, TypeInv, pc[r] \notin {"idle", "done"}, End(r)
    PROVE  RequestTypeOK'
<1>1. /\ pc \in [Requests -> Stages]
      /\ config \in [Requests -> Versions \union {0}]
      /\ held \in [Requests -> Requests \union {None}]
      /\ attempt \in [Requests -> 0..MaxAttempts]
      /\ kind \in [Requests -> Kinds]
      /\ taken \in 0..Slots
  BY DEF TypeInv, TypeOK
<1>2. /\ pc' = [pc EXCEPT ![r] = "done"]
      /\ config' = [config EXCEPT ![r] = 0]
      /\ held' = [held EXCEPT ![r] = None]
      /\ attempt' = [attempt EXCEPT ![r] = 0]
      /\ kind' = kind
      /\ taken' = IF kind[r] = "ask" THEN taken - 1 ELSE taken
  BY DEF End, Goto, ReleaseSlot
<1>3. /\ pc' \in [Requests -> Stages]
      /\ config' \in [Requests -> Versions \union {0}]
      /\ held' \in [Requests -> Requests \union {None}]
      /\ attempt' \in [Requests -> 0..MaxAttempts]
      /\ kind' \in [Requests -> Kinds]
  BY <1>1, <1>2, ProcessAssumption, SMT DEF Stages
<1>4. taken = Cardinality(Runs) BY DEF TypeInv, SlotsAccountedFor, Runs
<1>5. taken' = Cardinality(Runs') /\ taken' \in 0..Slots
  <2>1. CASE kind[r] = "ask"
    <3>1. r \in Runs BY <2>1 DEF Runs, InRun
    <3>2. Runs' = Runs \ {r} BY <1>1, <1>2, <2>1 DEF Runs, InRun
    <3>3. Cardinality(Runs') = Cardinality(Runs) - 1
      BY <3>1, <3>2, RunsFinite, FS_RemoveElement
    <3>4. Runs # {} BY <3>1
    <3>5. Cardinality(Runs) # 0 BY <3>4, RunsFinite, FS_EmptySet
    <3> QED BY <1>1, <1>2, <1>4, <2>1, <3>3, <3>5, RunsFinite, ProcessAssumption
  <2>2. CASE kind[r] # "ask"
    <3>1. Runs' = Runs BY <1>1, <1>2, <2>2 DEF Runs, InRun
    <3> QED BY <1>1, <1>2, <1>4, <2>2, <3>1
  <2> QED BY <2>1, <2>2
<1> QED BY <1>3, <1>5 DEF RequestTypeOK, SlotsAccountedFor, Runs

\* An ask that starts takes the slot it will give back.
LEMMA StartKeepsTypes ==
    ASSUME NEW r \in Requests, TypeInv, Start(r)
    PROVE  RequestTypeOK'
<1>1. /\ pc \in [Requests -> Stages]
      /\ taken \in 0..Slots
      /\ taken = Cardinality(Runs)
  BY DEF TypeInv, TypeOK, SlotsAccountedFor, Runs
<1>2. /\ pc[r] = "idle"
      /\ pc' = [pc EXCEPT ![r] = "running"]
      /\ kind' = kind
  BY DEF Start, Goto, At
<1>3. taken' = Cardinality(Runs') /\ taken' \in 0..Slots
  <2>1. CASE kind[r] = "ask"
    <3>1. r \notin Runs BY <1>2 DEF Runs, InRun
    <3>2. Runs' = Runs \union {r} BY <1>1, <1>2, <2>1 DEF Runs, InRun
    <3>3. Cardinality(Runs') = Cardinality(Runs) + 1
      BY <3>1, <3>2, RunsFinite, FS_AddElement
    <3>4. taken < Slots /\ taken' = taken + 1 BY <2>1 DEF Start, TakeSlot
    <3> QED BY <1>1, <3>3, <3>4, ProcessAssumption
  <2>2. CASE kind[r] # "ask"
    <3>1. Runs' = Runs BY <1>1, <1>2, <2>2 DEF Runs, InRun
    <3>2. taken' = taken BY <2>2 DEF Start, TakeSlot
    <3> QED BY <1>1, <3>1, <3>2
  <2> QED BY <2>1, <2>2
<1>4. pc' \in [Requests -> Stages] BY <1>1, <1>2 DEF Stages
<1> QED BY <1>2, <1>3, <1>4 DEF TypeInv, TypeOK, RequestTypeOK, Start, SlotsAccountedFor, Runs

\* No operation of the pool leaves its types.
LEMMA PoolKeepsTypes ==
    ASSUME PoolTypeOK, NEW a \in Actors, NEW r \in Requests, NEW c \in Requests,
           NEW k \in Keys, NEW v \in Versions,
           \/ GetOrCreate(r, k, v) \/ GetExisting(r, k) \/ PopEntry(a)
           \/ Disconnect(a) \/ StoreEngine(c) \/ DropEngine(c)
           \/ UNCHANGED poolVars
    PROVE  PoolTypeOK'
<1>1. None \in Keys BY DEF Keys
<1>2. CASE GetOrCreate(r, k, v)
  BY <1>1, <1>2 DEF GetOrCreate, PoolTypeOK, poolVars, Actors
<1>3. CASE GetExisting(r, k) \/ PopEntry(a)
  BY <1>1, <1>3 DEF GetExisting, PopEntry, PoolTypeOK, poolVars, Actors
<1>4. CASE Disconnect(a)
  BY <1>4 DEF Disconnect, PoolTypeOK, Actors
<1>5. CASE StoreEngine(c) \/ DropEngine(c) \/ UNCHANGED poolVars
  BY <1>5 DEF StoreEngine, DropEngine, PoolTypeOK, poolVars
<1> QED BY <1>2, <1>3, <1>4, <1>5

LEMMA CircuitKeepsTypes ==
    ASSUME CircuitTypeOK,
           \/ BeforeCall \/ Success \/ TransientFailure \/ CoolDown
           \/ UNCHANGED circuitVars
    PROVE  CircuitTypeOK'
BY DEF CircuitTypeOK, BeforeCall, Success, Reset, TransientFailure, CoolDown, circuitVars

LEMMA KeysOfVersions ==
    \A k \in Kinds, v \in Versions : Key(k, v) \in Keys
BY DEF Keys

\* Ending leaves nothing at hand, for the request that ends, and changes
\* nothing for the others.
LEMMA EndKeepsStages ==
    ASSUME NEW r \in Requests, TypeInv, End(r)
    PROVE  StageInv'
<1>1. /\ pc' = [pc EXCEPT ![r] = "done"]
      /\ config' = [config EXCEPT ![r] = 0]
      /\ held' = [held EXCEPT ![r] = None]
      /\ attempt' = [attempt EXCEPT ![r] = 0]
      /\ kind' = kind
  BY DEF End, Goto
<1> QED BY <1>1 DEF TypeInv, TypeOK, StageInv, AtHand

\* A request that ends: everything but the pool and the circuit.
LEMMA EndIsTyped ==
    ASSUME NEW r \in Requests, TypeInv, pc[r] \notin {"idle", "done"}, End(r),
           PoolTypeOK', CircuitTypeOK', UNCHANGED rowVars
    PROVE  TypeInv'
<1>1. RequestTypeOK' BY EndKeepsTypes
<1>2. StageInv' BY EndKeepsStages
<1> QED BY <1>1, <1>2 DEF TypeInv, TypeOK, RequestTypeOK, rowVars

\* A request that moves on.
LEMMA MoveIsTyped ==
    ASSUME NEW r \in Requests, NEW s \in Stages \ {"idle", "done"},
           TypeInv, pc[r] \notin {"idle", "done"}, Goto(r, s),
           UNCHANGED <<kind, taken, rowVars>>,
           config' \in [Requests -> Versions \union {0}],
           held' \in [Requests -> Requests \union {None}],
           attempt' \in [Requests -> 0..MaxAttempts],
           \A q \in Requests \ {r} :
               /\ config'[q] = config[q]
               /\ held'[q] = held[q]
               /\ attempt'[q] = attempt[q],
           AtHand(r)', PoolTypeOK', CircuitTypeOK'
    PROVE  TypeInv'
<1>1. pc' \in [Requests -> Stages] /\ SlotsAccountedFor' BY MoveKeepsTypes
<1>2. \A q \in Requests \ {r} : pc'[q] = pc[q]
  BY DEF Goto, TypeInv, TypeOK
<1>3. StageInv' BY <1>2 DEF TypeInv, StageInv, AtHand
<1> QED BY <1>1, <1>3 DEF TypeInv, TypeOK, rowVars

\* A retry keeps the call's right to a stage, an end needs none.
LEMMA RetryIsTyped ==
    ASSUME NEW r \in Requests, TypeInv, pc[r] = "calling",
           RetryOrEnd(r) \/ End(r),
           PoolTypeOK', CircuitTypeOK', UNCHANGED rowVars
    PROVE  TypeInv'
<1>1. CASE End(r) BY <1>1, EndIsTyped
<1>2. CASE CanRetry(r) /\ Goto(r, "think") /\ UNCHANGED <<kind, config, held, attempt, taken>>
  <2>1. AtHand(r)' BY <1>2 DEF TypeInv, TypeOK, StageInv, AtHand, Goto, CanRetry
  <2> QED BY <1>2, <2>1, MoveIsTyped DEF TypeInv, TypeOK, Stages
<1> QED BY <1>1, <1>2 DEF RetryOrEnd

LEMMA ServeKeepsTypes ==
    ASSUME NEW r \in Requests, TypeInv, Serve(r)
    PROVE  TypeInv'
<1> USE DEF TypeInv
<1>0. /\ TypeOK /\ PoolTypeOK /\ CircuitTypeOK
      /\ AtHand(r)
      /\ r \in Actors
      /\ kind[r] \in Kinds
      /\ attempt[r] \in 0..MaxAttempts
      /\ held[r] \in Requests \union {None}
      /\ config[r] \in Versions \union {0}
  BY DEF TypeOK, StageInv, Actors
<1>1. CASE Start(r)
  <2>1. RequestTypeOK' BY <1>1, StartKeepsTypes
  <2>2. PoolTypeOK' /\ CircuitTypeOK' BY <1>0, <1>1, CircuitKeepsTypes DEF Start, poolVars, circuitVars, PoolTypeOK, CircuitTypeOK
  <2>3. StageInv' BY <1>0, <1>1 DEF Start, Goto, At, StageInv, AtHand, TypeOK
  <2> QED BY <1>1, <2>1, <2>2, <2>3 DEF Start, RequestTypeOK, TypeOK, rowVars
<1>2. CASE TurnAway(r)
  <2>1. Runs' = Runs BY <1>0, <1>2 DEF TurnAway, Goto, At, Runs, InRun, TypeOK
  <2>2. SlotsAccountedFor' BY <1>2, <2>1 DEF TurnAway, SlotsAccountedFor, Runs
  <2>3. StageInv' BY <1>0, <1>2 DEF TurnAway, Goto, At, StageInv, AtHand, TypeOK
  <2>4. TypeOK' BY <1>0, <1>2 DEF TurnAway, Goto, TypeOK, Stages, rowVars, poolVars, circuitVars, PoolTypeOK, CircuitTypeOK
  <2> QED BY <2>2, <2>3, <2>4
<1>3. CASE ReadConnection(r)
  <2>1. version \in Versions BY <1>0 DEF TypeOK
  <2>2. config' \in [Requests -> Versions \union {0}] BY <1>0, <1>3, <2>1 DEF ReadConnection, TypeOK
  <2>3. AtHand(r)' BY <1>0, <1>3, <2>1 DEF ReadConnection, AtHand, Goto, At, TypeOK
  <2>4. PoolTypeOK' /\ CircuitTypeOK' BY <1>0, <1>3 DEF ReadConnection, poolVars, circuitVars, PoolTypeOK, CircuitTypeOK
  <2> QED BY <1>0, <1>3, <2>2, <2>3, <2>4, MoveIsTyped DEF ReadConnection, At, TypeOK, Stages
<1>4. CASE \/ RefuseInactive(r) \/ SkipProvider(r) \/ CircuitRefuses(r) \/ FailsPermanently(r)
  <2>1. PoolTypeOK' /\ CircuitTypeOK'
    BY <1>0, <1>4 DEF RefuseInactive, SkipProvider, CircuitRefuses, FailsPermanently, poolVars, circuitVars, PoolTypeOK, CircuitTypeOK
  <2> QED BY <1>4, <2>1, EndIsTyped DEF RefuseInactive, SkipProvider, CircuitRefuses, FailsPermanently, At
<1>5. CASE FindExisting(r)
  <2> DEFINE k == Key(kind[r], config[r])
  <2>1. config[r] \in Versions /\ k \in Keys
    BY <1>0, <1>5, KeysOfVersions DEF FindExisting, At, AtHand
  <2>2. PoolTypeOK' BY <1>0, <1>5, <2>1, PoolKeepsTypes DEF FindExisting
  <2>3. CircuitTypeOK' BY <1>0, <1>5 DEF FindExisting, circuitVars, CircuitTypeOK
  <2>4. Existing(k) \in Requests \union {None} BY <1>0 DEF Existing, PoolTypeOK
  <2>5. held' \in [Requests -> Requests \union {None}] BY <1>0, <1>5, <2>4 DEF FindExisting, TypeOK
  <2>6. CASE Existing(k) = None
    <3>1. AtHand(r)' BY <1>0, <1>5, <2>1, <2>6 DEF FindExisting, AtHand, Goto, At, TypeOK
    <3> QED BY <1>0, <1>5, <2>2, <2>3, <2>5, <2>6, <3>1, MoveIsTyped DEF FindExisting, At, TypeOK, Stages
  <2>7. CASE Existing(k) # None
    <3>1. AtHand(r)' BY <1>0, <1>5, <2>7 DEF FindExisting, AtHand, Goto, At, TypeOK
    <3> QED BY <1>0, <1>5, <2>2, <2>3, <2>5, <2>7, <3>1, MoveIsTyped DEF FindExisting, At, TypeOK, Stages
  <2> QED BY <2>6, <2>7
<1>6. CASE Acquire(r)
  <2> DEFINE k == Key(kind[r], config[r])
             c == Chosen(r, k, config[r])
  <2>1. config[r] \in Versions /\ k \in Keys
    BY <1>0, <1>6, KeysOfVersions DEF Acquire, At, AtHand
  <2>2. PoolTypeOK' BY <1>0, <1>6, <2>1, PoolKeepsTypes DEF Acquire
  <2>3. CircuitTypeOK' BY <1>0, <1>6 DEF Acquire, circuitVars, CircuitTypeOK
  <2>4. c \in Requests BY <1>0 DEF Chosen, Matches, PoolTypeOK
  <2>5. held' = [held EXCEPT ![r] = c] BY <1>6 DEF Acquire
  <2>6. held' \in [Requests -> Requests \union {None}] /\ held'[r] # None
    BY <2>4, <2>5, <1>0, PoolAssumption DEF TypeOK
  <2>7. PICK s \in {"connect", "use"} : Goto(r, s) BY <1>6 DEF Acquire
  <2>8. AtHand(r)' BY <1>0, <1>6, <2>6, <2>7 DEF Acquire, AtHand, Goto, At, TypeOK
  <2> QED BY <1>0, <1>6, <2>2, <2>3, <2>5, <2>6, <2>7, <2>8, MoveIsTyped DEF Acquire, At, TypeOK, Stages
<1>7. CASE DisconnectStale(r)
  <2>1. PoolTypeOK' /\ CircuitTypeOK'
    BY <1>0, <1>7, PoolKeepsTypes, KeysOfVersions DEF DisconnectStale, circuitVars, CircuitTypeOK, Disconnect, PoolTypeOK, Actors
  <2> QED BY <1>7, <2>1 DEF DisconnectStale, requestVars, rowVars, TypeOK, StageInv, AtHand, SlotsAccountedFor, InRun
<1>8. CASE Connect(r)
  <2>1. held[r] \in Requests BY <1>0, <1>8 DEF Connect, At, AtHand
  <2>2. PoolTypeOK' BY <1>0, <1>8, <2>1 DEF Connect, StoreEngine, PoolTypeOK
  <2>3. CircuitTypeOK' BY <1>0, <1>8 DEF Connect, circuitVars, CircuitTypeOK
  <2>4. PICK s \in {"probe", "reprobe"} : Goto(r, s) BY <1>8 DEF Connect
  <2>5. AtHand(r)' BY <1>0, <1>8, <2>1, <2>4, PoolAssumption DEF Connect, AtHand, Goto, At, TypeOK
  <2> QED BY <1>0, <1>8, <2>2, <2>3, <2>4, <2>5, MoveIsTyped DEF Connect, At, TypeOK, Stages
<1>9. CASE ProbeSucceeds(r)
  <2>1. PoolTypeOK' /\ CircuitTypeOK' BY <1>0, <1>9 DEF ProbeSucceeds, poolVars, circuitVars, PoolTypeOK, CircuitTypeOK
  <2>2. AtHand(r)' BY <1>0, <1>9 DEF ProbeSucceeds, AtHand, Goto, At, TypeOK
  <2> QED BY <1>0, <1>9, <2>1, <2>2, MoveIsTyped DEF ProbeSucceeds, At, TypeOK, Stages
<1>10. CASE ProbeFails(r)
  <2>1. PoolTypeOK' /\ CircuitTypeOK'
    BY <1>0, <1>10 DEF ProbeFails, DropEngine, circuitVars, PoolTypeOK, CircuitTypeOK
  <2>2. CASE End(r) /\ (At(r, "probe") \/ At(r, "reprobe"))
    BY <1>10, <2>1, <2>2, EndIsTyped DEF ProbeFails, At
  <2>3. CASE /\ At(r, "reprobe") /\ kind[r] = "ask" /\ Goto(r, "think")
             /\ UNCHANGED <<kind, config, held, attempt, taken>>
    <3>1. AtHand(r)' BY <1>0, <2>3, ProcessAssumption DEF AtHand, Goto, At, TypeOK
    <3> QED BY <1>0, <1>10, <2>1, <2>3, <3>1, MoveIsTyped DEF ProbeFails, At, TypeOK, Stages
  <2> QED BY <1>10, <2>2, <2>3 DEF ProbeFails
<1>11. CASE Execute(r)
  <2>1. PoolTypeOK' /\ CircuitTypeOK' BY <1>0, <1>11 DEF Execute, poolVars, circuitVars, PoolTypeOK, CircuitTypeOK
  <2>2. CASE kind[r] = "ask"
    <3>1. AtHand(r)' BY <1>0, <1>11, <2>2, ProcessAssumption DEF Execute, AtHand, Goto, At, TypeOK
    <3> QED BY <1>0, <1>11, <2>1, <2>2, <3>1, MoveIsTyped DEF Execute, At, TypeOK, Stages
  <2>3. CASE kind[r] # "ask"
    BY <1>11, <2>1, <2>3, EndIsTyped DEF Execute, At
  <2> QED BY <2>2, <2>3
<1>12. CASE CallProvider(r)
  <2>1. PoolTypeOK' /\ CircuitTypeOK'
    BY <1>0, <1>12, CircuitKeepsTypes DEF CallProvider, poolVars, PoolTypeOK
  <2>2. /\ attempt[r] + 1 \in 0..MaxAttempts
        /\ attempt' = [attempt EXCEPT ![r] = attempt[r] + 1]
    BY <1>0, <1>12, ProcessAssumption DEF CallProvider, At, AtHand
  <2>3. attempt' \in [Requests -> 0..MaxAttempts] BY <1>0, <2>2 DEF TypeOK
  <2>4. AtHand(r)' BY <1>0, <1>12 DEF CallProvider, AtHand, Goto, At, TypeOK
  <2> QED BY <1>0, <1>12, <2>1, <2>2, <2>3, <2>4, MoveIsTyped DEF CallProvider, At, TypeOK, Stages
<1>13. CASE Answered(r) \/ FailsTransiently(r)
  <2>1. PoolTypeOK' /\ CircuitTypeOK'
    BY <1>0, <1>13, CircuitKeepsTypes DEF Answered, FailsTransiently, poolVars, PoolTypeOK
  <2> QED BY <1>13, <2>1, RetryIsTyped DEF Answered, FailsTransiently, At
<1> QED BY <1>1, <1>2, <1>3, <1>4, <1>5, <1>6, <1>7, <1>8, <1>9, <1>10, <1>11, <1>12, <1>13 DEF Serve

\* The administrator and the clock touch no request.
LEMMA OthersKeepTypes ==
    ASSUME TypeInv, Edit \/ CircuitCools
    PROVE  TypeInv'
<1>1. PoolTypeOK /\ CircuitTypeOK /\ TypeOK BY DEF TypeInv, TypeOK
<1>2. UNCHANGED requestVars
  BY DEF Edit, ChangeConnection, SetActive, CloseEntry, DisconnectClosed, CircuitCools
<1>3. PoolTypeOK' /\ CircuitTypeOK'
  <2>1. CASE ChangeConnection \/ SetActive
    BY <1>1, <2>1 DEF ChangeConnection, SetActive, poolVars, circuitVars, PoolTypeOK, CircuitTypeOK
  <2>2. CASE CloseEntry
    BY <1>1, <2>2 DEF CloseEntry, PopEntry, circuitVars, PoolTypeOK, CircuitTypeOK, Keys
  <2>3. CASE DisconnectClosed
    BY <1>1, <2>3 DEF DisconnectClosed, Disconnect, circuitVars, PoolTypeOK, CircuitTypeOK
  <2>4. CASE CircuitCools
    BY <1>1, <2>4, CircuitKeepsTypes DEF CircuitCools, poolVars, PoolTypeOK
  <2> QED BY <2>1, <2>2, <2>3, <2>4 DEF Edit
<1>4. version' \in Versions /\ active' \in BOOLEAN /\ editing' \in BOOLEAN
  <2>1. CASE ChangeConnection
    BY <1>1, <2>1, PoolAssumption DEF ChangeConnection, TypeOK, Versions
  <2>2. CASE SetActive \/ CloseEntry \/ DisconnectClosed \/ CircuitCools
    BY <1>1, <2>2 DEF SetActive, CloseEntry, DisconnectClosed, CircuitCools, TypeOK, rowVars
  <2> QED BY <2>1, <2>2 DEF Edit
<1> QED BY <1>1, <1>2, <1>3, <1>4
    DEF TypeInv, TypeOK, requestVars, SlotsAccountedFor, InRun, StageInv, AtHand

LEMMA InitIsTyped == Init => TypeInv
<1> SUFFICES ASSUME Init PROVE TypeInv OBVIOUS
<1>1. PoolTypeOK BY DEF Init, PoolInit, PoolTypeOK, Keys
<1>2. CircuitTypeOK BY DEF Init, CircuitInit, CircuitTypeOK
<1>3. TypeOK
  <2>1. kind \in [Requests -> Kinds] BY ProcessAssumption DEF Init
  <2>2. 0 \in 0..MaxAttempts /\ 0 \in 0..Slots /\ 1 \in Versions
    BY PoolAssumption, ProcessAssumption DEF Versions
  <2> QED BY <1>1, <1>2, <2>1, <2>2 DEF Init, TypeOK, Stages
<1>4. Runs = {} BY DEF Init, Runs, InRun
<1>5. SlotsAccountedFor BY <1>4, FS_EmptySet DEF Init, SlotsAccountedFor, Runs
<1>6. StageInv BY DEF Init, StageInv, AtHand
<1> QED BY <1>3, <1>5, <1>6 DEF TypeInv

LEMMA StepKeepsTypes == TypeInv /\ [Next]_vars => TypeInv'
<1> SUFFICES ASSUME TypeInv, [Next]_vars PROVE TypeInv' OBVIOUS
<1>1. CASE Next BY <1>1, ServeKeepsTypes, OthersKeepTypes DEF Next
<1>2. CASE UNCHANGED vars
  BY <1>2 DEF vars, requestVars, rowVars, poolVars, circuitVars, TypeInv, TypeOK,
     PoolTypeOK, CircuitTypeOK, SlotsAccountedFor, InRun, StageInv, AtHand
<1> QED BY <1>1, <1>2

\* However the requests interleave, the variables keep their types; in
\* particular the semaphore never goes below zero or over its bound and no
\* request makes more attempts than the settings allow.
THEOREM ProcessTypeCorrect == Spec => []TypeOK
<1>1. TypeInv => TypeOK BY DEF TypeInv
<1> QED BY <1>1, InitIsTyped, StepKeepsTypes, PTL DEF Spec

\* No way out of a run leaks a slot or gives one back twice (composition.py).
THEOREM SlotsAlwaysAccountedFor == Spec => []SlotsAccountedFor
<1>1. TypeInv => SlotsAccountedFor BY DEF TypeInv
<1> QED BY <1>1, InitIsTyped, StepKeepsTypes, PTL DEF Spec

----------------------------------------------------------------------------
(* Connectors. *)

\* What the requests hold is unaffected by a step that leaves the requests
\* and the entry alone.
LEMMA SameEntrySameConfig ==
    ASSUME ConfigInv, UNCHANGED <<pc, config, held, pooled, poolKey, built>>
    PROVE  ConfigInv'
BY DEF ConfigInv, FreshInv, HeldInv, PoolInv

LEMMA ThrowingOutKeepsConfig ==
    ASSUME ConfigInv, pooled' = None, UNCHANGED <<pc, config, held, built>>
    PROVE  ConfigInv'
BY DEF ConfigInv, FreshInv, HeldInv, PoolInv

\* A request that ends holds nothing.
LEMMA EndKeepsConfig ==
    ASSUME NEW r \in Requests, TypeInv, ConfigInv, End(r),
           UNCHANGED <<pooled, poolKey, built>>
    PROVE  ConfigInv'
<1>1. /\ pc' = [pc EXCEPT ![r] = "done"]
      /\ config' = [config EXCEPT ![r] = 0]
      /\ held' = [held EXCEPT ![r] = None]
  BY DEF End, Goto
<1> QED BY <1>1 DEF TypeInv, TypeOK, ConfigInv, FreshInv, HeldInv, PoolInv, Unconnected

\* A request that is not back before get_or_create keeps what it has.
LEMMA MoveKeepsConfig ==
    ASSUME NEW r \in Requests, NEW s \in Stages, TypeInv, ConfigInv, Goto(r, s),
           s \in Unconnected => pc[r] \in Unconnected,
           UNCHANGED <<config, held, pooled, poolKey, built>>
    PROVE  ConfigInv'
<1>1. pc' = [pc EXCEPT ![r] = s] BY DEF Goto
<1> QED BY <1>1 DEF TypeInv, TypeOK, ConfigInv, FreshInv, HeldInv, PoolInv

\* The fingerprint of a check tells its version: what get_existing finds by
\* key alone was built from that version.
LEMMA FoundByKey ==
    ASSUME ConfigInv, NEW v \in Versions, Existing(Key("check", v)) # None
    PROVE  built[pooled] = v
<1>1. pooled # None /\ poolKey = <<"configuration", v>> BY DEF Existing, Key
<1>2. PICK k \in Kinds : poolKey = Key(k, built[pooled]) BY <1>1 DEF ConfigInv, PoolInv
<1>3. CASE k = "page"
  <2>1. poolKey = <<"place", Place[built[pooled]]>> BY <1>2, <1>3 DEF Key
  <2> QED BY <1>1, <2>1
<1>4. CASE k # "page"
  <2>1. poolKey = <<"configuration", built[pooled]>> BY <1>2, <1>4 DEF Key
  <2> QED BY <1>1, <2>1
<1> QED BY <1>3, <1>4

\* Steps that leave the pool's entry alone: each moves the request on or
\* ends it.
LEMMA QuietStepKeepsConfig ==
    ASSUME NEW r \in Requests, TypeInv, ConfigInv,
           \/ Start(r) \/ TurnAway(r) \/ RefuseInactive(r) \/ Connect(r)
           \/ ProbeSucceeds(r) \/ ProbeFails(r) \/ Execute(r)
           \/ SkipProvider(r) \/ CallProvider(r) \/ CircuitRefuses(r)
           \/ Answered(r) \/ FailsTransiently(r) \/ FailsPermanently(r)
    PROVE  ConfigInv'
<1>1. UNCHANGED <<pooled, poolKey, built>>
  BY DEF Start, TurnAway, RefuseInactive, Connect, StoreEngine, ProbeSucceeds,
     ProbeFails, DropEngine, Execute, SkipProvider, CallProvider, CircuitRefuses,
     Answered, FailsTransiently, FailsPermanently, poolVars
<1>2. CASE End(r) BY <1>1, <1>2, EndKeepsConfig
<1>3. CASE ~End(r)
  <2>1. \E s \in Stages :
          /\ Goto(r, s)
          /\ s \in Unconnected => pc[r] \in Unconnected
          /\ UNCHANGED <<config, held>>
    <3>1. CASE Start(r) \/ TurnAway(r)
      <4>1. pc[r] \in Unconnected /\ UNCHANGED <<config, held>>
        BY <3>1 DEF Start, TurnAway, At, Unconnected
      <4>2. Goto(r, "running") \/ Goto(r, "done") BY <3>1 DEF Start, TurnAway
      <4>3. "running" \in Stages /\ "done" \in Stages BY DEF Stages
      <4> QED BY <4>1, <4>2, <4>3
    <3>2. CASE Connect(r)
      <4>1. Goto(r, "probe") \/ Goto(r, "reprobe") BY <3>2 DEF Connect
      <4> QED BY <3>2, <4>1 DEF Connect, Stages, Unconnected
    <3>3. CASE ProbeSucceeds(r) BY <3>3 DEF ProbeSucceeds, Stages, Unconnected
    <3>4. CASE ProbeFails(r) BY <1>3, <3>4 DEF ProbeFails, Stages, Unconnected
    <3>5. CASE Execute(r) BY <1>3, <3>5 DEF Execute, Stages, Unconnected
    <3>6. CASE CallProvider(r) BY <3>6 DEF CallProvider, Stages, Unconnected
    <3>7. CASE Answered(r) \/ FailsTransiently(r)
      BY <1>3, <3>7 DEF Answered, FailsTransiently, RetryOrEnd, Stages, Unconnected
    <3>8. CASE RefuseInactive(r) \/ SkipProvider(r) \/ CircuitRefuses(r) \/ FailsPermanently(r)
      BY <1>3, <3>8 DEF RefuseInactive, SkipProvider, CircuitRefuses, FailsPermanently
    <3> QED BY <3>1, <3>2, <3>3, <3>4, <3>5, <3>6, <3>7, <3>8
  <2> QED BY <1>1, <2>1, MoveKeepsConfig
<1> QED BY <1>2, <1>3

\* get_or_create returns the pooled connector only if it was built from the
\* caller's version, and installs a new one under the caller's key otherwise.
LEMMA AcquireKeepsConfig ==
    ASSUME NEW r \in Requests, TypeInv, ConfigInv, Acquire(r)
    PROVE  ConfigInv'
<1> DEFINE v == config[r]
           k == Key(kind[r], v)
           c == Chosen(r, k, v)
<1>1. /\ pc[r] \in {"read", "missing"} /\ v \in Versions /\ kind[r] \in Kinds
      /\ built \in [Requests -> Versions \union {0}]
      /\ held \in [Requests -> Requests \union {None}]
      /\ pc \in [Requests -> Stages]
      /\ pooled \in Requests \union {None}
  BY DEF Acquire, At, TypeInv, TypeOK, PoolTypeOK, StageInv, AtHand
<1>2. /\ held' = [held EXCEPT ![r] = c] /\ config' = config
      /\ \A q \in Requests \ {r} : pc'[q] = pc[q]
      /\ pc'[r] \notin Unconnected
  BY <1>1 DEF Acquire, Goto, Unconnected
<1>3. CASE Matches(k, v)
  <2>1. c = pooled /\ built[pooled] = v BY <1>3 DEF Chosen, Matches
  <2>2. UNCHANGED <<pooled, poolKey, built>> BY <1>3 DEF Acquire, GetOrCreate, poolVars
  <2> QED BY <1>1, <1>2, <2>1, <2>2 DEF ConfigInv, FreshInv, HeldInv, PoolInv
<1>4. CASE ~Matches(k, v)
  <2>1. /\ c = r /\ pooled' = r /\ poolKey' = k
        /\ built' = [built EXCEPT ![r] = v]
    BY <1>4 DEF Acquire, GetOrCreate, Chosen
  <2>2. built[r] = 0 BY <1>1 DEF ConfigInv, FreshInv, Unconnected
  <2>3. \A q \in Requests : held[q] # r
    BY <1>1, <2>2, PoolAssumption DEF ConfigInv, HeldInv, Versions
  <2>4. FreshInv' BY <1>1, <1>2, <2>1 DEF ConfigInv, FreshInv
  <2>5. HeldInv' BY <1>1, <1>2, <2>1, <2>3 DEF ConfigInv, HeldInv
  <2>6. PoolInv' BY <1>1, <2>1 DEF PoolInv
  <2> QED BY <2>4, <2>5, <2>6 DEF ConfigInv
<1> QED BY <1>3, <1>4

LEMMA FindExistingKeepsConfig ==
    ASSUME NEW r \in Requests, TypeInv, ConfigInv, FindExisting(r)
    PROVE  ConfigInv'
<1> DEFINE v == config[r]
           k == Key(kind[r], v)
<1>1. /\ pc[r] = "read" /\ kind[r] = "check" /\ v \in Versions
      /\ held \in [Requests -> Requests \union {None}]
      /\ pc \in [Requests -> Stages]
  BY DEF FindExisting, At, TypeInv, TypeOK, StageInv, AtHand
<1>2. /\ held' = [held EXCEPT ![r] = Existing(k)] /\ config' = config
      /\ pc' = [pc EXCEPT ![r] = IF Existing(k) = None THEN "missing" ELSE "use"]
      /\ built' = built
  BY DEF FindExisting, Goto, GetExisting, PopEntry, poolVars
<1>3. CASE Existing(k) # None
  <2>1. Existing(k) = pooled /\ poolKey = k BY <1>3 DEF Existing
  <2>2. built[pooled] = v BY <1>1, <1>3, FoundByKey
  <2>3. UNCHANGED <<pooled, poolKey>> BY <2>1 DEF FindExisting, GetExisting, poolVars
  <2> QED BY <1>1, <1>2, <1>3, <2>1, <2>2, <2>3
      DEF ConfigInv, FreshInv, HeldInv, PoolInv, Unconnected
<1>4. CASE Existing(k) = None
  <2>1. pooled' = None \/ UNCHANGED <<pooled, poolKey>>
    BY DEF FindExisting, GetExisting, PopEntry, poolVars
  <2>2. FreshInv' /\ HeldInv'
    BY <1>1, <1>2, <1>4 DEF ConfigInv, FreshInv, HeldInv, Unconnected
  <2>3. PoolInv' BY <1>2, <2>1 DEF ConfigInv, PoolInv
  <2> QED BY <2>2, <2>3 DEF ConfigInv
<1> QED BY <1>3, <1>4

LEMMA ReadConnectionKeepsConfig ==
    ASSUME NEW r \in Requests, TypeInv, ConfigInv, ReadConnection(r)
    PROVE  ConfigInv'
<1>1. /\ pc[r] = "running" /\ pc' = [pc EXCEPT ![r] = "read"]
      /\ config' = [config EXCEPT ![r] = version]
      /\ UNCHANGED <<held, pooled, poolKey, built>>
      /\ config \in [Requests -> Versions \union {0}]
      /\ pc \in [Requests -> Stages]
  BY DEF ReadConnection, At, Goto, poolVars, TypeInv, TypeOK
<1>2. held[r] = None BY <1>1 DEF ConfigInv, FreshInv, Unconnected
<1> QED BY <1>1, <1>2 DEF ConfigInv, FreshInv, HeldInv, PoolInv, Unconnected

LEMMA StepKeepsConfig == TypeInv /\ ConfigInv /\ [Next]_vars => ConfigInv'
<1> SUFFICES ASSUME TypeInv, ConfigInv, [Next]_vars PROVE ConfigInv' OBVIOUS
<1>1. ASSUME NEW r \in Requests, Serve(r) PROVE ConfigInv'
  <2>1. CASE DisconnectStale(r)
    BY <2>1, SameEntrySameConfig DEF DisconnectStale, Disconnect, requestVars
  <2>2. CASE ~DisconnectStale(r)
    BY <1>1, <2>2, QuietStepKeepsConfig, AcquireKeepsConfig, FindExistingKeepsConfig,
       ReadConnectionKeepsConfig DEF Serve
  <2> QED BY <2>1, <2>2
<1>2. CASE CloseEntry
  BY <1>2, ThrowingOutKeepsConfig DEF CloseEntry, PopEntry, requestVars
<1>3. CASE ChangeConnection \/ SetActive \/ DisconnectClosed \/ CircuitCools \/ UNCHANGED vars
  BY <1>3, SameEntrySameConfig DEF ChangeConnection, SetActive, DisconnectClosed,
     Disconnect, CircuitCools, vars, requestVars, poolVars
<1> QED BY <1>1, <1>2, <1>3 DEF Next, Edit

LEMMA InitConfig == Init => ConfigInv
BY DEF Init, PoolInit, ConfigInv, FreshInv, HeldInv, PoolInv

\* A request never runs a statement on a database it did not read in the
\* saved connection, whatever the pool does between its steps (connector.py).
THEOREM AlwaysUsesItsConfiguration == Spec => []UsesItsConfiguration
<1>1. ConfigInv => UsesItsConfiguration BY DEF ConfigInv, HeldInv, UsesItsConfiguration
<1>2. TypeInv /\ ConfigInv /\ [Next]_vars => (TypeInv /\ ConfigInv)'
  BY StepKeepsTypes, StepKeepsConfig
<1> QED BY <1>1, <1>2, InitIsTyped, InitConfig, PTL DEF Spec

----------------------------------------------------------------------------
(* Evictions. *)

\* A step of r that changes nothing of the pool but engines: r moves on,
\* ends, or, holding nothing, reads the saved connection.
LEMMA QuietStepKeepsEvictions ==
    ASSUME NEW r \in Requests, TypeInv, ConfigInv, EvictInv, stale[r] = None,
           UNCHANGED <<kind, pooled, poolKey, built, stale>>,
           \/ UNCHANGED <<config, held>>
           \/ End(r)
           \/ /\ held[r] = None
              /\ config' = [config EXCEPT ![r] = version]
              /\ held' = held
    PROVE  EvictInv'
<1>1. /\ held \in [Requests -> Requests \union {None}]
      /\ config \in [Requests -> Versions \union {0}]
  BY DEF TypeInv, TypeOK
<1>2. \A q \in Requests : held'[q] # None =>
        held'[q] = held[q] /\ config'[q] = config[q]
  BY <1>1 DEF End
<1>3. \A a \in Requests \ {r} : config'[a] = config[a]
  BY <1>1 DEF End
<1> QED BY <1>1, <1>2, <1>3 DEF EvictInv, AgreeInv, StaleInv, EvictionsHaveACause

\* What get_or_create throws out is the entry that does not match the
\* caller; who holds it agrees with the entry, not with the caller.
LEMMA AcquireKeepsEvictions ==
    ASSUME NEW r \in Requests, TypeInv, ConfigInv, EvictInv, Acquire(r)
    PROVE  EvictInv'
<1> DEFINE v == config[r]
           k == Key(kind[r], v)
           c == Chosen(r, k, v)
<1>1. /\ stale[r] = None /\ pc[r] \in {"read", "missing"} /\ v \in Versions
      /\ built \in [Requests -> Versions \union {0}]
      /\ held \in [Requests -> Requests \union {None}]
      /\ stale \in [Actors -> Requests \union {None}]
      /\ pooled \in Requests \union {None}
      /\ r \in Actors
  BY DEF Acquire, At, TypeInv, TypeOK, PoolTypeOK, StageInv, AtHand, Actors
<1>2. held' = [held EXCEPT ![r] = c] /\ UNCHANGED <<kind, config>>
  BY DEF Acquire
<1>3. CASE Matches(k, v)
  <2>1. c = pooled /\ poolKey = k /\ pooled # None BY <1>3 DEF Chosen, Matches
  <2>2. UNCHANGED <<pooled, poolKey, built, stale>> BY <1>3 DEF Acquire, GetOrCreate, poolVars
  <2>3. \A a \in Actors : stale[a] # pooled BY <2>1 DEF EvictInv, StaleInv
  <2>4. AgreeInv' BY <1>1, <1>2, <2>1, <2>2 DEF EvictInv, AgreeInv
  <2>5. EvictionsHaveACause' BY <1>1, <1>2, <2>1, <2>2, <2>3 DEF EvictInv, EvictionsHaveACause, Actors
  <2> QED BY <2>2, <2>4, <2>5 DEF EvictInv, StaleInv
<1>4. CASE ~Matches(k, v)
  <2>1. /\ c = r /\ pooled' = r /\ poolKey' = k
        /\ built' = [built EXCEPT ![r] = v]
        /\ stale' = [stale EXCEPT ![r] = pooled]
    BY <1>4 DEF Acquire, GetOrCreate, Chosen
  <2>2. built[r] = 0 /\ v # 0 BY <1>1 DEF ConfigInv, FreshInv, Unconnected, Versions
  <2>3. \A q \in Requests : held[q] # r
    BY <1>1, <2>2, PoolAssumption DEF ConfigInv, HeldInv, Versions
  <2>4. pooled # None => built[pooled] # 0 /\ pooled # r
    BY <2>2, PoolAssumption DEF ConfigInv, PoolInv, Versions
  <2>5. \A a \in Actors : stale[a] # None => built[stale[a]] # 0 /\ stale[a] # r
    BY <2>2 DEF EvictInv, StaleInv
  <2>6. AgreeInv' BY <1>1, <1>2, <2>1, <2>3, PoolAssumption DEF AgreeInv
  <2>7. StaleInv'
    <3> SUFFICES ASSUME NEW a \in Actors, stale'[a] # None
                 PROVE  built'[stale'[a]] # 0 /\ stale'[a] # r
      BY <2>1 DEF StaleInv
    <3>1. CASE a = r BY <1>1, <2>1, <2>4, <3>1
    <3>2. CASE a # r BY <1>1, <2>1, <2>5, <3>2
    <3> QED BY <3>1, <3>2
  <2>8. EvictionsHaveACause'
    <3> SUFFICES ASSUME NEW q \in Requests, NEW a \in Requests,
                        held'[q] # None, stale'[a] = held'[q]
                 PROVE  \/ config[a] # config[q]
                        \/ Key(kind[a], config[a]) # Key(kind[q], config[q])
      BY <1>2 DEF EvictionsHaveACause
    <3>1. q # r
      <4>1. SUFFICES ASSUME q = r PROVE FALSE OBVIOUS
      <4>2. stale'[a] = r BY <1>1, <1>2, <2>1, <4>1
      <4> QED BY <1>1, <2>1, <2>4, <2>5, <4>2, PoolAssumption DEF Actors
    <3>2. held'[q] = held[q] BY <1>1, <1>2, <3>1
    <3>3. CASE a = r
      <4>1. held[q] = pooled /\ pooled # None BY <1>1, <2>1, <3>2, <3>3
      <4>2. poolKey = Key(kind[q], config[q]) BY <4>1 DEF EvictInv, AgreeInv
      <4>3. built[pooled] = config[q] BY <4>1 DEF ConfigInv, HeldInv
      <4> QED BY <1>4, <3>3, <4>1, <4>2, <4>3 DEF Matches
    <3>4. CASE a # r
      <4>1. stale[a] = held[q] /\ held[q] # None BY <1>1, <2>1, <3>2, <3>4 DEF Actors
      <4> QED BY <4>1 DEF EvictInv, EvictionsHaveACause
    <3> QED BY <3>3, <3>4
  <2> QED BY <2>6, <2>7, <2>8 DEF EvictInv
<1> QED BY <1>3, <1>4

\* get_existing throws out an entry with another key than the caller's.
LEMMA FindExistingKeepsEvictions ==
    ASSUME NEW r \in Requests, TypeInv, ConfigInv, EvictInv, FindExisting(r)
    PROVE  EvictInv'
<1> DEFINE k == Key(kind[r], config[r])
<1>1. /\ stale[r] = None /\ pc[r] = "read"
      /\ held \in [Requests -> Requests \union {None}]
      /\ stale \in [Actors -> Requests \union {None}]
      /\ r \in Actors
  BY DEF FindExisting, At, TypeInv, TypeOK, PoolTypeOK, Actors
<1>2. held' = [held EXCEPT ![r] = Existing(k)] /\ UNCHANGED <<kind, config>>
  BY DEF FindExisting
<1>3. CASE pooled = None \/ poolKey = k
  <2>1. UNCHANGED <<pooled, poolKey, built, stale>>
    BY <1>3 DEF FindExisting, GetExisting, poolVars
  <2>2. Existing(k) = pooled BY <1>3 DEF Existing
  <2>3. pooled # None => \A a \in Actors : stale[a] # pooled BY DEF EvictInv, StaleInv
  <2>4. AgreeInv' BY <1>1, <1>2, <1>3, <2>1, <2>2 DEF EvictInv, AgreeInv
  <2>5. EvictionsHaveACause' BY <1>1, <1>2, <2>1, <2>2, <2>3 DEF EvictInv, EvictionsHaveACause, Actors
  <2> QED BY <2>1, <2>4, <2>5 DEF EvictInv, StaleInv
<1>4. CASE pooled # None /\ poolKey # k
  <2>1. /\ stale' = [stale EXCEPT ![r] = pooled]
        /\ pooled' = None
        /\ built' = built
    BY <1>4 DEF FindExisting, GetExisting, PopEntry
  <2>2. held'[r] = None /\ \A q \in Requests \ {r} : held'[q] = held[q]
    BY <1>1, <1>2, <1>4 DEF Existing
  <2>3. built[pooled] # 0 BY <1>4, PoolAssumption DEF ConfigInv, PoolInv, Versions
  <2>4. AgreeInv' BY <2>1 DEF AgreeInv
  <2>5. StaleInv' BY <1>1, <2>1, <2>3 DEF EvictInv, StaleInv
  <2>6. EvictionsHaveACause'
    <3> SUFFICES ASSUME NEW q \in Requests, NEW a \in Requests,
                        held'[q] # None, stale'[a] = held'[q]
                 PROVE  \/ config[a] # config[q]
                        \/ Key(kind[a], config[a]) # Key(kind[q], config[q])
      BY <1>2 DEF EvictionsHaveACause
    <3>1. held'[q] = held[q] BY <2>2
    <3>2. CASE a = r
      <4>1. held[q] = pooled BY <1>1, <2>1, <3>1, <3>2
      <4> QED BY <1>4, <3>2, <4>1 DEF EvictInv, AgreeInv
    <3>3. CASE a # r
      <4>1. stale[a] = held[q] BY <1>1, <2>1, <3>1, <3>3 DEF Actors
      <4> QED BY <3>1, <4>1 DEF EvictInv, EvictionsHaveACause
    <3> QED BY <3>2, <3>3
  <2> QED BY <2>4, <2>5, <2>6 DEF EvictInv
<1> QED BY <1>3, <1>4

\* Disconnecting settles a debt; the administrator's is nobody's cause.
LEMMA DisconnectKeepsEvictions ==
    ASSUME NEW a \in Actors, TypeInv, EvictInv, Disconnect(a),
           UNCHANGED <<kind, config, held>>
    PROVE  EvictInv'
<1>1. stale \in [Actors -> Requests \union {None}]
  BY DEF TypeInv, TypeOK, PoolTypeOK, Actors
<1>2. /\ stale' = [stale EXCEPT ![a] = None]
      /\ UNCHANGED <<pooled, poolKey, built>>
  BY DEF Disconnect
<1> QED BY <1>1, <1>2 DEF EvictInv, AgreeInv, StaleInv, EvictionsHaveACause, Actors

LEMMA CloseKeepsEvictions ==
    ASSUME TypeInv, ConfigInv, EvictInv, CloseEntry
    PROVE  EvictInv'
<1>1. /\ stale' = [stale EXCEPT ![Admin] = pooled]
      /\ pooled' = None
      /\ UNCHANGED <<built, kind, config, held>>
  BY DEF CloseEntry, PopEntry, requestVars
<1>2. stale \in [Actors -> Requests \union {None}] /\ Admin \in Actors
  BY DEF TypeInv, TypeOK, PoolTypeOK, Actors
<1>3. pooled # None => built[pooled] # 0
  BY PoolAssumption DEF ConfigInv, PoolInv, Versions
<1>4. StaleInv' BY <1>1, <1>2, <1>3 DEF EvictInv, StaleInv
<1>5. AgreeInv' BY <1>1 DEF AgreeInv
<1>6. \A a \in Requests : stale'[a] = stale[a]
  BY <1>1, <1>2, PoolAssumption DEF Actors
<1> QED BY <1>1, <1>4, <1>5, <1>6 DEF EvictInv, EvictionsHaveACause

LEMMA StepKeepsEvictions == TypeInv /\ ConfigInv /\ EvictInv /\ [Next]_vars => EvictInv'
<1> SUFFICES ASSUME TypeInv, ConfigInv, EvictInv, [Next]_vars PROVE EvictInv' OBVIOUS
<1>1. ASSUME NEW r \in Requests, Serve(r) PROVE EvictInv'
  <2>1. CASE DisconnectStale(r)
    BY <2>1, DisconnectKeepsEvictions DEF DisconnectStale, requestVars, Actors
  <2>2. CASE Acquire(r) BY <2>2, AcquireKeepsEvictions
  <2>3. CASE FindExisting(r) BY <2>3, FindExistingKeepsEvictions
  <2>4. CASE ReadConnection(r)
    <3>1. held[r] = None BY <2>4 DEF ReadConnection, At, ConfigInv, FreshInv, Unconnected
    <3> QED BY <2>4, <3>1, QuietStepKeepsEvictions DEF ReadConnection, At, poolVars
  <2>5. CASE \/ Start(r) \/ TurnAway(r) \/ RefuseInactive(r) \/ Connect(r)
             \/ ProbeSucceeds(r) \/ ProbeFails(r) \/ Execute(r)
             \/ SkipProvider(r) \/ CallProvider(r) \/ CircuitRefuses(r)
             \/ Answered(r) \/ FailsTransiently(r) \/ FailsPermanently(r)
    <3>1. stale[r] = None /\ UNCHANGED <<kind, pooled, poolKey, built, stale>>
      BY <2>5 DEF Start, TurnAway, RefuseInactive, Connect, StoreEngine, ProbeSucceeds,
         ProbeFails, DropEngine, Execute, SkipProvider, CallProvider, CircuitRefuses,
         Answered, FailsTransiently, FailsPermanently, RetryOrEnd, End, At, poolVars
    <3>2. UNCHANGED <<config, held>> \/ End(r)
      BY <2>5 DEF Start, TurnAway, RefuseInactive, Connect, ProbeSucceeds,
         ProbeFails, Execute, SkipProvider, CallProvider, CircuitRefuses,
         Answered, FailsTransiently, FailsPermanently, RetryOrEnd
    <3> QED BY <3>1, <3>2, QuietStepKeepsEvictions
  <2> QED BY <1>1, <2>1, <2>2, <2>3, <2>4, <2>5 DEF Serve
<1>2. CASE CloseEntry BY <1>2, CloseKeepsEvictions
<1>3. CASE DisconnectClosed
  BY <1>3, DisconnectKeepsEvictions DEF DisconnectClosed, requestVars, Actors
<1>4. CASE ChangeConnection \/ SetActive \/ CircuitCools \/ UNCHANGED vars
  BY <1>4 DEF ChangeConnection, SetActive, CircuitCools, vars, requestVars, poolVars,
     EvictInv, AgreeInv, StaleInv, EvictionsHaveACause
<1> QED BY <1>1, <1>2, <1>3, <1>4 DEF Next, Edit

LEMMA InitEvictions == Init => EvictInv
BY DEF Init, PoolInit, EvictInv, AgreeInv, StaleInv, EvictionsHaveACause, Actors

\* Requests with the same configuration and fingerprint never disconnect
\* each other's connector (ConnectionPool.get_or_create and get_existing).
THEOREM EvictionsAlwaysHaveACause == Spec => []EvictionsHaveACause
<1>1. EvictInv => EvictionsHaveACause BY DEF EvictInv
<1>2. TypeInv /\ ConfigInv /\ EvictInv /\ [Next]_vars => (TypeInv /\ ConfigInv /\ EvictInv)'
  BY StepKeepsTypes, StepKeepsConfig, StepKeepsEvictions
<1> QED BY <1>1, <1>2, InitIsTyped, InitConfig, InitEvictions, PTL DEF Spec

----------------------------------------------------------------------------
(* The circuit. *)

\* Every call in flight is that of a run, and every run holds a slot.
LEMMA CallsHoldSlots ==
    ASSUME TypeInv
    PROVE  /\ IsFiniteSet(Calls)
           /\ Cardinality(Calls) \in Nat
           /\ Cardinality(Calls) <= Slots
<1>1. Calls \subseteq Runs BY DEF Calls, Runs, InRun, TypeInv, StageInv, AtHand
<1>2. /\ IsFiniteSet(Calls)
      /\ Cardinality(Calls) \in Nat
      /\ Cardinality(Calls) <= Cardinality(Runs)
  BY <1>1, RunsFinite, FS_Subset, FS_CardinalityType
<1>3. Cardinality(Runs) = taken /\ taken \in 0..Slots
  BY DEF TypeInv, TypeOK, SlotsAccountedFor, Runs
<1> QED BY <1>2, <1>3, RunsFinite, ProcessAssumption

\* With no new call and the circuit as it is, nothing gets worse.
LEMMA NoNewCallKeepsCircuit ==
    ASSUME TypeInv, CircuitInv, Calls' \subseteq Calls, failures' = failures,
           \/ circuit' = circuit
           \/ circuit # "closed" /\ circuit' # "closed"
    PROVE  CircuitInv'
<1>1. /\ Cardinality(Calls') \in Nat
      /\ Cardinality(Calls') <= Cardinality(Calls)
  BY CallsHoldSlots, FS_Subset, FS_CardinalityType
<1>2. failures \in Nat BY DEF TypeInv, TypeOK, CircuitTypeOK
<1> QED BY <1>1, <1>2, CallsHoldSlots, ThresholdAssumption, ProcessAssumption
    DEF CircuitInv, OpenBecauseOfFailures

\* A cleared circuit is closed and far from its threshold.
LEMMA ResetKeepsCircuit ==
    ASSUME Reset PROVE CircuitInv'
BY ThresholdAssumption DEF Reset, CircuitInv, OpenBecauseOfFailures

\* A failure ends one call, and opens the circuit when the row is full.
LEMMA FailureKeepsCircuit ==
    ASSUME NEW r \in Requests, TypeInv, CircuitInv, FailsTransiently(r)
    PROVE  CircuitInv'
<1>1. r \in Calls /\ pc \in [Requests -> Stages]
  BY DEF FailsTransiently, At, Calls, TypeInv, TypeOK
<1>2. Goto(r, "think") \/ Goto(r, "done")
  BY DEF FailsTransiently, RetryOrEnd, End
<1>3. Calls' = Calls \ {r} BY <1>1, <1>2 DEF Calls, Goto
<1>4. /\ Cardinality(Calls') = Cardinality(Calls) - 1
      /\ Cardinality(Calls) \in Nat
      /\ Cardinality(Calls) <= Slots
  BY <1>1, <1>3, CallsHoldSlots, FS_RemoveElement
<1>5. /\ failures' = failures + 1
      /\ circuit' = IF failures + 1 >= Threshold THEN "open" ELSE circuit
      /\ failures \in Nat
  BY DEF FailsTransiently, TransientFailure, TypeInv, TypeOK, CircuitTypeOK
<1>6. CASE circuit = "closed"
  <2>1. failures < Threshold BY <1>6 DEF CircuitInv
  <2> QED BY <1>4, <1>5, <1>6, <2>1, ThresholdAssumption, ProcessAssumption
      DEF CircuitInv, OpenBecauseOfFailures
<1>7. CASE circuit # "closed"
  <2>1. failures >= Threshold /\ failures + Cardinality(Calls) <= Threshold + Slots - 1
    BY <1>7 DEF CircuitInv, OpenBecauseOfFailures
  <2>2. circuit' = "open" BY <1>5, <2>1, ThresholdAssumption
  <2> QED BY <1>4, <1>5, <2>1, <2>2, ThresholdAssumption, ProcessAssumption
      DEF CircuitInv, OpenBecauseOfFailures
<1> QED BY <1>6, <1>7

\* A call is submitted only through a closed circuit, or one it clears.
LEMMA CallKeepsCircuit ==
    ASSUME NEW r \in Requests, TypeInv, CircuitInv, CallProvider(r)
    PROVE  CircuitInv'
<1>1. CASE circuit = "cooled"
  BY <1>1, ResetKeepsCircuit DEF CallProvider, BeforeCall
<1>2. CASE circuit # "cooled"
  <2>1. circuit = "closed" /\ UNCHANGED <<circuit, failures>>
    BY <1>2 DEF CallProvider, BeforeCall, circuitVars, TypeInv, TypeOK, CircuitTypeOK
  <2> QED BY <2>1 DEF CircuitInv, OpenBecauseOfFailures
<1> QED BY <1>1, <1>2

LEMMA StepKeepsCircuit == TypeInv /\ CircuitInv /\ [Next]_vars => CircuitInv'
<1> SUFFICES ASSUME TypeInv, CircuitInv, [Next]_vars PROVE CircuitInv' OBVIOUS
<1>0. pc \in [Requests -> Stages] BY DEF TypeInv, TypeOK
<1>1. ASSUME NEW r \in Requests, Serve(r) PROVE CircuitInv'
  <2>1. CASE CallProvider(r) BY <2>1, CallKeepsCircuit
  <2>2. CASE Answered(r) BY <2>2, ResetKeepsCircuit DEF Answered, Success
  <2>3. CASE FailsTransiently(r) BY <2>3, FailureKeepsCircuit
  <2>4. CASE DisconnectStale(r)
    BY <2>4, NoNewCallKeepsCircuit DEF DisconnectStale, requestVars, circuitVars, Calls
  <2>5. CASE \/ Start(r) \/ TurnAway(r) \/ ReadConnection(r) \/ RefuseInactive(r)
             \/ FindExisting(r) \/ Acquire(r) \/ Connect(r) \/ ProbeSucceeds(r)
             \/ ProbeFails(r) \/ Execute(r) \/ SkipProvider(r)
             \/ CircuitRefuses(r) \/ FailsPermanently(r)
    <3>1. UNCHANGED <<circuit, failures>>
      BY <2>5 DEF Start, TurnAway, ReadConnection, RefuseInactive, FindExisting, Acquire,
         Connect, ProbeSucceeds, ProbeFails, Execute, SkipProvider, CircuitRefuses,
         FailsPermanently, circuitVars
    <3>2. \E s \in Stages \ {"calling"} : Goto(r, s)
      <4>1. CASE FindExisting(r) BY <4>1 DEF FindExisting, Stages
      <4>2. CASE \/ Start(r) \/ TurnAway(r) \/ ReadConnection(r) \/ RefuseInactive(r)
                 \/ Acquire(r) \/ Connect(r) \/ ProbeSucceeds(r)
        BY <4>2 DEF Start, TurnAway, ReadConnection, RefuseInactive, Acquire, Connect,
           ProbeSucceeds, End, Stages
      <4>3. CASE \/ ProbeFails(r) \/ Execute(r) \/ SkipProvider(r)
                 \/ CircuitRefuses(r) \/ FailsPermanently(r)
        BY <4>3 DEF ProbeFails, Execute, SkipProvider, CircuitRefuses, FailsPermanently,
           End, Stages
      <4> QED BY <2>5, <4>1, <4>2, <4>3
    <3>3. Calls' \subseteq Calls BY <1>0, <3>2 DEF Calls, Goto
    <3> QED BY <3>1, <3>3, NoNewCallKeepsCircuit
  <2> QED BY <1>1, <2>1, <2>2, <2>3, <2>4, <2>5 DEF Serve
<1>2. CASE CircuitCools
  BY <1>2, NoNewCallKeepsCircuit DEF CircuitCools, CoolDown, requestVars, Calls
<1>3. CASE Edit \/ UNCHANGED vars
  <2>1. UNCHANGED <<pc, circuit, failures>>
    BY <1>3 DEF Edit, ChangeConnection, SetActive, CloseEntry, DisconnectClosed, vars,
       requestVars, circuitVars
  <2> QED BY <2>1, NoNewCallKeepsCircuit DEF Calls
<1> QED BY <1>1, <1>2, <1>3 DEF Next

LEMMA InitCircuit == Init => CircuitInv
BY ThresholdAssumption DEF Init, CircuitInit, CircuitInv, OpenBecauseOfFailures

\* An open circuit stands for a full row of transient failures, although
\* late answers and late failures reach it in any order
\* (_ProviderCircuitBreaker in llm_reasoning_service.py).
THEOREM OpenAlwaysBecauseOfFailures == Spec => []OpenBecauseOfFailures
<1>1. CircuitInv => OpenBecauseOfFailures BY DEF CircuitInv
<1>2. TypeInv /\ CircuitInv /\ [Next]_vars => (TypeInv /\ CircuitInv)'
  BY StepKeepsTypes, StepKeepsCircuit
<1> QED BY <1>1, <1>2, InitIsTyped, InitCircuit, PTL DEF Spec

\* The slots bound how far the breaker overshoots its threshold: no call is
\* submitted between its opening and its clearing.
THEOREM FailureStreakAlwaysBounded == Spec => []FailureStreakBounded
<1>1. TypeInv /\ CircuitInv => FailureStreakBounded
  <2> SUFFICES ASSUME TypeInv, CircuitInv PROVE FailureStreakBounded OBVIOUS
  <2>1. failures \in Nat BY DEF TypeInv, TypeOK, CircuitTypeOK
  <2> QED BY <2>1, CallsHoldSlots, ThresholdAssumption, ProcessAssumption
      DEF CircuitInv, FailureStreakBounded
<1>2. TypeInv /\ CircuitInv /\ [Next]_vars => (TypeInv /\ CircuitInv)'
  BY StepKeepsTypes, StepKeepsCircuit
<1> QED BY <1>1, <1>2, InitIsTyped, InitCircuit, PTL DEF Spec

\* Both: the breaker counts what it must, in whatever order calls come back.
THEOREM CircuitAlwaysHonest == Spec => []CircuitIsHonest
<1>1. OpenBecauseOfFailures /\ FailureStreakBounded => CircuitIsHonest
  BY DEF CircuitIsHonest
<1> QED BY <1>1, OpenAlwaysBecauseOfFailures, FailureStreakAlwaysBounded, PTL
==============================================================================
