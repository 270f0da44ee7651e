--------------------- MODULE InvestigationLedgerProofs ---------------------
(***************************************************************************)
(* Proofs about InvestigationLedger for any set of requests, any targets   *)
(* and any starting ledgers.  IInv is the inductive invariant: what the    *)
(* sessions see is a prefix of the table, an uncommitted suffix has an     *)
(* owner, and the row a request is about to insert continues what it saw.  *)
(* AuditInv adds what the audit trail needs where rows are locked: what a  *)
(* request with the lock prepared is still what its row says.              *)
(***************************************************************************)
EXTENDS InvestigationLedger, SequenceTheorems, TLAPS

USE DEF RowLock, Snapshot

Busy(r) == pc[r] \in {"ready", "numbered"}

(* A transaction began at a committed prefix.                              *)
SeenBound == \A r \in Requests : seenFrom[r] <= durable

(* Uncommitted rows belong to the holder of the lock, and a snapshot that  *)
(* could add rows was the newest one.                                      *)
SuffixOwned ==
  Len(rows) > durable =>
    /\ owner # Nobody
    /\ Snapshot => seenFrom[owner] = durable

(* The prepared row is an initialization or continues a row in sight.      *)
PreparedFromSeen ==
  \A r \in Requests : Busy(r) =>
     \/ StartsLifecycle(op[r])
     \/ \E j \in 1..Seen(r) : Continues(rows[j], op[r])

(* If nothing was committed meanwhile, it continues the last row in sight. *)
PreparedFromLatest ==
  \A r \in Requests : Busy(r) /\ seenFrom[r] = durable =>
     IF Seen(r) = 0 THEN StartsLifecycle(op[r])
                    ELSE Continues(rows[Seen(r)], op[r])

(* A snapshot fixes the allocated number to what the request saw.          *)
NumberFromSnapshot ==
  \A r \in Requests : Snapshot /\ pc[r] = "numbered" => number[r] = Seen(r) + 1

IInv ==
  /\ TypeOK
  /\ SeenBound
  /\ SuffixOwned
  /\ PreparedFromSeen
  /\ PreparedFromLatest
  /\ NumberFromSnapshot
  /\ EveryRowHasPredecessor
  /\ Snapshot => IsLifecycle(rows)

-----------------------------------------------------------------------------
(* The row of initialize() and its audit event have their types.           *)
LEMMA NoOpType == NoOp \in Row /\ EventOf(NoOp) \in AuditEvent
  BY DEF NoOp, Row, EventOf, AuditEvent, InvestigationState, TransientStates

LEMMA EventType == \A row \in Row : EventOf(row) \in AuditEvent
  BY DEF Row, EventOf, AuditEvent

(* A request sees a prefix of the table.                                   *)
LEMMA SeenType ==
  ASSUME TypeOK, SeenBound, NEW r \in Requests
  PROVE  /\ Seen(r) \in Nat
         /\ Seen(r) <= Len(rows)
         /\ Seen(r) > 0 => Current(r) \in Row
  <1>1. /\ durable \in Nat /\ durable <= Len(rows) /\ Len(rows) \in Nat
        /\ seenFrom[r] \in Nat /\ seenFrom[r] <= durable
    BY DEF TypeOK, SeenBound
  <1>2. Seen(r) \in Nat /\ Seen(r) <= Len(rows)
    BY <1>1 DEF Seen
  <1>3. Seen(r) > 0 => Current(r) \in Row
    BY <1>2 DEF Current, TypeOK
  <1> QED BY <1>2, <1>3

(* The row that continues an existing row by an admitted target.           *)
NextRow(row, target) ==
  [prev |-> row.cur, cur |-> target,
   iter |-> IterationAfter(row.iter, row.cur, target)]

LEMMA NextRowContinues ==
  ASSUME NEW row \in Row, NEW target \in InvestigationState,
         ValidTransition(row.cur, target)
  PROVE  /\ NextRow(row, target) \in Row
         /\ Continues(row, NextRow(row, target))
  <1>1. row.cur \in InvestigationState /\ row.iter \in Nat
    BY DEF Row
  <1>2. IterationAfter(row.iter, row.cur, target) \in Nat
    BY <1>1 DEF IterationAfter
  <1>3. NextRow(row, target) \in Row
    BY <1>1, <1>2 DEF NextRow, Row
  <1> QED BY <1>3 DEF NextRow, Continues

(* What a rollback leaves of a table.                                      *)
LEMMA PrefixType ==
  ASSUME NEW S, NEW s \in Seq(S), NEW n \in 0..Len(s)
  PROVE  /\ SubSeq(s, 1, n) \in Seq(S)
         /\ Len(SubSeq(s, 1, n)) = n
         /\ \A i \in 1..n : SubSeq(s, 1, n)[i] = s[i]
  <1>1. n \in Int /\ \A i \in 1..n : s[i] \in S
    OBVIOUS
  <1> QED BY <1>1, SubSeqProperties

-----------------------------------------------------------------------------
(* The initial states.                                                     *)
LEMMA InitIInv == Init => IInv
  <1> SUFFICES ASSUME Init PROVE IInv
    OBVIOUS
  <1>1. rows \in Seq(Row) /\ IsLifecycle(rows)
    BY LedgerAssumption DEF Init
  <1>2. /\ Len(rows) \in Nat
        /\ \A i \in 1..Len(rows) : rows[i] \in Row
    BY <1>1
  <1>3. audit \in Seq(AuditEvent \cup {NoEvent}) /\ Len(audit) = Len(rows)
    <2>1. \A i \in 1..Len(rows) : EventOf(rows[i]) \in AuditEvent \cup {NoEvent}
      BY <1>2, EventType
    <2> QED BY <1>2, <2>1 DEF Init
  <1>4. TypeOK
    BY <1>1, <1>2, <1>3, NoOpType DEF Init, TypeOK, Control
  <1>5. SeenBound /\ SuffixOwned /\ PreparedFromSeen /\ PreparedFromLatest /\ NumberFromSnapshot
    BY <1>2 DEF Init, SeenBound, SuffixOwned, PreparedFromSeen,
                PreparedFromLatest, NumberFromSnapshot, Busy
  <1>6. EveryRowHasPredecessor
    BY <1>1, <1>2 DEF EveryRowHasPredecessor, IsLifecycle
  <1> QED BY <1>1, <1>4, <1>5, <1>6 DEF IInv

-----------------------------------------------------------------------------
(* Steps that touch neither the table nor the lock keep what every request *)
(* sees, so only the request that moves needs an argument.                 *)
LEMMA QuietStep ==
  ASSUME IInv, UNCHANGED dialect, TypeOK', NEW r \in Requests,
         UNCHANGED <<rows, audit, durable, owner, seenFrom>>,
         \A q \in Requests \ {r} :
            pc'[q] = pc[q] /\ op'[q] = op[q] /\ number'[q] = number[q],
         pc'[r] # "numbered",
         pc'[r] = "ready" =>
            IF Seen(r) = 0 THEN StartsLifecycle(op'[r])
                           ELSE Continues(rows[Seen(r)], op'[r])
  PROVE  IInv'
  <1> USE DEF IInv
  <1>1. \A q \in Requests : Seen(q)' = Seen(q) /\ Seen(q) \in Nat
    BY SeenType DEF Seen
  <1>2. SeenBound' /\ SuffixOwned' /\ EveryRowHasPredecessor' /\ (Snapshot => IsLifecycle(rows))'
    BY DEF SeenBound, SuffixOwned, EveryRowHasPredecessor
  <1>3. PreparedFromSeen'
    BY <1>1 DEF PreparedFromSeen, Busy
  <1>4. PreparedFromLatest'
    BY <1>1 DEF PreparedFromLatest, Busy
  <1>5. NumberFromSnapshot'
    BY <1>1 DEF NumberFromSnapshot
  <1> QED BY <1>2, <1>3, <1>4, <1>5

LEMMA BeginStep ==
  ASSUME IInv, UNCHANGED dialect, NEW r \in Requests, BeginRequest(r)
  PROVE  IInv'
  <1> USE DEF IInv
  <1>1. TypeOK'
    BY DEF TypeOK, BeginRequest, Control, lockVars, opVars
  <1>2. \A q \in Requests \ {r} :
          Seen(q)' = Seen(q) /\ pc'[q] = pc[q] /\ seenFrom'[q] = seenFrom[q]
    BY DEF BeginRequest, Seen, lockVars, opVars, TypeOK
  <1>3. pc'[r] = "open" /\ seenFrom'[r] = durable
    BY DEF BeginRequest, TypeOK
  <1>4. durable \in Nat
    BY DEF TypeOK
  <1>5. SeenBound' /\ SuffixOwned'
    BY <1>2, <1>3, <1>4 DEF SeenBound, SuffixOwned, BeginRequest, lockVars, opVars, TypeOK
  <1>6. PreparedFromSeen' /\ PreparedFromLatest' /\ NumberFromSnapshot'
    BY <1>2, <1>3 DEF PreparedFromSeen, PreparedFromLatest, NumberFromSnapshot,
                      Busy, BeginRequest, lockVars, opVars
  <1>7. EveryRowHasPredecessor' /\ (Snapshot => IsLifecycle(rows))'
    BY DEF EveryRowHasPredecessor, BeginRequest
  <1> QED BY <1>1, <1>5, <1>6, <1>7

LEMMA InitializeStep ==
  ASSUME IInv, UNCHANGED dialect, NEW r \in Requests, Initialize(r)
  PROVE  IInv'
  <1> USE DEF IInv, Initialize, Prepare, lockVars
  <1>1. TypeOK'
    BY NoOpType DEF TypeOK, Control
  <1>2. pc'[r] = "ready" /\ op'[r] = NoOp
    BY DEF TypeOK
  <1>3. StartsLifecycle(NoOp)
    BY DEF StartsLifecycle, NoOp
  <1>4. \A q \in Requests \ {r} :
          pc'[q] = pc[q] /\ op'[q] = op[q] /\ number'[q] = number[q]
    BY DEF TypeOK
  <1>5. UNCHANGED <<rows, audit, durable, owner, seenFrom>> /\ Seen(r) = 0
    OBVIOUS
  <1> HIDE DEF Initialize, Prepare, lockVars, IInv
  <1> QED BY <1>1, <1>2, <1>3, <1>4, <1>5, QuietStep

(* transition() and the retry prepare the same row: the one that continues *)
(* the row they just read.                                                 *)
LEMMA TransitionStep ==
  ASSUME IInv, UNCHANGED dialect, NEW r \in Requests, NEW target \in Targets, Transition(r, target)
  PROVE  IInv'
  <1> USE DEF IInv
  <1>1. target \in InvestigationState
    BY LedgerAssumption
  <1>2. /\ Seen(r) > 0 /\ Current(r) \in Row
        /\ ValidTransition(Current(r).cur, target)
    BY SeenType DEF Transition, Admits
  <1>3. /\ NextRow(Current(r), target) \in Row
        /\ Continues(Current(r), NextRow(Current(r), target))
    BY <1>1, <1>2, NextRowContinues
  <1>4. Prepare(r, NextRow(Current(r), target))
    BY DEF Transition, NextRow
  <1>5. TypeOK'
    BY <1>3, <1>4, EventType DEF TypeOK, Control, Prepare, lockVars
  <1>6. /\ pc'[r] = "ready" /\ op'[r] = NextRow(Current(r), target)
        /\ \A q \in Requests \ {r} :
             pc'[q] = pc[q] /\ op'[q] = op[q] /\ number'[q] = number[q]
        /\ UNCHANGED <<rows, audit, durable, owner, seenFrom>>
    BY <1>4 DEF Prepare, TypeOK, lockVars
  <1>7. Continues(rows[Seen(r)], op'[r])
    BY <1>3, <1>6 DEF Current
  <1> HIDE DEF IInv
  <1> QED BY <1>2, <1>5, <1>6, <1>7, QuietStep

LEMMA RetryStep ==
  ASSUME IInv, UNCHANGED dialect, NEW r \in Requests, RetryAfterCollision(r)
  PROVE  IInv'
  <1> USE DEF IInv
  <1>1. op[r].cur \in InvestigationState
    BY DEF TypeOK, Row
  <1>2. /\ Seen(r) > 0 /\ Current(r) \in Row
        /\ ValidTransition(Current(r).cur, op[r].cur)
    BY SeenType DEF RetryAfterCollision, CanRetry, Admits
  <1>3. /\ NextRow(Current(r), op[r].cur) \in Row
        /\ Continues(Current(r), NextRow(Current(r), op[r].cur))
    BY <1>1, <1>2, NextRowContinues
  <1>4. op' = [op EXCEPT ![r] = NextRow(Current(r), op[r].cur)]
    BY DEF RetryAfterCollision, NextRow
  <1>5. TypeOK'
    BY <1>3, <1>4 DEF TypeOK, Control, RetryAfterCollision, lockVars
  <1>6. /\ pc'[r] = "ready" /\ op'[r] = NextRow(Current(r), op[r].cur)
        /\ \A q \in Requests \ {r} :
             pc'[q] = pc[q] /\ op'[q] = op[q] /\ number'[q] = number[q]
        /\ UNCHANGED <<rows, audit, durable, owner, seenFrom>>
    BY <1>4 DEF RetryAfterCollision, TypeOK, lockVars
  <1>7. Continues(rows[Seen(r)], op'[r])
    BY <1>3, <1>6 DEF Current
  <1> HIDE DEF IInv
  <1> QED BY <1>2, <1>5, <1>6, <1>7, QuietStep

(* Taking the lock changes what nobody sees: with the lock free there is   *)
(* no uncommitted row.                                                     *)
LEMMA AllocateStep ==
  ASSUME IInv, UNCHANGED dialect, NEW r \in Requests, AllocateSequence(r)
  PROVE  IInv'
  <1> USE DEF IInv
  <1>1. /\ durable \in Nat /\ Len(rows) \in Nat /\ durable <= Len(rows)
        /\ Seen(r) \in Nat
    BY SeenType DEF TypeOK
  <1>2. owner' = owner \/ (owner = Nobody /\ owner' = r /\ Len(rows) = durable)
    BY <1>1 DEF AllocateSequence, LockFree, SuffixOwned
  <1>3. UNCHANGED <<rows, audit, durable, seenFrom, op, asked, attempt>>
    BY DEF AllocateSequence
  <1>4. \A q \in Requests : Seen(q)' = Seen(q)
    BY <1>1, <1>2, <1>3 DEF Seen
  <1>5. TypeOK'
    BY <1>1, <1>2, <1>3 DEF TypeOK, Control, AllocateSequence
  <1>6. /\ pc[r] = "ready" /\ pc'[r] = "numbered" /\ number'[r] = Seen(r) + 1
        /\ \A q \in Requests \ {r} : pc'[q] = pc[q] /\ number'[q] = number[q]
    BY DEF AllocateSequence, TypeOK
  <1>7. SeenBound' /\ SuffixOwned'
    BY <1>1, <1>2, <1>3 DEF SeenBound, SuffixOwned
  <1>8. PreparedFromSeen'
    BY <1>3, <1>4, <1>6 DEF PreparedFromSeen, Busy
  <1>9. PreparedFromLatest'
    BY <1>3, <1>4, <1>6 DEF PreparedFromLatest, Busy
  <1>10. NumberFromSnapshot'
    BY <1>4, <1>6 DEF NumberFromSnapshot
  <1>11. EveryRowHasPredecessor' /\ (Snapshot => IsLifecycle(rows))'
    BY <1>3 DEF EveryRowHasPredecessor
  <1> QED BY <1>5, <1>7, <1>8, <1>9, <1>10, <1>11

(* The row that InsertRow adds, for the step and for FreshWritersContinue. *)
LEMMA InsertedRow ==
  ASSUME IInv, NEW r \in Requests, InsertRow(r), seenFrom[r] = durable
  PROVE  IF rows = <<>> THEN StartsLifecycle(op[r])
                        ELSE Continues(rows[Len(rows)], op[r])
  <1> USE DEF IInv
  <1>1. /\ durable \in Nat /\ Len(rows) \in Nat /\ durable <= Len(rows)
        /\ rows = <<>> <=> Len(rows) = 0
    BY DEF TypeOK
  <1>2. owner \in {r, Nobody}
    BY DEF InsertRow, LockFree
  <1>3. Seen(r) = Len(rows)
    BY <1>1, <1>2 DEF Seen, SuffixOwned
  <1>4. IF Seen(r) = 0 THEN StartsLifecycle(op[r])
                       ELSE Continues(rows[Seen(r)], op[r])
    BY DEF PreparedFromLatest, Busy, InsertRow
  <1> QED BY <1>1, <1>3, <1>4

(* With snapshots only the newest one allocates a number that is free.     *)
LEMMA SnapshotIsFresh ==
  ASSUME IInv, Snapshot, NEW r \in Requests, InsertRow(r)
  PROVE  seenFrom[r] = durable
  <1> USE DEF IInv
  <1>1. /\ durable \in Nat /\ Len(rows) \in Nat /\ durable <= Len(rows)
        /\ seenFrom[r] \in Nat /\ seenFrom[r] <= durable
    BY DEF TypeOK, SeenBound
  <1>2. Seen(r) = Len(rows)
    <2>1. number[r] = Len(rows) + 1 /\ pc[r] = "numbered"
      BY DEF InsertRow
    <2>2. number[r] = Seen(r) + 1 /\ Seen(r) \in Nat
      BY <2>1, SeenType DEF NumberFromSnapshot
    <2> QED BY <1>1, <2>1, <2>2
  <1> QED BY <1>1, <1>2 DEF Seen, SuffixOwned

LEMMA InsertStep ==
  ASSUME IInv, UNCHANGED dialect, NEW r \in Requests, InsertRow(r)
  PROVE  IInv'
  <1> USE DEF IInv
  <1>1. /\ rows \in Seq(Row) /\ Len(rows) \in Nat /\ op[r] \in Row
        /\ durable \in Nat /\ durable <= Len(rows)
    BY DEF TypeOK
  <1>2. /\ rows' = Append(rows, op[r])
        /\ UNCHANGED <<durable, seenFrom>>
        /\ owner' = r /\ owner \in {r, Nobody}
        /\ pc[r] = "numbered"
    BY DEF InsertRow, LockFree
  <1>3. /\ rows' \in Seq(Row) /\ Len(rows') = Len(rows) + 1
        /\ rows'[Len(rows) + 1] = op[r]
        /\ \A i \in 1..Len(rows) : rows'[i] = rows[i]
    BY <1>1, <1>2
  <1>4. TypeOK'
    <2>1. audit' \in Seq(AuditEvent \cup {NoEvent}) /\ Len(audit') = Len(rows')
      BY <1>3 DEF InsertRow, TypeOK, Audited
    <2>2. UNCHANGED <<durable, seenFrom>> /\ durable \in 0..Len(rows')
      BY <1>1, <1>2, <1>3
    <2> QED BY <1>2, <1>3, <2>1, <2>2, NoOpType
            DEF TypeOK, InsertRow, Forget, Control
  <1>5. /\ pc'[r] = "open"
        /\ \A q \in Requests \ {r} :
             pc'[q] = pc[q] /\ op'[q] = op[q] /\ number'[q] = number[q]
    BY DEF InsertRow, Forget, TypeOK
  <1>6. \A q \in Requests \ {r} :
          Seen(q)' = Seen(q) /\ Seen(q) \in Nat /\ Seen(q) <= Len(rows)
    <2>1. \A q \in Requests \ {r} : owner # q /\ owner' # q
      BY <1>2, LedgerAssumption
    <2> QED BY <1>2, <2>1, SeenType DEF Seen
  <1>7. SeenBound'
    BY <1>2 DEF SeenBound
  <1>8. SuffixOwned'
    <2>1. r # Nobody
      BY LedgerAssumption
    <2> QED BY <1>2, <2>1, SnapshotIsFresh DEF SuffixOwned
  <1>9. PreparedFromSeen'
    BY <1>3, <1>5, <1>6 DEF PreparedFromSeen, Busy
  <1>10. PreparedFromLatest'
    BY <1>2, <1>3, <1>5, <1>6 DEF PreparedFromLatest, Busy
  <1>11. NumberFromSnapshot'
    BY <1>5, <1>6 DEF NumberFromSnapshot
  <1>12. EveryRowHasPredecessor'
    <2>1. \/ StartsLifecycle(op[r])
          \/ \E j \in 1..Len(rows) : Continues(rows[j], op[r])
      BY <1>1, <1>2, SeenType DEF PreparedFromSeen, Busy
    <2> SUFFICES ASSUME NEW i \in 1..(Len(rows) + 1)
                 PROVE  \/ StartsLifecycle(rows'[i])
                        \/ \E j \in 1..(i - 1) : Continues(rows'[j], rows'[i])
      BY <1>3 DEF EveryRowHasPredecessor
    <2>2. CASE i = Len(rows) + 1
      BY <1>1, <1>3, <2>1, <2>2
    <2>3. CASE i \in 1..Len(rows)
      <3>1. \/ StartsLifecycle(rows[i])
            \/ \E j \in 1..(i - 1) : Continues(rows[j], rows[i])
        BY <2>3 DEF EveryRowHasPredecessor
      <3> QED BY <1>1, <1>3, <2>3, <3>1
    <2> QED BY <1>1, <2>2, <2>3
  <1>13. (Snapshot => IsLifecycle(rows))'
    <2> SUFFICES ASSUME Snapshot PROVE IsLifecycle(rows)'
      OBVIOUS
    <2>1. IF Len(rows) = 0 THEN StartsLifecycle(op[r])
                           ELSE Continues(rows[Len(rows)], op[r])
      BY <1>1, SnapshotIsFresh, InsertedRow
    <2> QED BY <1>1, <1>3, <2>1 DEF IsLifecycle
  <1> QED BY <1>4, <1>7, <1>8, <1>9, <1>10, <1>11, <1>12, <1>13

(* A rollback cuts the table back to a prefix that the others still see.   *)
LEMMA RollbackStep ==
  ASSUME IInv, UNCHANGED dialect, NEW r \in Requests, RollbackAndClose(r)
  PROVE  IInv'
  <1> USE DEF IInv
  <1>1. /\ rows \in Seq(Row) /\ Len(rows) \in Nat
        /\ durable \in Nat /\ durable <= Len(rows)
    BY DEF TypeOK
  <1>2. /\ UNCHANGED durable
        /\ owner' = IF owner = r THEN Nobody ELSE owner
    BY DEF RollbackAndClose, Close, ReleaseLock
  <1>3. /\ rows' \in Seq(Row) /\ durable <= Len(rows') /\ Len(rows') <= Len(rows)
        /\ Len(rows') \in Nat
        /\ owner = r => Len(rows') = durable
        /\ owner # r => rows' = rows
        /\ \A i \in 1..Len(rows') : rows'[i] = rows[i]
    BY <1>1, PrefixType DEF RollbackAndClose
  <1>4. audit' \in Seq(AuditEvent \cup {NoEvent}) /\ Len(audit') = Len(rows')
    <2>1. /\ audit \in Seq(AuditEvent \cup {NoEvent})
          /\ durable \in 0..Len(audit) /\ Len(audit) = Len(rows)
      BY DEF TypeOK
    <2> QED BY <1>3, <2>1, PrefixType DEF RollbackAndClose
  <1>5. /\ pc'[r] = "closed" /\ seenFrom'[r] = 0
        /\ \A q \in Requests \ {r} :
             /\ pc'[q] = pc[q] /\ seenFrom'[q] = seenFrom[q]
             /\ op'[q] = op[q] /\ number'[q] = number[q]
    BY DEF RollbackAndClose, Close, Forget, TypeOK
  <1>6. TypeOK'
    BY <1>1, <1>2, <1>3, <1>4, NoOpType
       DEF TypeOK, RollbackAndClose, Close, Forget, Control
  <1>7. \A q \in Requests \ {r} :
          Seen(q)' = Seen(q) /\ Seen(q) \in Nat /\ Seen(q) <= Len(rows')
    <2> SUFFICES ASSUME NEW q \in Requests \ {r}
                 PROVE  Seen(q)' = Seen(q) /\ Seen(q) \in Nat /\ Seen(q) <= Len(rows')
      OBVIOUS
    <2>1. q # Nobody /\ seenFrom[q] \in Nat /\ seenFrom[q] <= durable
      BY LedgerAssumption DEF TypeOK, SeenBound
    <2>2. CASE owner = r
      BY <1>1, <1>2, <1>3, <1>5, <2>1, <2>2 DEF Seen
    <2>3. CASE owner # r
      BY <1>1, <1>2, <1>3, <1>5, <2>1, <2>3 DEF Seen
    <2> QED BY <2>2, <2>3
  <1>8. SeenBound'
    BY <1>1, <1>2, <1>5 DEF SeenBound
  <1>9. SuffixOwned'
    BY <1>1, <1>2, <1>3, <1>5 DEF SuffixOwned, TypeOK
  <1>10. PreparedFromSeen'
    BY <1>3, <1>5, <1>7 DEF PreparedFromSeen, Busy
  <1>11. PreparedFromLatest'
    BY <1>2, <1>3, <1>5, <1>7 DEF PreparedFromLatest, Busy
  <1>12. NumberFromSnapshot'
    BY <1>5, <1>7 DEF NumberFromSnapshot
  <1>13. EveryRowHasPredecessor'
    BY <1>1, <1>3 DEF EveryRowHasPredecessor
  <1>14. (Snapshot => IsLifecycle(rows))'
    BY <1>1, <1>3 DEF IsLifecycle
  <1> QED BY <1>6, <1>8, <1>9, <1>10, <1>11, <1>12, <1>13, <1>14

(* A commit can only widen what the others see, and whoever began before   *)
(* it is no longer up to date.                                             *)
LEMMA CommitStep ==
  ASSUME IInv, UNCHANGED dialect, NEW r \in Requests, CommitRequest(r)
  PROVE  IInv'
  <1> USE DEF IInv
  <1>1. /\ rows \in Seq(Row) /\ Len(rows) \in Nat
        /\ durable \in Nat /\ durable <= Len(rows)
    BY DEF TypeOK
  <1>2. /\ UNCHANGED <<rows, audit>>
        /\ durable' = IF owner = r THEN Len(rows) ELSE durable
        /\ owner' = IF owner = r THEN Nobody ELSE owner
    BY DEF CommitRequest, Close, ReleaseLock
  <1>3. /\ pc'[r] = "closed" /\ seenFrom'[r] = 0
        /\ \A q \in Requests \ {r} :
             /\ pc'[q] = pc[q] /\ seenFrom'[q] = seenFrom[q]
             /\ op'[q] = op[q] /\ number'[q] = number[q]
    BY DEF CommitRequest, Close, Forget, TypeOK
  <1>4. TypeOK'
    BY <1>1, <1>2, NoOpType DEF TypeOK, CommitRequest, Close, Forget, Control
  <1>5. \A q \in Requests \ {r} :
          /\ Seen(q) \in Nat /\ Seen(q)' \in Nat /\ Seen(q) <= Seen(q)'
          /\ Seen(q)' <= Len(rows)
          /\ durable' = durable \/ Snapshot => Seen(q)' = Seen(q)
          /\ seenFrom[q] \in Nat /\ seenFrom[q] <= durable
    <2> SUFFICES ASSUME NEW q \in Requests \ {r}
                 PROVE  /\ Seen(q) \in Nat /\ Seen(q)' \in Nat /\ Seen(q) <= Seen(q)'
                        /\ Seen(q)' <= Len(rows)
                        /\ durable' = durable \/ Snapshot => Seen(q)' = Seen(q)
                        /\ seenFrom[q] \in Nat /\ seenFrom[q] <= durable
      OBVIOUS
    <2>1. q # Nobody /\ seenFrom[q] \in Nat /\ seenFrom[q] <= durable
      BY LedgerAssumption DEF TypeOK, SeenBound
    <2>2. CASE owner = r
      BY <1>1, <1>2, <1>3, <2>1, <2>2 DEF Seen
    <2>3. CASE owner # r
      BY <1>1, <1>2, <1>3, <2>1, <2>3 DEF Seen
    <2> QED BY <2>2, <2>3
  <1>6. SeenBound'
    BY <1>1, <1>2, <1>3, <1>5 DEF SeenBound
  <1>7. SuffixOwned'
    BY <1>1, <1>2, <1>3 DEF SuffixOwned, TypeOK
  <1>8. PreparedFromSeen'
    BY <1>2, <1>3, <1>5 DEF PreparedFromSeen, Busy
  <1>9. PreparedFromLatest'
    <2> SUFFICES ASSUME NEW q \in Requests \ {r}, Busy(q), seenFrom[q] = durable'
                 PROVE  IF Seen(q)' = 0 THEN StartsLifecycle(op[q])
                                        ELSE Continues(rows[Seen(q)'], op[q])
      BY <1>2, <1>3 DEF PreparedFromLatest, Busy
    <2>1. durable' = durable
      BY <1>1, <1>2, <1>5
    <2> QED BY <1>5, <2>1 DEF PreparedFromLatest
  <1>10. NumberFromSnapshot'
    BY <1>3, <1>5 DEF NumberFromSnapshot
  <1>11. EveryRowHasPredecessor' /\ (Snapshot => IsLifecycle(rows))'
    BY <1>2 DEF EveryRowHasPredecessor
  <1> QED BY <1>4, <1>6, <1>7, <1>8, <1>9, <1>10, <1>11

-----------------------------------------------------------------------------
(* IInv is preserved by every step.                                        *)
(* Nothing changes the dialect.                                            *)
LEMMA DialectStays == [Next]_vars => UNCHANGED dialect
  BY DEF Next, Progress, AllClosed, vars

LEMMA NextIInv == IInv /\ [Next]_vars => IInv'
  <1> SUFFICES ASSUME IInv, [Next]_vars PROVE IInv'
    OBVIOUS
  <1>1. ASSUME NEW r \in Requests, BeginRequest(r), UNCHANGED dialect PROVE IInv'
    BY <1>1, BeginStep
  <1>2. ASSUME NEW r \in Requests, Initialize(r), UNCHANGED dialect PROVE IInv'
    BY <1>2, InitializeStep
  <1>3. ASSUME NEW r \in Requests, NEW target \in Targets, Transition(r, target),
               UNCHANGED dialect
        PROVE  IInv'
    BY <1>3, TransitionStep
  <1>4. ASSUME NEW r \in Requests, AllocateSequence(r), UNCHANGED dialect PROVE IInv'
    BY <1>4, AllocateStep
  <1>5. ASSUME NEW r \in Requests, InsertRow(r), UNCHANGED dialect PROVE IInv'
    BY <1>5, InsertStep
  <1>6. ASSUME NEW r \in Requests, RetryAfterCollision(r), UNCHANGED dialect PROVE IInv'
    BY <1>6, RetryStep
  <1>7. ASSUME NEW r \in Requests,
               \/ \E target \in Targets : RejectTransition(r, target)
               \/ GiveUpAfterCollision(r)
               \/ AbortRequest(r),
               UNCHANGED dialect
        PROVE  IInv'
    BY <1>7, RollbackStep DEF RejectTransition, GiveUpAfterCollision, AbortRequest
  <1>8. ASSUME NEW r \in Requests, CommitRequest(r), UNCHANGED dialect PROVE IInv'
    BY <1>8, CommitStep
  <1>9. CASE UNCHANGED vars
    <2>1. UNCHANGED <<dialect, rows, audit, owner, durable, pc, seenFrom, op, asked, number, attempt>>
      BY <1>9 DEF vars, lockVars, opVars
    <2>2. TypeOK'
      BY <2>1 DEF IInv, TypeOK
    <2>3. \A q \in Requests : Seen(q)' = Seen(q)
      BY <2>1 DEF Seen
    <2> QED BY <2>1, <2>2, <2>3
            DEF IInv, SeenBound, SuffixOwned, PreparedFromSeen, PreparedFromLatest,
                NumberFromSnapshot, EveryRowHasPredecessor, Busy
  <1> QED
    BY <1>1, <1>2, <1>3, <1>4, <1>5, <1>6, <1>7, <1>8, <1>9
    DEF Next, Progress, AllClosed

(* IInv holds in every reachable state.                                    *)
LEMMA Invariance == Spec => []IInv
  <1> QED BY InitIInv, NextIInv, PTL DEF Spec

(* Every variable keeps its type, for any number of sessions, any targets  *)
(* and all three dialects of _lock_investigation.                          *)
THEOREM TypeCorrect == Spec => []TypeOK
  <1>1. IInv => TypeOK
    BY DEF IInv
  <1> QED BY <1>1, Invariance, PTL

(* No interleaving of validation, collision and retry puts a row into the  *)
(* table that is neither an initialization nor an allowed successor, with  *)
(* the right iteration, of an earlier row.                                 *)
THEOREM PredecessorCorrect == Spec => []EveryRowHasPredecessor
  <1>1. IInv => EveryRowHasPredecessor
    BY DEF IInv
  <1> QED BY <1>1, Invariance, PTL

(* A request that no commit overtook since its transaction began appends a *)
(* legal successor of the last row, on every dialect.                      *)
THEOREM FreshWritersCorrect == Spec => FreshWritersContinue
  <1>1. IInv /\ [Next]_vars =>
          [\A r \in Requests :
             InsertRow(r) /\ seenFrom[r] = durable =>
               IF rows = <<>> THEN StartsLifecycle(op[r])
                              ELSE Continues(rows[Len(rows)], op[r])]_vars
    BY InsertedRow
  <1> QED BY <1>1, Invariance, PTL DEF Spec, FreshWritersContinue

(* What a step does to the committed ledger under snapshot reads: nothing, *)
(* or it commits the owner's rows, which continue it as a lifecycle.       *)
LEMMA CommittedStep ==
  ASSUME IInv, [Next]_vars
  PROVE  /\ durable' \in Nat /\ durable <= durable' /\ durable' <= Len(rows')
         /\ \A i \in 1..durable : rows'[i] = rows[i]
         /\ durable' # durable => rows' = rows
  <1> USE DEF IInv
  <1>1. /\ rows \in Seq(Row) /\ Len(rows) \in Nat
        /\ durable \in Nat /\ durable <= Len(rows) /\ durable \in 0..Len(rows)
    BY DEF TypeOK
  <1>2. ASSUME NEW r \in Requests, RollbackAndClose(r)
        PROVE  UNCHANGED durable /\ durable <= Len(rows')
               /\ \A i \in 1..durable : rows'[i] = rows[i]
    BY <1>1, <1>2, PrefixType DEF RollbackAndClose
  <1>3. ASSUME NEW r \in Requests, InsertRow(r)
        PROVE  UNCHANGED durable /\ durable <= Len(rows')
               /\ \A i \in 1..durable : rows'[i] = rows[i]
    <2>1. rows' = Append(rows, op[r]) /\ op[r] \in Row /\ UNCHANGED durable
      BY <1>3 DEF InsertRow, TypeOK
    <2> QED BY <1>1, <2>1
  <1>4. ASSUME NEW r \in Requests, CommitRequest(r)
        PROVE  durable' \in {durable, Len(rows)} /\ UNCHANGED rows
    BY <1>4 DEF CommitRequest
  <1>5. ASSUME NEW r \in Requests,
               \/ BeginRequest(r) \/ Initialize(r)
               \/ \E target \in Targets : Transition(r, target)
               \/ AllocateSequence(r) \/ RetryAfterCollision(r)
        PROVE  UNCHANGED <<rows, durable>>
    BY <1>5 DEF BeginRequest, Initialize, Transition, Prepare, AllocateSequence,
                RetryAfterCollision, lockVars
  <1>6. UNCHANGED vars => UNCHANGED <<rows, durable>>
    BY DEF vars, lockVars
  <1>7. CASE UNCHANGED <<rows, durable>>
    BY <1>1, <1>7
  <1>8. CASE \E r \in Requests : RollbackAndClose(r)
    BY <1>1, <1>2, <1>8
  <1>9. CASE \E r \in Requests : InsertRow(r)
    BY <1>1, <1>3, <1>9
  <1>10. CASE \E r \in Requests : CommitRequest(r)
    BY <1>1, <1>4, <1>10
  <1> QED
    BY <1>5, <1>6, <1>7, <1>8, <1>9, <1>10
    DEF Next, Progress, AllClosed, RejectTransition, GiveUpAfterCollision, AbortRequest

(* Where a transaction reads from one snapshot, a committed terminal state *)
(* is final: a collision can only be lost, never re-validated into a row   *)
(* behind a terminal one.                                                  *)
THEOREM SnapshotTerminal == Spec /\ Snapshot => TerminalIsFinal
  <1>1. ASSUME Snapshot, IInv, [Next]_vars,
               durable > 0, rows[durable].cur \in TerminalStates
        PROVE  durable' = durable
    <2> SUFFICES ASSUME durable' # durable PROVE FALSE
      OBVIOUS
    <2>1. /\ durable \in Nat /\ durable' \in Nat /\ durable < durable'
          /\ durable' <= Len(rows) /\ Len(rows) \in Nat
      BY <1>1, CommittedStep DEF IInv, TypeOK
    <2>2. IsLifecycle(rows)
      BY <1>1 DEF IInv
    <2>3. Continues(rows[durable], rows[durable + 1])
      BY <1>1, <2>1, <2>2 DEF IsLifecycle
    <2> QED BY <1>1, <2>3 DEF Continues, ValidTransition
  <1>2. Snapshot /\ IInv /\ [Next]_vars =>
          [durable > 0 /\ rows[durable].cur \in TerminalStates
             => durable' = durable]_vars
    BY <1>1
  <1>3. Snapshot /\ [Next]_vars => Snapshot'
    BY DialectStays
  <1> QED BY <1>2, <1>3, Invariance, PTL DEF Spec, TerminalIsFinal

(* The instance of InvestigationLifecycle brings its own copy of the       *)
(* transition relation; the two agree.                                     *)
LEMMA SameRelation ==
  \A h : Lifecycle!IsLifecycle(h) <=> IsLifecycle(h)
  <1>1. \A row : Lifecycle!StartsLifecycle(row) <=> StartsLifecycle(row)
    BY DEF Lifecycle!StartsLifecycle, StartsLifecycle, Lifecycle!NoState, NoState
  <1>2. Lifecycle!TerminalStates = TerminalStates
    BY DEF Lifecycle!TerminalStates, TerminalStates
  <1>3. Lifecycle!AllowedTransitions = AllowedTransitions
    BY DEF Lifecycle!AllowedTransitions, AllowedTransitions,
           Lifecycle!InvestigationState, InvestigationState,
           Lifecycle!TransientStates, TransientStates,
           Lifecycle!TerminalStates, TerminalStates,
           Lifecycle!FailOrCancel, FailOrCancel
  <1>4. \A a, b : Lifecycle!Continues(a, b) <=> Continues(a, b)
    BY <1>2, <1>3 DEF Lifecycle!Continues, Continues,
           Lifecycle!ValidTransition, ValidTransition,
           Lifecycle!IterationAfter, IterationAfter
  <1> QED BY <1>1, <1>4 DEF Lifecycle!IsLifecycle, IsLifecycle

(* A prefix of a lifecycle is one.                                         *)
LEMMA LifecyclePrefix ==
  ASSUME NEW s \in Seq(Row), NEW n \in 0..Len(s), IsLifecycle(s)
  PROVE  IsLifecycle(SubSeq(s, 1, n))
  <1> DEFINE p == SubSeq(s, 1, n)
  <1>1. Len(p) = n /\ \A i \in 1..n : p[i] = s[i]
    BY PrefixType
  <1>2. n \in Nat /\ Len(s) \in Nat /\ n <= Len(s)
    OBVIOUS
  <1> HIDE DEF p
  <1>3. IsLifecycle(p)
    BY <1>1, <1>2 DEF IsLifecycle
  <1> QED BY <1>3 DEF p

(* Where a transaction reads from one snapshot, the committed ledger is a  *)
(* lifecycle that only advances: the detailed protocol implements          *)
(* InvestigationLifecycle.                                                 *)
THEOREM SnapshotRefinement == Spec => SnapshotRefinesLifecycle
  <1> DEFINE H == SubSeq(rows, 1, durable)
  <1>1. ASSUME IInv PROVE IsLifecycle(Committed)
    <2>1. CASE Snapshot
      BY <1>1, <2>1, LifecyclePrefix DEF IInv, TypeOK, Committed
    <2>2. CASE ~Snapshot
      BY <2>2 DEF Committed, IsLifecycle
    <2> QED BY <2>1, <2>2
  <1>2. IInv => Lifecycle!Init
    BY <1>1, SameRelation DEF Lifecycle!Init
  <1>3. ASSUME IInv, IInv', [Next]_vars
        PROVE  [Lifecycle!Advance]_Committed
    <2>1. /\ rows \in Seq(Row) /\ durable \in 0..Len(rows)
          /\ rows' \in Seq(Row) /\ durable' \in 0..Len(rows')
      BY <1>3 DEF IInv, TypeOK
    <2>2. /\ durable \in Nat /\ durable' \in Nat /\ durable <= durable'
          /\ \A i \in 1..durable : rows'[i] = rows[i]
      BY <1>3, <2>1, CommittedStep
    <2>3. /\ H \in Seq(Row) /\ Len(H) = durable
          /\ \A i \in 1..durable : H[i] = rows[i]
      BY <2>1, PrefixType
    <2>4. /\ H' \in Seq(Row) /\ Len(H') = durable'
          /\ \A i \in 1..durable' : H'[i] = rows'[i]
      BY <2>1, PrefixType
    <2>5. Snapshot' = Snapshot
      BY <1>3, DialectStays
    <2>6. Snapshot => IsLifecycle(H')
      BY <1>3, <2>1, <2>5, LifecyclePrefix DEF IInv
    <2>7. CASE ~Snapshot
      BY <2>5, <2>7 DEF Committed
    <2>8. CASE Snapshot
      <3>1. Committed = H /\ Committed' = H'
        BY <2>5, <2>8 DEF Committed
      <3> HIDE DEF H
      <3>2. CASE durable' = durable
        <4>1. H' = H
          BY <2>2, <2>3, <2>4, <3>2, SeqEqual
        <4> QED BY <3>1, <4>1
      <3>3. CASE durable' # durable
        <4>1. Lifecycle!Extends(Committed, Committed')
          BY <2>2, <2>3, <2>4, <3>1, <3>3 DEF Lifecycle!Extends
        <4>2. Lifecycle!IsLifecycle(Committed')
          BY <2>6, <2>8, <3>1, SameRelation
        <4>3. Lifecycle!Advance
          BY <4>1, <4>2 DEF Lifecycle!Advance
        <4> QED BY <4>3
      <3> QED BY <3>2, <3>3
    <2> QED BY <2>7, <2>8
  <1>4. IInv /\ IInv' /\ [Next]_vars => [Lifecycle!Advance]_Committed
    BY <1>3
  <1> QED BY <1>2, <1>4, Invariance, PTL DEF Spec, SnapshotRefinesLifecycle, Lifecycle!Spec

-----------------------------------------------------------------------------
(* The audit trail, where rows are locked.  What a request is about to     *)
(* insert is what it will record: on PostgreSQL the holder of the lock     *)
(* cannot collide, and with snapshot reads a retry computes the same row.  *)
Recorded == \A r \in Requests : Busy(r) => asked[r] = EventOf(op[r])

LockHeld ==
  \A r \in Requests : pc[r] = "numbered" =>
    owner = r /\ (~Snapshot => number[r] = Len(rows) + 1)

SnapshotRow ==
  \A r \in Requests : Snapshot /\ Busy(r) /\ Seen(r) > 0 =>
    op[r] = NextRow(Current(r), op[r].cur)

AuditInv == Recorded /\ LockHeld /\ SnapshotRow /\ AuditMatchesRow

(* A snapshot shows the same rows whatever the others do.                  *)
LEMMA SnapshotStands ==
  ASSUME IInv, Snapshot, UNCHANGED dialect, NEW r \in Requests, NEW q \in Requests \ {r},
         seenFrom'[q] = seenFrom[q],
         \/ UNCHANGED <<rows, durable>> /\ (owner' = owner \/ (owner = Nobody /\ owner' = r))
         \/ InsertRow(r)
         \/ RollbackAndClose(r)
         \/ CommitRequest(r)
  PROVE  Seen(q)' = Seen(q) /\ (Seen(q) > 0 => Current(q)' = Current(q))
  <1>1. /\ rows \in Seq(Row) /\ Len(rows) \in Nat /\ durable \in Nat /\ durable <= Len(rows)
        /\ seenFrom[q] \in Nat /\ seenFrom[q] <= durable
        /\ q # Nobody /\ r # Nobody /\ q # r
    BY LedgerAssumption DEF IInv, TypeOK, SeenBound
  <1>2. CASE UNCHANGED <<rows, durable>> /\ (owner' = owner \/ (owner = Nobody /\ owner' = r))
    BY <1>1, <1>2 DEF Seen, Current
  <1>3. CASE InsertRow(r)
    <2>1. /\ rows' = Append(rows, op[r]) /\ op[r] \in Row /\ owner' = r /\ owner \in {r, Nobody}
      BY <1>3 DEF InsertRow, LockFree, IInv, TypeOK
    <2>2. Seen(q) = seenFrom[q] /\ Seen(q)' = seenFrom[q]
      BY <1>1, <2>1 DEF Seen
    <2>3. \A i \in 1..Len(rows) : rows'[i] = rows[i]
      BY <1>1, <2>1
    <2> QED BY <1>1, <2>2, <2>3 DEF Current
  <1>4. CASE RollbackAndClose(r)
    <2>1. /\ rows' = IF owner = r THEN SubSeq(rows, 1, durable) ELSE rows
          /\ owner' = IF owner = r THEN Nobody ELSE owner
          /\ UNCHANGED durable
      BY <1>4 DEF RollbackAndClose, Close, ReleaseLock
    <2>2. CASE owner = r
      <3>1. /\ Len(rows') = durable /\ \A i \in 1..durable : rows'[i] = rows[i]
        BY <1>1, <2>1, <2>2, PrefixType
      <3>2. Seen(q) = seenFrom[q] /\ Seen(q)' = seenFrom[q]
        BY <1>1, <2>1, <2>2, <3>1 DEF Seen
      <3> QED BY <1>1, <3>1, <3>2 DEF Current
    <2>3. CASE owner # r
      BY <1>1, <2>1, <2>3 DEF Seen, Current
    <2> QED BY <2>2, <2>3
  <1>5. CASE CommitRequest(r)
    <2>1. /\ UNCHANGED rows
          /\ durable' = IF owner = r THEN Len(rows) ELSE durable
          /\ owner' = IF owner = r THEN Nobody ELSE owner
      BY <1>5 DEF CommitRequest, Close, ReleaseLock
    <2> QED BY <1>1, <2>1 DEF Seen, Current
  <1> QED BY <1>2, <1>3, <1>4, <1>5

(* The others' part of AuditInv, whatever r does.                          *)
LEMMA OthersRecorded ==
  ASSUME IInv, AuditInv, UNCHANGED dialect, NEW r \in Requests, NEW q \in Requests \ {r},
         /\ pc'[q] = pc[q] /\ seenFrom'[q] = seenFrom[q] /\ op'[q] = op[q]
         /\ asked'[q] = asked[q] /\ number'[q] = number[q],
         \/ UNCHANGED <<rows, durable>> /\ (owner' = owner \/ (owner = Nobody /\ owner' = r))
         \/ InsertRow(r)
         \/ RollbackAndClose(r)
         \/ CommitRequest(r)
  PROVE  /\ Busy(q)' => asked'[q] = EventOf(op'[q])
         /\ pc'[q] = "numbered" =>
              owner' = q /\ (~Snapshot => number'[q] = Len(rows') + 1)
         /\ Snapshot /\ Busy(q)' /\ Seen(q)' > 0 =>
              op'[q] = NextRow(Current(q)', op'[q].cur)
  <1>1. Busy(q)' => asked'[q] = EventOf(op'[q])
    BY DEF AuditInv, Recorded, Busy
  <1>2. pc'[q] = "numbered" => owner' = q /\ (~Snapshot => number'[q] = Len(rows') + 1)
    <2> SUFFICES ASSUME pc[q] = "numbered"
                 PROVE  owner' = q /\ rows' = rows
      BY DEF AuditInv, LockHeld
    <2>1. owner = q /\ q # r /\ q # Nobody BY LedgerAssumption DEF AuditInv, LockHeld
    <2> QED BY <2>1 DEF InsertRow, LockFree, RollbackAndClose, CommitRequest, Close, ReleaseLock
  <1>3. Snapshot /\ Busy(q)' /\ Seen(q)' > 0 => op'[q] = NextRow(Current(q)', op'[q].cur)
    BY SnapshotStands DEF AuditInv, SnapshotRow, Busy
  <1> QED BY <1>1, <1>2, <1>3

(* r is not busy afterwards, or has just prepared a row.                   *)
LEMMA QuietAudit ==
  ASSUME IInv, AuditInv, UNCHANGED dialect, NEW r \in Requests,
         \A q \in Requests \ {r} :
            /\ pc'[q] = pc[q] /\ seenFrom'[q] = seenFrom[q] /\ op'[q] = op[q]
            /\ asked'[q] = asked[q] /\ number'[q] = number[q],
         \/ UNCHANGED <<rows, durable, owner>>
         \/ InsertRow(r)
         \/ RollbackAndClose(r)
         \/ CommitRequest(r),
         pc'[r] # "numbered",
         pc'[r] = "ready" =>
           /\ asked'[r] = EventOf(op'[r])
           /\ Snapshot /\ Seen(r)' > 0 => op'[r] = NextRow(Current(r)', op'[r].cur),
         AuditMatchesRow'
  PROVE  AuditInv'
  <1>1. \A q \in Requests \ {r} :
          /\ Busy(q)' => asked'[q] = EventOf(op'[q])
          /\ pc'[q] = "numbered" => owner' = q /\ (~Snapshot => number'[q] = Len(rows') + 1)
          /\ Snapshot /\ Busy(q)' /\ Seen(q)' > 0 => op'[q] = NextRow(Current(q)', op'[q].cur)
    BY OthersRecorded
  <1>2. /\ Busy(r)' => asked'[r] = EventOf(op'[r])
        /\ Snapshot /\ Busy(r)' /\ Seen(r)' > 0 => op'[r] = NextRow(Current(r)', op'[r].cur)
    BY DEF Busy
  <1>3. Recorded' BY <1>1, <1>2 DEF Recorded
  <1>4. LockHeld' BY <1>1 DEF LockHeld
  <1>5. SnapshotRow' BY <1>1, <1>2 DEF SnapshotRow
  <1> QED BY <1>3, <1>4, <1>5 DEF AuditInv

(* The steps that prepare a row.                                           *)
LEMMA PreparedAudit ==
  ASSUME IInv, AuditInv, UNCHANGED dialect, NEW r \in Requests, NEW row \in Row, Prepare(r, row),
         Snapshot /\ Seen(r) > 0 => row = NextRow(Current(r), row.cur)
  PROVE  AuditInv'
  <1>1. /\ UNCHANGED <<rows, audit, durable, owner, seenFrom, number>>
        /\ pc'[r] = "ready" /\ op'[r] = row /\ asked'[r] = EventOf(row)
        /\ \A q \in Requests \ {r} :
             pc'[q] = pc[q] /\ op'[q] = op[q] /\ asked'[q] = asked[q]
    BY DEF Prepare, lockVars, IInv, TypeOK
  <1>2. Seen(r)' = Seen(r) /\ Current(r)' = Current(r)
    BY <1>1 DEF Seen, Current
  <1>3. AuditMatchesRow'
    BY <1>1 DEF AuditInv, AuditMatchesRow
  <1>4. Snapshot /\ Seen(r)' > 0 => op'[r] = NextRow(Current(r)', op'[r].cur)
    BY <1>1, <1>2
  <1> QED BY <1>1, <1>3, <1>4, QuietAudit

LEMMA AllocateAudit ==
  ASSUME RowLock, IInv, AuditInv, UNCHANGED dialect, NEW r \in Requests, AllocateSequence(r)
  PROVE  AuditInv'
  <1>1. /\ UNCHANGED <<rows, audit, durable, seenFrom, op, asked>>
        /\ owner' = r /\ owner \in {r, Nobody}
        /\ pc[r] = "ready" /\ pc'[r] = "numbered" /\ number'[r] = Seen(r) + 1
        /\ \A q \in Requests \ {r} : pc'[q] = pc[q] /\ number'[q] = number[q]
    BY DEF AllocateSequence, LockFree, IInv, TypeOK
  <1>2. durable \in Nat /\ Len(rows) \in Nat /\ durable <= Len(rows)
    BY DEF IInv, TypeOK
  <1>3. Len(rows) > durable => owner = r
    BY <1>1 DEF IInv, SuffixOwned
  <1>4. Seen(r)' = Seen(r) /\ Current(r)' = Current(r)
    BY <1>1, <1>3 DEF Seen, Current
  <1>5. ~Snapshot => Seen(r) = Len(rows)
    BY <1>2, <1>3 DEF Seen
  <1>6. \A q \in Requests \ {r} :
          /\ Busy(q)' => asked'[q] = EventOf(op'[q])
          /\ pc'[q] = "numbered" => owner' = q /\ (~Snapshot => number'[q] = Len(rows') + 1)
          /\ Snapshot /\ Busy(q)' /\ Seen(q)' > 0 => op'[q] = NextRow(Current(q)', op'[q].cur)
    BY <1>1, OthersRecorded
  <1>7. asked'[r] = EventOf(op'[r])
    BY <1>1 DEF AuditInv, Recorded, Busy
  <1>8. Snapshot /\ Seen(r)' > 0 => op'[r] = NextRow(Current(r)', op'[r].cur)
    BY <1>1, <1>4 DEF AuditInv, SnapshotRow, Busy
  <1>9. Recorded' /\ LockHeld' /\ SnapshotRow'
    BY <1>1, <1>5, <1>6, <1>7, <1>8 DEF Recorded, LockHeld, SnapshotRow
  <1>10. AuditMatchesRow'
    BY <1>1 DEF AuditInv, AuditMatchesRow
  <1> QED BY <1>9, <1>10 DEF AuditInv

LEMMA InsertAudit ==
  ASSUME IInv, AuditInv, UNCHANGED dialect, NEW r \in Requests, InsertRow(r)
  PROVE  AuditInv'
  <1>1. PICK event \in {Audited(r), NoEvent} : audit' = Append(audit, event)
    BY DEF InsertRow
  <1>2. /\ rows \in Seq(Row) /\ op[r] \in Row /\ rows' = Append(rows, op[r])
        /\ audit \in Seq(AuditEvent \cup {NoEvent}) /\ Len(audit) = Len(rows)
        /\ asked[r] \in AuditEvent /\ pc[r] = "numbered"
    BY DEF InsertRow, IInv, TypeOK
  <1>3. event \in {EventOf(op[r]), NoEvent} /\ event \in AuditEvent \cup {NoEvent}
    BY <1>1, <1>2 DEF AuditInv, Recorded, Busy, Audited
  <1>4. /\ Len(rows') = Len(rows) + 1 /\ rows'[Len(rows) + 1] = op[r]
        /\ \A i \in 1..Len(rows) : rows'[i] = rows[i]
    BY <1>2
  <1>5. /\ audit'[Len(rows) + 1] = event
        /\ \A i \in 1..Len(rows) : audit'[i] = audit[i]
    BY <1>1, <1>2, <1>3
  <1>6. AuditMatchesRow'
    BY <1>2, <1>3, <1>4, <1>5 DEF AuditInv, AuditMatchesRow
  <1>7. /\ pc'[r] = "open"
        /\ UNCHANGED seenFrom
        /\ \A q \in Requests \ {r} :
             /\ pc'[q] = pc[q] /\ op'[q] = op[q]
             /\ asked'[q] = asked[q] /\ number'[q] = number[q]
    BY DEF InsertRow, Forget, IInv, TypeOK
  <1> QED BY <1>6, <1>7, QuietAudit

(* Without snapshots the holder of the lock cannot collide; with them the  *)
(* retry reads what it read before.                                        *)
LEMMA RetryAudit ==
  ASSUME IInv, AuditInv, UNCHANGED dialect, NEW r \in Requests, RetryAfterCollision(r)
  PROVE  AuditInv'
  <1>1. /\ UNCHANGED <<rows, audit, durable, owner, seenFrom, asked, number>>
        /\ pc[r] = "numbered" /\ pc'[r] = "ready" /\ number[r] <= Len(rows)
        /\ op'[r] = NextRow(Current(r), op[r].cur)
        /\ Seen(r) > 0
        /\ \A q \in Requests \ {r} : pc'[q] = pc[q] /\ op'[q] = op[q]
    BY DEF RetryAfterCollision, Collided, CanRetry, Admits, NextRow, lockVars, IInv, TypeOK
  <1>2. Snapshot
    <2>1. Len(rows) \in Nat BY DEF IInv, TypeOK
    <2> QED BY <1>1, <2>1 DEF AuditInv, LockHeld
  <1>3. op'[r] = op[r]
    BY <1>1, <1>2 DEF AuditInv, SnapshotRow, Busy
  <1>4. asked'[r] = EventOf(op'[r])
    BY <1>1, <1>3 DEF AuditInv, Recorded, Busy
  <1>5. Seen(r)' = Seen(r) /\ Current(r)' = Current(r)
    BY <1>1 DEF Seen, Current
  <1>6. AuditMatchesRow'
    BY <1>1 DEF AuditInv, AuditMatchesRow
  <1>7. Snapshot /\ Seen(r)' > 0 => op'[r] = NextRow(Current(r)', op'[r].cur)
    BY <1>1, <1>3, <1>5
  <1> QED BY <1>1, <1>4, <1>6, <1>7, QuietAudit

(* A session ends and takes its uncommitted rows and events with it.       *)
LEMMA ClosedAudit ==
  ASSUME IInv, AuditInv, UNCHANGED dialect, NEW r \in Requests, RollbackAndClose(r) \/ CommitRequest(r)
  PROVE  AuditInv'
  <1>1. /\ pc'[r] = "closed"
        /\ \A q \in Requests \ {r} :
             /\ pc'[q] = pc[q] /\ seenFrom'[q] = seenFrom[q] /\ op'[q] = op[q]
             /\ asked'[q] = asked[q] /\ number'[q] = number[q]
    BY DEF RollbackAndClose, CommitRequest, Close, Forget, IInv, TypeOK
  <1>2. AuditMatchesRow'
    <2>1. \/ UNCHANGED <<rows, audit>>
          \/ rows' = SubSeq(rows, 1, durable) /\ audit' = SubSeq(audit, 1, durable)
      BY DEF RollbackAndClose, CommitRequest
    <2>2. CASE UNCHANGED <<rows, audit>>
      BY <2>2 DEF AuditInv, AuditMatchesRow
    <2>3. CASE rows' = SubSeq(rows, 1, durable) /\ audit' = SubSeq(audit, 1, durable)
      <3>1. /\ rows \in Seq(Row) /\ audit \in Seq(AuditEvent \cup {NoEvent})
            /\ durable \in 0..Len(rows) /\ Len(audit) = Len(rows)
        BY DEF IInv, TypeOK
      <3>2. Len(rows') = durable /\ \A i \in 1..durable : rows'[i] = rows[i]
        BY <2>3, <3>1, PrefixType
      <3>3. \A i \in 1..durable : audit'[i] = audit[i]
        BY <2>3, <3>1, PrefixType
      <3> QED BY <3>1, <3>2, <3>3 DEF AuditInv, AuditMatchesRow
    <2> QED BY <2>1, <2>2, <2>3
  <1> QED BY <1>1, <1>2, QuietAudit

LEMMA AuditNext == RowLock /\ IInv /\ AuditInv /\ [Next]_vars => AuditInv'
  <1> SUFFICES ASSUME RowLock, IInv, AuditInv, [Next]_vars PROVE AuditInv'
    OBVIOUS
  <1>1. ASSUME NEW r \in Requests, BeginRequest(r), UNCHANGED dialect PROVE AuditInv'
    <2>1. /\ UNCHANGED <<rows, audit, durable, owner, op, asked, number>>
          /\ pc'[r] = "open"
          /\ \A q \in Requests \ {r} : pc'[q] = pc[q] /\ seenFrom'[q] = seenFrom[q]
      BY <1>1 DEF BeginRequest, lockVars, opVars, IInv, TypeOK
    <2>2. AuditMatchesRow' BY <2>1 DEF AuditInv, AuditMatchesRow
    <2> QED BY <1>1, <2>1, <2>2, QuietAudit
  <1>2. ASSUME NEW r \in Requests, Initialize(r), UNCHANGED dialect PROVE AuditInv'
    <2>1. Prepare(r, NoOp) /\ Seen(r) = 0 BY <1>2 DEF Initialize
    <2> QED BY <1>2, <2>1, NoOpType, PreparedAudit
  <1>3. ASSUME NEW r \in Requests, NEW target \in Targets, Transition(r, target),
               UNCHANGED dialect
        PROVE  AuditInv'
    <2>1. /\ Prepare(r, NextRow(Current(r), target))
          /\ Seen(r) > 0 /\ ValidTransition(Current(r).cur, target)
      BY <1>3 DEF Transition, Admits, NextRow
    <2>2. Current(r) \in Row /\ target \in InvestigationState
      BY <2>1, SeenType, LedgerAssumption DEF IInv
    <2>3. NextRow(Current(r), target) \in Row
      BY <2>1, <2>2, NextRowContinues
    <2>4. NextRow(Current(r), target).cur = target BY DEF NextRow
    <2> QED BY <1>3, <2>1, <2>3, <2>4, PreparedAudit
  <1>4. ASSUME NEW r \in Requests, AllocateSequence(r), UNCHANGED dialect PROVE AuditInv'
    BY <1>4, AllocateAudit
  <1>5. ASSUME NEW r \in Requests, InsertRow(r), UNCHANGED dialect PROVE AuditInv'
    BY <1>5, InsertAudit
  <1>6. ASSUME NEW r \in Requests, RetryAfterCollision(r), UNCHANGED dialect PROVE AuditInv'
    BY <1>6, RetryAudit
  <1>7. ASSUME NEW r \in Requests, CommitRequest(r), UNCHANGED dialect PROVE AuditInv'
    BY <1>7, ClosedAudit
  <1>8. ASSUME NEW r \in Requests, RollbackAndClose(r), UNCHANGED dialect PROVE AuditInv'
    BY <1>8, ClosedAudit
  <1>9. CASE UNCHANGED vars
    BY <1>9 DEF vars, lockVars, opVars, AuditInv, Recorded, LockHeld, SnapshotRow,
                AuditMatchesRow, Busy, Seen, Current
  <1> QED BY <1>1, <1>2, <1>3, <1>4, <1>5, <1>6, <1>7, <1>8, <1>9
          DEF Next, Progress, RejectTransition, GiveUpAfterCollision, AbortRequest, AllClosed

(* On PostgreSQL and MySQL, whatever requests do to each other, the audit  *)
(* event of a row, if it could be written, names the row's own previous    *)
(* state and iteration, although _persist records what transition() asked  *)
(* for and not what a retry made of it.                                    *)
THEOREM LockedAudit == Spec => []LockedAuditMatchesRow
  <1> DEFINE LockedInv == RowLock => AuditInv
  <1>1. Init => LockedInv
    BY DEF Init, AuditInv, Recorded, LockHeld, SnapshotRow, AuditMatchesRow, Busy
  <1>2. IInv /\ LockedInv /\ [Next]_vars => LockedInv'
    BY AuditNext, DialectStays
  <1>3. LockedInv => LockedAuditMatchesRow
    BY DEF AuditInv, LockedAuditMatchesRow
  <1> HIDE DEF LockedInv
  <1> QED BY <1>1, <1>2, <1>3, Invariance, PTL DEF Spec
-----------------------------------------------------------------------------
(* How far a request is from its end: the rows it may still append, and    *)
(* what is left of the call it is in.                                      *)
Chances(r) ==
  CASE pc[r] = "new" -> MaxCalls
    [] pc[r] = "closed" -> 0
    [] OTHER ->
         IF Seen(r) < seenFrom[r] + MaxCalls
         THEN seenFrom[r] + MaxCalls - Seen(r) - (IF Busy(r) THEN 1 ELSE 0)
         ELSE 0

Turns(r) ==
  CASE pc[r] = "new" -> 2
    [] pc[r] = "open" -> 1
    [] pc[r] = "ready" -> 3 + 2 * (MaxAttempts - attempt[r])
    [] pc[r] = "numbered" -> 2 + 2 * (MaxAttempts - attempt[r])
    [] pc[r] = "closed" -> 0

ComesCloser(r) ==
  \/ Chances(r)' < Chances(r)
  \/ Chances(r)' = Chances(r) /\ Turns(r)' < Turns(r)

NotThrownBack(r) == Chances(r)' <= Chances(r) /\ Turns(r)' = Turns(r)

(* The lock has a holder that is in the middle of its handler, and so      *)
(* waits for nobody.                                                       *)
HolderGoesOn ==
  \A r \in Requests : owner = r => pc[r] \in {"open", "ready", "numbered"} /\ LockFree(r)

AttemptsBounded == \A r \in Requests : attempt[r] < MaxAttempts

LEMMA BoundsHold == Spec => [](HolderGoesOn /\ AttemptsBounded)
  <1> USE DEF HolderGoesOn, AttemptsBounded, LockFree
  <1>1. Init => HolderGoesOn /\ AttemptsBounded
    BY LedgerAssumption DEF Init
  <1>2. ASSUME IInv, HolderGoesOn, AttemptsBounded, [Next]_vars
        PROVE  (HolderGoesOn /\ AttemptsBounded)'
    <2>1. ASSUME NEW r \in Requests, Close(r) PROVE (HolderGoesOn /\ AttemptsBounded)'
      <3>1. /\ owner' = IF owner = r THEN Nobody ELSE owner
            /\ r # Nobody /\ attempt' = [attempt EXCEPT ![r] = 0]
            /\ \A q \in Requests \ {r} : pc'[q] = pc[q] /\ q # Nobody
        BY <2>1, LedgerAssumption DEF Close, ReleaseLock, Forget, IInv, TypeOK
      <3> QED BY <1>2, <3>1, LedgerAssumption DEF IInv, TypeOK
    <2>2. ASSUME NEW r \in Requests, owner' \in {owner, r},
                 pc'[r] \in {"open", "ready", "numbered"},
                 \A q \in Requests \ {r} : pc'[q] = pc[q] /\ attempt'[q] = attempt[q],
                 attempt'[r] < MaxAttempts
          PROVE  (HolderGoesOn /\ AttemptsBounded)'
      BY <1>2, <2>2
    <2>3. ASSUME NEW r \in Requests, BeginRequest(r)
          PROVE  (HolderGoesOn /\ AttemptsBounded)'
      <3>1. /\ UNCHANGED <<owner, attempt>> /\ pc'[r] = "open"
            /\ \A q \in Requests \ {r} : pc'[q] = pc[q]
        BY <1>2, <2>3 DEF BeginRequest, lockVars, opVars, IInv, TypeOK
      <3> QED BY <1>2, <2>2, <3>1
    <2>4. ASSUME NEW r \in Requests,
                 Initialize(r) \/ \E target \in Targets : Transition(r, target)
          PROVE  (HolderGoesOn /\ AttemptsBounded)'
      <3>1. /\ UNCHANGED <<owner, attempt>> /\ pc'[r] = "ready"
            /\ \A q \in Requests \ {r} : pc'[q] = pc[q]
        BY <1>2, <2>4 DEF Initialize, Transition, Prepare, lockVars, IInv, TypeOK
      <3> QED BY <1>2, <2>2, <3>1
    <2>5. ASSUME NEW r \in Requests, AllocateSequence(r)
          PROVE  (HolderGoesOn /\ AttemptsBounded)'
      <3>1. /\ owner' \in {owner, r} /\ UNCHANGED attempt /\ pc'[r] = "numbered"
            /\ \A q \in Requests \ {r} : pc'[q] = pc[q]
        BY <1>2, <2>5 DEF AllocateSequence, IInv, TypeOK
      <3> QED BY <1>2, <2>2, <3>1
    <2>6. ASSUME NEW r \in Requests, InsertRow(r)
          PROVE  (HolderGoesOn /\ AttemptsBounded)'
      <3>1. /\ owner' = r /\ attempt' = [attempt EXCEPT ![r] = 0] /\ pc'[r] = "open"
            /\ \A q \in Requests \ {r} : pc'[q] = pc[q]
        BY <1>2, <2>6 DEF InsertRow, Forget, IInv, TypeOK
      <3>2. attempt'[r] < MaxAttempts /\ \A q \in Requests \ {r} : attempt'[q] = attempt[q]
        BY <3>1, LedgerAssumption, <1>2 DEF IInv, TypeOK
      <3> QED BY <2>2, <3>1, <3>2
    <2>7. ASSUME NEW r \in Requests, RetryAfterCollision(r)
          PROVE  (HolderGoesOn /\ AttemptsBounded)'
      <3>1. /\ UNCHANGED owner /\ attempt' = [attempt EXCEPT ![r] = @ + 1] /\ pc'[r] = "ready"
            /\ attempt[r] + 1 < MaxAttempts
            /\ \A q \in Requests \ {r} : pc'[q] = pc[q]
        BY <1>2, <2>7 DEF RetryAfterCollision, CanRetry, lockVars, IInv, TypeOK
      <3>2. attempt'[r] < MaxAttempts /\ \A q \in Requests \ {r} : attempt'[q] = attempt[q]
        BY <3>1, <1>2 DEF IInv, TypeOK
      <3> QED BY <2>2, <3>1, <3>2
    <2>8. CASE UNCHANGED vars
      BY <1>2, <2>8 DEF vars, lockVars, opVars
    <2> QED BY <1>2, <2>1, <2>3, <2>4, <2>5, <2>6, <2>7, <2>8
            DEF Next, Progress, RejectTransition, GiveUpAfterCollision, AbortRequest,
                RollbackAndClose, CommitRequest, AllClosed
  <1>3. IInv /\ HolderGoesOn /\ AttemptsBounded /\ [Next]_vars
          => (HolderGoesOn /\ AttemptsBounded)'
    BY <1>2
  <1> HIDE DEF HolderGoesOn, AttemptsBounded
  <1> QED BY <1>1, <1>3, Invariance, PTL DEF Spec

(* What a step of one request does to what another one sees.               *)
LEMMA OthersSeeMore ==
  ASSUME IInv, UNCHANGED dialect, NEW r \in Requests, NEW q \in Requests \ {r},
         seenFrom'[q] = seenFrom[q],
         \/ UNCHANGED <<rows, durable>> /\ (owner' = owner \/ (owner = Nobody /\ owner' = r))
         \/ InsertRow(r)
         \/ RollbackAndClose(r)
         \/ CommitRequest(r)
  PROVE  Seen(q) \in Nat /\ Seen(q)' \in Nat /\ Seen(q) <= Seen(q)'
  <1>1. /\ rows \in Seq(Row) /\ Len(rows) \in Nat /\ durable \in Nat /\ durable <= Len(rows)
        /\ seenFrom[q] \in Nat /\ seenFrom[q] <= durable
        /\ q # Nobody /\ r # Nobody /\ q # r
    BY LedgerAssumption DEF IInv, TypeOK, SeenBound
  <1>2. CASE UNCHANGED <<rows, durable>> /\ (owner' = owner \/ (owner = Nobody /\ owner' = r))
    BY <1>1, <1>2 DEF Seen
  <1>3. CASE InsertRow(r)
    <2>1. owner \in {r, Nobody} /\ owner' = r /\ UNCHANGED durable
      BY <1>3 DEF InsertRow, LockFree
    <2> QED BY <1>1, <2>1 DEF Seen
  <1>4. CASE RollbackAndClose(r)
    <2>1. /\ UNCHANGED durable
          /\ owner' = IF owner = r THEN Nobody ELSE owner
          /\ owner # r => rows' = rows
      BY <1>4 DEF RollbackAndClose, Close, ReleaseLock
    <2> QED BY <1>1, <2>1 DEF Seen
  <1>5. CASE CommitRequest(r)
    <2>1. /\ UNCHANGED rows
          /\ durable' = IF owner = r THEN Len(rows) ELSE durable
          /\ owner' = IF owner = r THEN Nobody ELSE owner
      BY <1>5 DEF CommitRequest, Close, ReleaseLock
    <2> QED BY <1>1, <2>1 DEF Seen
  <1> QED BY <1>2, <1>3, <1>4, <1>5

LEMMA MeasureTypes ==
  ASSUME IInv, AttemptsBounded, NEW r \in Requests
  PROVE  Chances(r) \in Nat /\ Turns(r) \in Nat
  <1>1. /\ pc[r] \in Control /\ seenFrom[r] \in Nat /\ Seen(r) \in Nat
        /\ attempt[r] \in Nat /\ attempt[r] < MaxAttempts
        /\ MaxCalls \in Nat /\ MaxAttempts \in Nat
    BY SeenType, LedgerAssumption DEF IInv, TypeOK, AttemptsBounded
  <1>2. Chances(r) \in Nat
    BY <1>1 DEF Chances, Control, Busy
  <1>3. Turns(r) \in Nat
    BY <1>1 DEF Turns, Control
  <1> QED BY <1>2, <1>3

(* Whoever else moves, a request is not thrown back.                       *)
LEMMA OthersKeep ==
  ASSUME IInv, UNCHANGED dialect, NEW r \in Requests, NEW q \in Requests \ {r},
         pc'[q] = pc[q], seenFrom'[q] = seenFrom[q], attempt'[q] = attempt[q],
         \/ UNCHANGED <<rows, durable>> /\ (owner' = owner \/ (owner = Nobody /\ owner' = r))
         \/ InsertRow(r)
         \/ RollbackAndClose(r)
         \/ CommitRequest(r)
  PROVE  NotThrownBack(q)
  <1>1. Seen(q) \in Nat /\ Seen(q)' \in Nat /\ Seen(q) <= Seen(q)'
    BY OthersSeeMore
  <1>2. /\ pc[q] \in Control /\ seenFrom[q] \in Nat /\ MaxCalls \in Nat
    BY LedgerAssumption DEF IInv, TypeOK
  <1>3. Turns(q)' = Turns(q)
    BY DEF Turns
  <1>4. Busy(q)' = Busy(q)
    BY DEF Busy
  <1>5. Chances(q)' <= Chances(q)
    BY <1>1, <1>2, <1>4 DEF Chances, Control
  <1> QED BY <1>3, <1>5 DEF NotThrownBack

(* A request that closes has come to its end.                              *)
LEMMA ClosingMeasure ==
  ASSUME IInv, AttemptsBounded, NEW r \in Requests, pc[r] # "closed", pc'[r] = "closed"
  PROVE  ComesCloser(r)
  <1>1. /\ pc[r] \in Control /\ attempt[r] \in Nat /\ attempt[r] < MaxAttempts
        /\ MaxAttempts \in Nat
    BY LedgerAssumption DEF IInv, TypeOK, AttemptsBounded
  <1>2. Turns(r) > 0
    BY <1>1 DEF Turns, Control
  <1>3. Turns(r)' = 0 /\ Chances(r)' = 0
    BY DEF Turns, Chances
  <1>4. Chances(r) \in Nat
    BY MeasureTypes
  <1> QED BY <1>2, <1>3, <1>4 DEF ComesCloser

(* A call that prepares a row gives up one of the rows it may append, and  *)
(* the insertion does.                                                     *)
LEMMA OwnMeasure ==
  ASSUME IInv, AttemptsBounded, UNCHANGED dialect, NEW r \in Requests,
         \/ BeginRequest(r) \/ Initialize(r)
         \/ \E target \in Targets : Transition(r, target)
         \/ AllocateSequence(r) \/ InsertRow(r) \/ RetryAfterCollision(r)
  PROVE  ComesCloser(r)
  <1>1. /\ rows \in Seq(Row) /\ Len(rows) \in Nat /\ durable \in Nat /\ durable <= Len(rows)
        /\ seenFrom[r] \in Nat /\ seenFrom[r] <= durable
        /\ r # Nobody /\ Seen(r) \in Nat /\ Seen(r) <= Len(rows)
        /\ attempt[r] \in Nat /\ attempt[r] < MaxAttempts
        /\ MaxCalls \in Nat /\ MaxAttempts \in Nat
    BY SeenType, LedgerAssumption DEF IInv, TypeOK, SeenBound, AttemptsBounded
  <1>2. CASE BeginRequest(r)
    <2>1. /\ pc[r] = "new" /\ pc'[r] = "open" /\ seenFrom'[r] = durable
          /\ UNCHANGED <<rows, durable, owner>>
      BY <1>2 DEF BeginRequest, lockVars, IInv, TypeOK
    <2>2. durable <= Seen(r)' /\ Seen(r)' \in Nat
      BY <1>1, <2>1 DEF Seen
    <2>3. Chances(r) = MaxCalls /\ Chances(r)' <= MaxCalls /\ Chances(r)' \in Nat
      BY <1>1, <2>1, <2>2 DEF Chances, Busy
    <2>4. Turns(r) = 2 /\ Turns(r)' = 1
      BY <2>1 DEF Turns
    <2> QED BY <1>1, <2>3, <2>4 DEF ComesCloser
  <1>3. CASE Initialize(r) \/ \E target \in Targets : Transition(r, target)
    <2>1. /\ pc[r] = "open" /\ pc'[r] = "ready" /\ MayAppend(r)
          /\ UNCHANGED <<dialect, rows, durable, owner, seenFrom>>
      BY <1>3 DEF Initialize, Transition, Prepare, lockVars, IInv, TypeOK
    <2>2. Seen(r)' = Seen(r) /\ Seen(r) < seenFrom[r] + MaxCalls
      BY <2>1 DEF Seen, MayAppend
    <2>3. Chances(r)' < Chances(r)
      BY <1>1, <2>1, <2>2 DEF Chances, Busy
    <2> QED BY <2>3 DEF ComesCloser
  <1>4. CASE AllocateSequence(r)
    <2>1. owner' = owner \/ (owner = Nobody /\ owner' = r /\ Len(rows) = durable)
      BY <1>1, <1>4 DEF AllocateSequence, LockFree, SuffixOwned, IInv
    <2>2. /\ UNCHANGED <<dialect, rows, durable, seenFrom, attempt>>
          /\ pc[r] = "ready" /\ pc'[r] = "numbered"
      BY <1>4 DEF AllocateSequence, IInv, TypeOK
    <2>3. Seen(r)' = Seen(r)
      BY <1>1, <2>1, <2>2 DEF Seen
    <2>4. Chances(r)' = Chances(r)
      BY <2>2, <2>3 DEF Chances, Busy
    <2>5. Turns(r)' < Turns(r)
      BY <1>1, <2>2 DEF Turns
    <2> QED BY <2>4, <2>5 DEF ComesCloser
  <1>5. CASE InsertRow(r)
    <2>1. /\ rows' = Append(rows, op[r]) /\ op[r] \in Row
          /\ UNCHANGED <<durable, seenFrom>> /\ owner' = r
          /\ pc[r] = "numbered" /\ pc'[r] = "open"
      BY <1>5 DEF InsertRow, IInv, TypeOK
    <2>2. Seen(r)' = Len(rows) + 1
      BY <1>1, <2>1 DEF Seen
    <2>3. Chances(r)' <= Chances(r) /\ Chances(r)' \in Nat /\ Chances(r) \in Nat
      BY <1>1, <2>1, <2>2 DEF Chances, Busy
    <2>4. Turns(r)' < Turns(r)
      BY <1>1, <2>1 DEF Turns
    <2> QED BY <2>3, <2>4 DEF ComesCloser
  <1>6. CASE RetryAfterCollision(r)
    <2>1. /\ UNCHANGED <<dialect, rows, durable, owner, seenFrom>>
          /\ pc[r] = "numbered" /\ pc'[r] = "ready"
          /\ attempt'[r] = attempt[r] + 1 /\ attempt[r] + 1 < MaxAttempts
      BY <1>6 DEF RetryAfterCollision, Collided, CanRetry, lockVars, IInv, TypeOK
    <2>2. Seen(r)' = Seen(r)
      BY <2>1 DEF Seen
    <2>3. Chances(r)' = Chances(r)
      BY <2>1, <2>2 DEF Chances, Busy
    <2>4. Turns(r)' < Turns(r)
      BY <1>1, <2>1 DEF Turns
    <2> QED BY <2>3, <2>4 DEF ComesCloser
  <1> QED BY <1>2, <1>3, <1>4, <1>5, <1>6

(* A request cannot go on for ever: each of its steps uses up some of what *)
(* MaxCalls and _SEQUENCE_ALLOCATION_ATTEMPTS leave it, no other request   *)
(* gives it any more to do, and one that waits for the lock waits for a    *)
(* handler that waits for nobody.  (What is left to assume of RequestsEnd  *)
(* is that the next step is taken.)                                        *)
THEOREM RequestsUseUpTheirBound ==
  Spec => /\ [](HolderGoesOn /\ \A r \in Requests : Chances(r) \in Nat /\ Turns(r) \in Nat)
          /\ [][\E r \in Requests :
                  /\ ComesCloser(r)
                  /\ \A q \in Requests \ {r} : NotThrownBack(q)]_vars
  <1>1. IInv /\ HolderGoesOn /\ AttemptsBounded
          => HolderGoesOn /\ \A r \in Requests : Chances(r) \in Nat /\ Turns(r) \in Nat
    BY MeasureTypes
  <1>2. ASSUME IInv, AttemptsBounded, Next, vars' # vars
        PROVE  \E r \in Requests :
                  /\ ComesCloser(r)
                  /\ \A q \in Requests \ {r} : NotThrownBack(q)
    <2>1. ASSUME NEW r \in Requests,
                 \/ BeginRequest(r) \/ Initialize(r)
                 \/ \E target \in Targets : Transition(r, target)
                 \/ AllocateSequence(r) \/ InsertRow(r) \/ RetryAfterCollision(r),
                 UNCHANGED dialect
          PROVE  ComesCloser(r) /\ \A q \in Requests \ {r} : NotThrownBack(q)
      <3>1. \A q \in Requests \ {r} :
              pc'[q] = pc[q] /\ seenFrom'[q] = seenFrom[q] /\ attempt'[q] = attempt[q]
        BY <1>2, <2>1
           DEF BeginRequest, Initialize, Transition, Prepare, AllocateSequence, InsertRow,
               Forget, RetryAfterCollision, lockVars, opVars, IInv, TypeOK
      <3>2. \/ UNCHANGED <<rows, durable>> /\ (owner' = owner \/ (owner = Nobody /\ owner' = r))
            \/ InsertRow(r)
        BY <2>1
           DEF BeginRequest, Initialize, Transition, Prepare, AllocateSequence, LockFree,
               RetryAfterCollision, lockVars
      <3>3. ComesCloser(r)
        BY <1>2, <2>1, OwnMeasure
      <3> QED BY <1>2, <2>1, <3>1, <3>2, <3>3, OthersKeep
    <2>2. ASSUME NEW r \in Requests, RollbackAndClose(r) \/ CommitRequest(r), pc[r] # "closed",
                 UNCHANGED dialect
          PROVE  ComesCloser(r) /\ \A q \in Requests \ {r} : NotThrownBack(q)
      <3>1. Close(r)
        BY <2>2 DEF RollbackAndClose, CommitRequest
      <3>2. /\ pc'[r] = "closed"
            /\ \A q \in Requests \ {r} :
                 pc'[q] = pc[q] /\ seenFrom'[q] = seenFrom[q] /\ attempt'[q] = attempt[q]
        BY <1>2, <3>1 DEF Close, Forget, IInv, TypeOK
      <3> QED BY <1>2, <2>2, <3>2, ClosingMeasure, OthersKeep
    <2>3. ASSUME NEW r \in Requests,
                 \/ \E target \in Targets : RejectTransition(r, target)
                 \/ GiveUpAfterCollision(r) \/ AbortRequest(r)
          PROVE  RollbackAndClose(r) /\ pc[r] # "closed"
      BY <2>3 DEF RejectTransition, GiveUpAfterCollision, Collided, AbortRequest
    <2>4. ASSUME NEW r \in Requests, CommitRequest(r) PROVE pc[r] # "closed"
      BY <2>4 DEF CommitRequest
    <2> QED BY <1>2, <2>1, <2>2, <2>3, <2>4 DEF Next, Progress, AllClosed
  <1>3. IInv /\ AttemptsBounded /\ [Next]_vars =>
          [\E r \in Requests :
             /\ ComesCloser(r)
             /\ \A q \in Requests \ {r} : NotThrownBack(q)]_vars
    BY <1>2
  <1> QED BY <1>1, <1>3, Invariance, BoundsHold, PTL DEF Spec
==============================================================================
