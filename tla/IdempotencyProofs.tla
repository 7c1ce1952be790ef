-------------------------- MODULE IdempotencyProofs --------------------------
(***************************************************************************)
(* For any number of attempts, keys and faults: how often handlers of one  *)
(* storage key overlap, what a replay is, when a handler runs again, whose *)
(* lock a lock is, when it excludes, and that the middleware implements    *)
(* IdempotentService.                                                      *)
(***************************************************************************)
EXTENDS Idempotency, FiniteSetTheorems, TLAPS

USE DEF history, Fails, Forget

\* The allowance of a storage key: one handler that has its lock, and
\* one more each time the lock ended early or was bypassed.
Allowed(k) == (IF k \in lock THEN 1 ELSE 0) + lapsed[k]

LEMMA HandlersFinite ==
  ASSUME TypeOK, NEW k
  PROVE  IsFiniteSet(HandlersOf(k)) /\ Cardinality(HandlersOf(k)) \in Nat
<1>1. HandlersOf(k) \in SUBSET Attempts
  BY DEF HandlersOf, TypeOK
<1> QED
  BY <1>1, AttemptsAssumption, FS_Subset, FS_CardinalityType

\* A step that adds no handler of k and takes none of its allowance keeps the bound.
LEMMA BoundKept ==
  ASSUME LockInv, TypeOK', NEW k \in StorageKeys,
         HandlersOf(k)' \subseteq HandlersOf(k), Allowed(k)' >= Allowed(k)
  PROVE  Cardinality(HandlersOf(k)') <= Allowed(k)'
<1>1. Cardinality(HandlersOf(k)') <= Cardinality(HandlersOf(k))
  BY HandlersFinite, FS_Subset DEF LockInv
<1>2. Cardinality(HandlersOf(k)) \in Nat /\ Cardinality(HandlersOf(k)') \in Nat
  BY <1>1, HandlersFinite, FS_Subset, FS_CardinalityType DEF LockInv
<1>3. Allowed(k) \in Nat /\ Allowed(k)' \in Nat
  BY DEF LockInv, TypeOK, Allowed
<1>4. Cardinality(HandlersOf(k)) <= Allowed(k)
  BY DEF LockInv, OverlapBoundedByLapses, Allowed
<1> QED
  BY <1>1, <1>2, <1>3, <1>4

\* The storage key of a stays in StorageKeys, and no step changes it.
LEMMA KeyOfType ==
  ASSUME TypeOK, NEW a \in Attempts
  PROVE  KeyOf(a) \in StorageKeys
<1>1. input[a] \in Request
  BY DEF TypeOK
<1> QED
  BY <1>1 DEF KeyOf, StorageKey, StorageKeys, Request

\* Every step keeps the types.
LEMMA TypeStep == TypeOK /\ [Next]_vars => TypeOK'
<1> SUFFICES ASSUME TypeOK, [Next]_vars PROVE TypeOK'
  OBVIOUS
<1> USE AttemptsAssumption, KeyOfType
<1>1. ASSUME NEW a \in Attempts, Arrive(a) PROVE TypeOK'
  BY <1>1 DEF Arrive, GoTo, TypeOK
<1>2. ASSUME NEW a \in Attempts, Replay(a) PROVE TypeOK'
  BY <1>2 DEF Replay, GoTo, TypeOK
<1>3. ASSUME NEW a \in Attempts, Miss(a) PROVE TypeOK'
  BY <1>3 DEF Miss, GoTo, TypeOK
<1>4. ASSUME NEW a \in Attempts, AcquireLock(a) PROVE TypeOK'
  BY <1>4 DEF AcquireLock, GoTo, TypeOK
<1>5. ASSUME NEW a \in Attempts, Conflict(a) PROVE TypeOK'
  BY <1>5 DEF Conflict, GoTo, TypeOK
<1>6. ASSUME NEW a \in Attempts, Bypass(a) PROVE TypeOK'
  BY <1>6 DEF Bypass, GoTo, TypeOK
<1>7. ASSUME NEW a \in Attempts, Execute(a) PROVE TypeOK'
  BY <1>7 DEF Execute, Outcomes, GoTo, TypeOK
<1>8. ASSUME NEW a \in Attempts, Respond(a) PROVE TypeOK'
  BY <1>8 DEF Respond, GoTo, TypeOK
<1>9. ASSUME NEW a \in Attempts, SettleSet(a) PROVE TypeOK'
  BY <1>9 DEF SettleSet, GoTo, TypeOK
<1>10. ASSUME NEW a \in Attempts, SettleUnlock(a) PROVE TypeOK'
  BY <1>10 DEF SettleUnlock, GoTo, TypeOK
<1>11. ASSUME NEW a \in Attempts, Crash(a) PROVE TypeOK'
  BY <1>11 DEF Crash, InFlight, GoTo, TypeOK
<1>12. ASSUME NEW a \in Attempts, ReplyLost(a) PROVE TypeOK'
  BY <1>12 DEF ReplyLost, GoTo, TypeOK
<1>13. ASSUME NEW k \in StorageKeys, ExpireLock(k) \/ ExpireRecord(k) PROVE TypeOK'
  BY <1>13 DEF ExpireLock, ExpireRecord, TypeOK
<1>14. CASE UNCHANGED vars
  BY <1>14 DEF vars, TypeOK
<1> QED
  BY <1>1, <1>2, <1>3, <1>4, <1>5, <1>6, <1>7, <1>8, <1>9, <1>10, <1>11, <1>12, <1>13,
     <1>14 DEF Next, RedisNext, Serve, Settle

\* No step changes a request, so none changes its storage key.
LEMMA KeyStable ==
  ASSUME [Next]_vars
  PROVE  UNCHANGED input /\ \A a \in Attempts : KeyOf(a)' = KeyOf(a)
<1>1. UNCHANGED input
  <2>1. ASSUME NEW a \in Attempts, Arrive(a) \/ Serve(a) \/ Execute(a) \/ Settle(a)
                                      \/ Crash(a) \/ ReplyLost(a)
        PROVE UNCHANGED input
    BY <2>1 DEF Arrive, Serve, Settle, Replay, Miss, AcquireLock, Conflict, Bypass, Execute,
       Respond, SettleSet, SettleUnlock, Crash, ReplyLost
  <2>2. ASSUME NEW k \in StorageKeys, ExpireLock(k) \/ ExpireRecord(k) PROVE UNCHANGED input
    BY <2>2 DEF ExpireLock, ExpireRecord
  <2> QED
    BY <2>1, <2>2 DEF Next, RedisNext, vars
<1> QED
  BY <1>1 DEF KeyOf

THEOREM LockInvInit == Init => LockInv
<1> SUFFICES ASSUME Init PROVE LockInv
  OBVIOUS
<1>1. TypeOK
  BY AttemptsAssumption DEF Init, TypeOK
<1>2. GuardedRan
  BY DEF Init, GuardedRan
<1>3. \A k \in StorageKeys : HandlersOf(k) = {}
  BY DEF Init, HandlersOf
<1>4. OverlapBoundedByLapses
  BY <1>3, FS_EmptySet DEF Init, OverlapBoundedByLapses
<1> QED
  BY <1>1, <1>2, <1>4 DEF LockInv

THEOREM LockInvStep == LockInv /\ [Next]_vars => LockInv'
<1> SUFFICES ASSUME LockInv, [Next]_vars PROVE LockInv'
  OBVIOUS
<1>t. TypeOK /\ GuardedRan
  BY DEF LockInv
<1>y. TypeOK'
  BY <1>t, TypeStep
<1>1. ASSUME NEW a \in Attempts, Arrive(a) PROVE LockInv'
  <2>2. GuardedRan'
    BY <1>1, <1>t DEF Arrive, GoTo, TypeOK, GuardedRan, Protected
  <2>3. ASSUME NEW k \in StorageKeys
        PROVE  HandlersOf(k)' \subseteq HandlersOf(k) /\ Allowed(k)' >= Allowed(k)
    BY <1>1, <1>t, <1>y DEF Arrive, GoTo, TypeOK, GuardedRan, HandlersOf, KeyOf, Protected, Allowed
  <2> QED
    BY <1>y, <2>2, <2>3, BoundKept DEF LockInv, OverlapBoundedByLapses, Allowed
<1>2. ASSUME NEW a \in Attempts, Replay(a) PROVE LockInv'
  <2>2. GuardedRan'
    BY <1>2, <1>t DEF Replay, GoTo, TypeOK, GuardedRan, Protected
  <2>3. ASSUME NEW k \in StorageKeys
        PROVE  HandlersOf(k)' \subseteq HandlersOf(k) /\ Allowed(k)' >= Allowed(k)
    BY <1>2, <1>t, <1>y DEF Replay, GoTo, TypeOK, GuardedRan, HandlersOf, KeyOf, Protected, Allowed
  <2> QED
    BY <1>y, <2>2, <2>3, BoundKept DEF LockInv, OverlapBoundedByLapses, Allowed
<1>3. ASSUME NEW a \in Attempts, Miss(a) PROVE LockInv'
  <2>2. GuardedRan'
    BY <1>3, <1>t DEF Miss, GoTo, TypeOK, GuardedRan, Protected
  <2>3. ASSUME NEW k \in StorageKeys
        PROVE  HandlersOf(k)' \subseteq HandlersOf(k) /\ Allowed(k)' >= Allowed(k)
    BY <1>3, <1>t, <1>y DEF Miss, GoTo, TypeOK, GuardedRan, HandlersOf, KeyOf, Protected, Allowed
  <2> QED
    BY <1>y, <2>2, <2>3, BoundKept DEF LockInv, OverlapBoundedByLapses, Allowed
<1>4. ASSUME NEW a \in Attempts, Conflict(a) PROVE LockInv'
  <2>2. GuardedRan'
    BY <1>4, <1>t DEF Conflict, GoTo, TypeOK, GuardedRan, Protected
  <2>3. ASSUME NEW k \in StorageKeys
        PROVE  HandlersOf(k)' \subseteq HandlersOf(k) /\ Allowed(k)' >= Allowed(k)
    BY <1>4, <1>t, <1>y DEF Conflict, GoTo, TypeOK, GuardedRan, HandlersOf, KeyOf, Protected, Allowed
  <2> QED
    BY <1>y, <2>2, <2>3, BoundKept DEF LockInv, OverlapBoundedByLapses, Allowed
<1>5. ASSUME NEW a \in Attempts, Bypass(a) PROVE LockInv'
  <2>2. GuardedRan'
    BY <1>5, <1>t DEF Bypass, GoTo, TypeOK, GuardedRan, Protected
  <2>3. ASSUME NEW k \in StorageKeys, k # KeyOf(a)
        PROVE  HandlersOf(k)' \subseteq HandlersOf(k) /\ Allowed(k)' >= Allowed(k)
    BY <1>5, <1>t, <1>y, <2>3 DEF Bypass, GoTo, TypeOK, HandlersOf, KeyOf, Protected, Allowed
  <2>4. ASSUME NEW k \in StorageKeys, k = KeyOf(a)
        PROVE  Cardinality(HandlersOf(k)') <= Allowed(k)'
    <3>1. HandlersOf(k)' = HandlersOf(k) \cup {a} /\ a \notin HandlersOf(k)
      BY <1>5, <1>t, <2>4 DEF Bypass, GoTo, TypeOK, GuardedRan, HandlersOf, KeyOf, Protected
    <3>2. IsFiniteSet(HandlersOf(k)) /\ Cardinality(HandlersOf(k)) \in Nat
      BY <1>t, HandlersFinite
    <3>3. Cardinality(HandlersOf(k)') = Cardinality(HandlersOf(k)) + 1
      BY <3>1, <3>2, FS_AddElement
    <3>4. Allowed(k)' = Allowed(k) + 1 /\ Allowed(k) \in Nat
      BY <1>5, <1>t, <2>4 DEF Bypass, Allowed, TypeOK
    <3>5. Cardinality(HandlersOf(k)) <= Allowed(k)
      BY DEF LockInv, OverlapBoundedByLapses, Allowed
    <3> QED
      BY <3>2, <3>3, <3>4, <3>5
  <2> QED
    BY <1>y, <2>2, <2>3, <2>4, BoundKept DEF LockInv, OverlapBoundedByLapses, Allowed
<1>6. ASSUME NEW a \in Attempts, Execute(a) PROVE LockInv'
  <2>2. GuardedRan'
    BY <1>6, <1>t DEF Execute, GoTo, TypeOK, GuardedRan, Protected
  <2>3. ASSUME NEW k \in StorageKeys
        PROVE  HandlersOf(k)' \subseteq HandlersOf(k) /\ Allowed(k)' >= Allowed(k)
    BY <1>6, <1>t, <1>y DEF Execute, GoTo, TypeOK, GuardedRan, HandlersOf, KeyOf, Protected, Allowed
  <2> QED
    BY <1>y, <2>2, <2>3, BoundKept DEF LockInv, OverlapBoundedByLapses, Allowed
<1>7. ASSUME NEW a \in Attempts, Respond(a) PROVE LockInv'
  <2>2. GuardedRan'
    BY <1>7, <1>t DEF Respond, GoTo, TypeOK, GuardedRan, Protected
  <2>3. ASSUME NEW k \in StorageKeys
        PROVE  HandlersOf(k)' \subseteq HandlersOf(k) /\ Allowed(k)' >= Allowed(k)
    BY <1>7, <1>t, <1>y DEF Respond, GoTo, TypeOK, GuardedRan, HandlersOf, KeyOf, Protected, Allowed
  <2> QED
    BY <1>y, <2>2, <2>3, BoundKept DEF LockInv, OverlapBoundedByLapses, Allowed
<1>8. ASSUME NEW a \in Attempts, Crash(a) PROVE LockInv'
  <2>2. GuardedRan'
    BY <1>8, <1>t DEF Crash, InFlight, GoTo, TypeOK, GuardedRan, Protected
  <2>3. ASSUME NEW k \in StorageKeys
        PROVE  HandlersOf(k)' \subseteq HandlersOf(k) /\ Allowed(k)' >= Allowed(k)
    BY <1>8, <1>t, <1>y DEF Crash, InFlight, GoTo, TypeOK, GuardedRan, HandlersOf, KeyOf, Protected, Allowed
  <2> QED
    BY <1>y, <2>2, <2>3, BoundKept DEF LockInv, OverlapBoundedByLapses, Allowed
<1>9. ASSUME NEW a \in Attempts, SettleSet(a) PROVE LockInv'
  <2>2. GuardedRan'
    BY <1>9, <1>t DEF SettleSet, TypeOK, GuardedRan, Protected
  <2>3. ASSUME NEW k \in StorageKeys
        PROVE  HandlersOf(k)' \subseteq HandlersOf(k) /\ Allowed(k)' >= Allowed(k)
    BY <1>9, <1>t, <1>y DEF SettleSet, TypeOK, HandlersOf, KeyOf, Protected, Allowed
  <2> QED
    BY <1>y, <2>2, <2>3, BoundKept DEF LockInv, OverlapBoundedByLapses, Allowed
<1>10. ASSUME NEW a \in Attempts, AcquireLock(a) PROVE LockInv'
  <2>2. GuardedRan'
    BY <1>10, <1>t DEF AcquireLock, GoTo, TypeOK, GuardedRan, Protected
  <2>3. ASSUME NEW k \in StorageKeys, k # KeyOf(a)
        PROVE  HandlersOf(k)' \subseteq HandlersOf(k) /\ Allowed(k)' >= Allowed(k)
    BY <1>10, <1>t, <1>y, <2>3 DEF AcquireLock, GoTo, TypeOK, HandlersOf, KeyOf, Protected, Allowed
  <2>4. ASSUME NEW k \in StorageKeys, k = KeyOf(a)
        PROVE  Cardinality(HandlersOf(k)') <= Allowed(k)'
    <3>1. HandlersOf(k)' = HandlersOf(k) \cup {a} /\ a \notin HandlersOf(k)
      BY <1>10, <1>t, <2>4 DEF AcquireLock, GoTo, TypeOK, GuardedRan, HandlersOf, KeyOf, Protected
    <3>2. IsFiniteSet(HandlersOf(k)) /\ Cardinality(HandlersOf(k)) \in Nat
      BY <1>t, HandlersFinite
    <3>3. Cardinality(HandlersOf(k)') = Cardinality(HandlersOf(k)) + 1
      BY <3>1, <3>2, FS_AddElement
    <3>4. Allowed(k)' = Allowed(k) + 1 /\ Allowed(k) \in Nat
      BY <1>10, <1>t, <2>4 DEF AcquireLock, Allowed, TypeOK
    <3>5. Cardinality(HandlersOf(k)) <= Allowed(k)
      BY DEF LockInv, OverlapBoundedByLapses, Allowed
    <3> QED
      BY <3>2, <3>3, <3>4, <3>5
  <2> QED
    BY <1>y, <2>2, <2>3, <2>4, BoundKept DEF LockInv, OverlapBoundedByLapses, Allowed
<1>11. ASSUME NEW a \in Attempts, SettleUnlock(a) PROVE LockInv'
  <2>2. GuardedRan'
    BY <1>11, <1>t DEF SettleUnlock, TypeOK, GuardedRan, Protected
  <2>3. ASSUME NEW k \in StorageKeys, k # KeyOf(a)
        PROVE  HandlersOf(k)' \subseteq HandlersOf(k) /\ Allowed(k)' >= Allowed(k)
    BY <1>11, <1>t, <1>y, <2>3 DEF SettleUnlock, TypeOK, HandlersOf, KeyOf, Protected, Allowed
  <2>4. ASSUME NEW k \in StorageKeys, k = KeyOf(a)
        PROVE  Cardinality(HandlersOf(k)') <= Allowed(k)'
    <3>1. HandlersOf(k)' = HandlersOf(k) \ {a} /\ a \in HandlersOf(k)
      BY <1>11, <1>t, <2>4 DEF SettleUnlock, TypeOK, GuardedRan, HandlersOf, KeyOf, Protected
    <3>2. IsFiniteSet(HandlersOf(k)) /\ Cardinality(HandlersOf(k)) \in Nat
      BY <1>t, HandlersFinite
    <3>3. Cardinality(HandlersOf(k)') = Cardinality(HandlersOf(k)) - 1
      BY <3>1, <3>2, FS_RemoveElement
    <3>4. /\ Allowed(k) <= 1 + lapsed[k] /\ Allowed(k)' = lapsed[k]
          /\ lapsed[k] \in Nat /\ Allowed(k) \in Nat
      BY <1>11, <1>t, <2>4 DEF SettleUnlock, Allowed, TypeOK
    <3>5. Cardinality(HandlersOf(k)) <= Allowed(k)
      BY DEF LockInv, OverlapBoundedByLapses, Allowed
    <3> QED
      BY <3>2, <3>3, <3>4, <3>5
  <2> QED
    BY <1>y, <2>2, <2>3, <2>4, BoundKept DEF LockInv, OverlapBoundedByLapses, Allowed
<1>12. ASSUME NEW k \in StorageKeys, ExpireLock(k) \/ ExpireRecord(k) PROVE LockInv'
  <2>2. GuardedRan'
    BY <1>12, <1>t DEF ExpireLock, ExpireRecord, GuardedRan, Protected
  <2>3. ASSUME NEW l \in StorageKeys
        PROVE  HandlersOf(l)' \subseteq HandlersOf(l) /\ Allowed(l)' >= Allowed(l)
    BY <1>12, <1>t, <1>y DEF ExpireLock, ExpireRecord, TypeOK, HandlersOf, KeyOf, Protected, Allowed
  <2> QED
    BY <1>y, <2>2, <2>3, BoundKept DEF LockInv, OverlapBoundedByLapses, Allowed
<1>14. ASSUME NEW a \in Attempts, ReplyLost(a) PROVE LockInv'
  <2>2. GuardedRan'
    BY <1>14, <1>t DEF ReplyLost, TypeOK, GuardedRan, Protected
  <2>3. ASSUME NEW k \in StorageKeys
        PROVE  HandlersOf(k)' \subseteq HandlersOf(k) /\ Allowed(k)' >= Allowed(k)
    <3>1. HandlersOf(k)' = HandlersOf(k)
      BY <1>14, <1>t DEF ReplyLost, HandlersOf, KeyOf, Protected
    <3>2. Allowed(k)' >= Allowed(k)
      BY <1>14, <1>t, <1>y DEF ReplyLost, TypeOK, Allowed
    <3> QED
      BY <3>1, <3>2
  <2> QED
    BY <1>y, <2>2, <2>3, BoundKept DEF LockInv, OverlapBoundedByLapses, Allowed
<1>13. CASE UNCHANGED vars
  <2>1. TypeOK' /\ GuardedRan'
    BY <1>13, <1>t DEF vars, TypeOK, GuardedRan, Protected
  <2>2. ASSUME NEW k \in StorageKeys
        PROVE  HandlersOf(k)' \subseteq HandlersOf(k) /\ Allowed(k)' >= Allowed(k)
    BY <1>13, <1>t DEF vars, HandlersOf, KeyOf, Protected, Allowed, TypeOK
  <2> QED
    BY <2>1, <2>2, BoundKept DEF LockInv, OverlapBoundedByLapses, Allowed
<1> QED
  BY <1>1, <1>2, <1>3, <1>4, <1>5, <1>6, <1>7, <1>8, <1>9, <1>10, <1>11, <1>12, <1>13,
     <1>14 DEF Next, RedisNext, Serve, Settle

\* The inductive invariant of the lock: what holders are, and how many handlers there are.
THEOREM LockInvariant == Spec => []LockInv
  BY LockInvInit, LockInvStep, PTL DEF Spec

\* Handlers of one storage key, bypassed ones included, overlap at most once more than its
\* lock ended under its holder or was bypassed.
THEOREM OverlapBounded == Spec => []OverlapBoundedByLapses
<1>1. LockInv => OverlapBoundedByLapses
  BY DEF LockInv
<1> QED
  BY <1>1, LockInvInit, LockInvStep, PTL DEF Spec

-----------------------------------------------------------------------------
\* Stored responses stay under the key of the attempt that sent them.
THEOREM ReplayInvStep == ReplayInv /\ [Next]_vars => ReplayInv'
<1> SUFFICES ASSUME ReplayInv, [Next]_vars PROVE ReplayInv'
  OBVIOUS
<1>t. TypeOK
  BY DEF ReplayInv
<1>y. TypeOK'
  BY <1>t, TypeStep
<1>k. UNCHANGED input /\ \A a \in Attempts : KeyOf(a)' = KeyOf(a)
  BY KeyStable
<1>1. ASSUME NEW a \in Attempts, Arrive(a) PROVE ReplayInv'
  <2> QED
    BY <1>1, <1>t, <1>k, <1>y, AttemptsAssumption DEF Arrive, GoTo, TypeOK, ReplayInv
<1>2. ASSUME NEW a \in Attempts, Miss(a) PROVE ReplayInv'
  <2> QED
    BY <1>2, <1>t, <1>k, <1>y, AttemptsAssumption DEF Miss, GoTo, TypeOK, ReplayInv
<1>3. ASSUME NEW a \in Attempts, AcquireLock(a) PROVE ReplayInv'
  <2> QED
    BY <1>3, <1>t, <1>k, <1>y, AttemptsAssumption DEF AcquireLock, GoTo, TypeOK, ReplayInv
<1>4. ASSUME NEW a \in Attempts, Conflict(a) PROVE ReplayInv'
  <2> QED
    BY <1>4, <1>t, <1>k, <1>y, AttemptsAssumption DEF Conflict, GoTo, TypeOK, ReplayInv
<1>5. ASSUME NEW a \in Attempts, Bypass(a) PROVE ReplayInv'
  <2> QED
    BY <1>5, <1>t, <1>k, <1>y, AttemptsAssumption DEF Bypass, GoTo, TypeOK, ReplayInv
<1>6. ASSUME NEW a \in Attempts, Execute(a) PROVE ReplayInv'
  <2>2. PICK o \in {"effect", "error", "limited"} : outcome' = [outcome EXCEPT ![a] = o]
    BY <1>6 DEF Execute, Outcomes
  <2>3. outcome'[a] = o /\ o # Absent
    BY <1>t, <2>2, AttemptsAssumption DEF TypeOK
  <2>4. \A b \in Attempts : outcome[b] # Absent => outcome'[b] # Absent
    BY <1>t, <2>2, <2>3 DEF TypeOK
  <2> QED
    BY <1>6, <1>t, <1>k, <1>y, <2>3, <2>4, AttemptsAssumption
       DEF Execute, GoTo, TypeOK, ReplayInv
<1>7. ASSUME NEW a \in Attempts, Crash(a) PROVE ReplayInv'
  <2> QED
    BY <1>7, <1>t, <1>k, <1>y, AttemptsAssumption DEF Crash, InFlight, GoTo, TypeOK, ReplayInv
<1>8. ASSUME NEW a \in Attempts, SettleUnlock(a) PROVE ReplayInv'
  <2> QED
    BY <1>8, <1>t, <1>k, <1>y, AttemptsAssumption DEF SettleUnlock, GoTo, TypeOK, ReplayInv
<1>9. ASSUME NEW a \in Attempts, Replay(a) PROVE ReplayInv'
  <2>1. PICK b \in Attempts : b = record[KeyOf(a)]
    BY <1>9, <1>t, KeyOfType DEF Replay, TypeOK
  <2>2. KeyOf(b) = KeyOf(a) /\ answer[b] = b /\ a # b
    BY <1>9, <1>t, <2>1, KeyOfType, AttemptsAssumption DEF Replay, ReplayInv
  <2>3. answer' = [answer EXCEPT ![a] = b] /\ phase' = [phase EXCEPT ![a] = "answered"]
        /\ UNCHANGED <<guarded, outcome, settling, lock, record, failures, history>>
    BY <1>9, <2>1 DEF Replay, GoTo
  <2>5. answer[a] = Absent
    BY <1>9, <1>t DEF Replay, ReplayInv
  <2> QED
    BY <1>t, <1>k, <2>2, <2>3, <1>y, <2>5, AttemptsAssumption DEF TypeOK, ReplayInv
<1>10. ASSUME NEW a \in Attempts, Respond(a) PROVE ReplayInv'
  <2>2. answer[a] = Absent /\ outcome[a] # Absent
    BY <1>10, <1>t DEF Respond, ReplayInv
  <2> QED
    BY <1>10, <1>t, <1>k, <1>y, <2>2, AttemptsAssumption
       DEF Respond, GoTo, TypeOK, ReplayInv
<1>11. ASSUME NEW a \in Attempts, SettleSet(a) PROVE ReplayInv'
  <2>2. answer[a] = a
    BY <1>11 DEF SettleSet, ReplayInv
  <2> QED
    BY <1>11, <1>t, <1>k, <1>y, <2>2, KeyOfType DEF SettleSet, TypeOK, ReplayInv
<1>12. ASSUME NEW k \in StorageKeys, ExpireLock(k) \/ ExpireRecord(k) PROVE ReplayInv'
  <2> QED
    BY <1>12, <1>t, <1>k, <1>y DEF ExpireLock, ExpireRecord, TypeOK, ReplayInv
<1>14. ASSUME NEW a \in Attempts, ReplyLost(a) PROVE ReplayInv'
  BY <1>14, <1>t, <1>k, <1>y, KeyOfType DEF ReplyLost, TypeOK, ReplayInv
<1>13. CASE UNCHANGED vars
  BY <1>13, <1>k DEF vars, TypeOK, ReplayInv
<1> QED
  BY <1>1, <1>2, <1>3, <1>4, <1>5, <1>6, <1>7, <1>8, <1>9, <1>10, <1>11, <1>12, <1>13,
     <1>14 DEF Next, RedisNext, Serve, Settle

LEMMA ReplayInvInit == Init => ReplayInv
  BY AttemptsAssumption DEF Init, ReplayInv, TypeOK

\* The inductive invariant of the stored responses.
THEOREM ReplayInvariant == Spec => []ReplayInv
  BY ReplayInvInit, ReplayInvStep, PTL DEF Spec

\* A replayed response was sent to an attempt with the same key, path and request id.
THEOREM ReplaysAreFaithful == Spec => []ReplayIsFaithful
<1>1. Init => ReplayInv
  BY ReplayInvInit
<1>2. ReplayInv => ReplayIsFaithful
  <2> SUFFICES ASSUME ReplayInv, NEW a \in Attempts, NEW b \in Attempts,
                      answer[a] = b, a # b
               PROVE  /\ answer[b] = b /\ outcome[b] # Absent
                      /\ input[a].key = input[b].key
                      /\ input[a].path = input[b].path
                      /\ input[a].requestId = input[b].requestId
                      /\ input[a].requestId # Absent
    BY DEF ReplayIsFaithful
  <2>1. KeyOf(b) = KeyOf(a) /\ answer[b] = b /\ outcome[b] # Absent
    BY DEF ReplayInv
  <2>2. input[a] \in Request /\ input[b] \in Request
    BY DEF ReplayInv, TypeOK
  <2> QED
    BY <2>1, <2>2, AttemptsAssumption DEF KeyOf, StorageKey, Request
<1> QED
  BY <1>1, <1>2, ReplayInvStep, PTL DEF Spec

-----------------------------------------------------------------------------
\* Two attempts that both ran have met, or their storage key kept no response.
THEOREM RunInvStep == RunInv /\ [Next]_vars => RunInv'
<1> SUFFICES ASSUME RunInv, [Next]_vars PROVE RunInv'
  OBVIOUS
<1>t. TypeOK
  BY DEF RunInv
<1>y. TypeOK'
  BY <1>t, TypeStep
<1>k. UNCHANGED input /\ \A a \in Attempts : KeyOf(a)' = KeyOf(a) /\ KeyOf(a) \in StorageKeys
  BY <1>t, KeyStable, KeyOfType
<1>p. \A a \in Attempts : Protected(a)' <=> Protected(a)
  BY <1>k DEF Protected
<1> USE <1>t, <1>y, <1>k, <1>p, AttemptsAssumption
<1>1. ASSUME NEW a \in Attempts, Arrive(a) PROVE RunInv'
  BY <1>1 DEF Arrive, GoTo, TypeOK, RunInv, Entered, UnderWay
<1>2. ASSUME NEW a \in Attempts, Replay(a) PROVE RunInv'
  BY <1>2 DEF Replay, GoTo, TypeOK, RunInv, Entered, UnderWay
<1>3. ASSUME NEW a \in Attempts, Miss(a) PROVE RunInv'
  BY <1>3 DEF Miss, GoTo, TypeOK, RunInv, Entered, UnderWay
<1>4. ASSUME NEW a \in Attempts, AcquireLock(a) PROVE RunInv'
  BY <1>4 DEF AcquireLock, GoTo, TypeOK, RunInv, Entered, UnderWay
<1>5. ASSUME NEW a \in Attempts, Conflict(a) PROVE RunInv'
  BY <1>5 DEF Conflict, GoTo, TypeOK, RunInv, Entered, UnderWay
<1>6. ASSUME NEW a \in Attempts, Bypass(a) PROVE RunInv'
  BY <1>6 DEF Bypass, GoTo, TypeOK, RunInv, Entered, UnderWay
<1>7. ASSUME NEW a \in Attempts, Execute(a) PROVE RunInv'
  BY <1>7 DEF Execute, Outcomes, GoTo, TypeOK, RunInv, Entered, UnderWay
<1>8. ASSUME NEW a \in Attempts, Respond(a) PROVE RunInv'
  BY <1>8 DEF Respond, GoTo, TypeOK, RunInv, Entered, UnderWay
<1>9. ASSUME NEW a \in Attempts, SettleSet(a) PROVE RunInv'
  BY <1>9 DEF SettleSet, GoTo, TypeOK, RunInv, Entered, UnderWay
<1>10. ASSUME NEW a \in Attempts, SettleUnlock(a) PROVE RunInv'
  BY <1>10 DEF SettleUnlock, GoTo, TypeOK, RunInv, Entered, UnderWay
<1>11. ASSUME NEW a \in Attempts, Crash(a) PROVE RunInv'
  BY <1>11 DEF Crash, InFlight, GoTo, TypeOK, RunInv, Entered, UnderWay
<1>12. ASSUME NEW a \in Attempts, ReplyLost(a) PROVE RunInv'
  BY <1>12 DEF ReplyLost, GoTo, TypeOK, RunInv, Entered, UnderWay
<1>13. ASSUME NEW k \in StorageKeys, ExpireLock(k) \/ ExpireRecord(k) PROVE RunInv'
  BY <1>13 DEF ExpireLock, ExpireRecord, TypeOK, RunInv, Entered, UnderWay
<1>14. CASE UNCHANGED vars
  BY <1>14 DEF vars, RunInv, Entered, UnderWay
<1> QED
  BY <1>1, <1>2, <1>3, <1>4, <1>5, <1>6, <1>7, <1>8, <1>9, <1>10, <1>11, <1>12, <1>13,
     <1>14 DEF Next, RedisNext, Serve, Settle

LEMMA RunInvInit == Init => RunInv
  BY AttemptsAssumption DEF Init, RunInv, TypeOK, Entered, UnderWay

\* The inductive invariant behind the next theorem.
THEOREM RunInvariant == Spec => []RunInv
  BY RunInvInit, RunInvStep, PTL DEF Spec

\* A handler runs twice under one storage key only if the attempts overlapped or
\* the response of one was not kept.
THEOREM SecondRunsOverlap == Spec => []SecondRunNeedsOverlap
<1>1. RunInv => SecondRunNeedsOverlap
  BY DEF RunInv, SecondRunNeedsOverlap, Entered
<1> QED
  BY <1>1, RunInvariant, PTL

\* What is known of the middleware in every state.
THEOREM MiddlewareInvariant == Spec => []MiddlewareInv
<1>1. LockInv /\ ReplayInv /\ RunInv => MiddlewareInv
  BY DEF MiddlewareInv
<1> QED
  BY <1>1, LockInvariant, ReplayInvariant, RunInvariant, PTL

-----------------------------------------------------------------------------
(* The locks and their owners.                                             *)

\* Why the lock of k is there.
Owned(k) == \/ Holding(k) # {}
            \/ failures > 0
            \/ \E a \in guarded : KeyOf(a) = k /\ phase[a] = "answered" /\ ~UsesJson(a)

\* Every step keeps the owner of a lock, or gives the lock back with it.
LEMMA OwnerStep ==
  ASSUME LockInv, LocksHaveOwners, [Next]_vars, NEW k \in lock'
  PROVE  Owned(k)'
<1>t. TypeOK /\ GuardedRan /\ failures \in Nat
  BY DEF LockInv, TypeOK
<1>o. k \in lock => Owned(k)
  BY DEF LocksHaveOwners, Owned
<1>k. UNCHANGED input /\ \A a \in Attempts : KeyOf(a)' = KeyOf(a)
  BY KeyStable
<1>j. \A a \in Attempts : outcome'[a] = outcome[a] => (UsesJson(a)' <=> UsesJson(a))
  BY <1>k DEF UsesJson, Endpoint
<1> USE <1>t, <1>k DEF TypeOK, GuardedRan
<1>1. ASSUME NEW a \in Attempts, Arrive(a) \/ Replay(a) \/ Miss(a) \/ Conflict(a)
      PROVE  Owned(k)'
  BY <1>1, <1>o, <1>j DEF Arrive, Replay, Miss, Conflict, GoTo, Owned, Holding
<1>2. ASSUME NEW a \in Attempts, AcquireLock(a) PROVE Owned(k)'
  BY <1>2, <1>o, <1>j DEF AcquireLock, GoTo, Owned, Holding
<1>3. ASSUME NEW a \in Attempts, Bypass(a) \/ Crash(a) \/ ReplyLost(a) PROVE Owned(k)'
  BY <1>3 DEF Bypass, Crash, ReplyLost, Owned
<1>4. ASSUME NEW a \in Attempts, Execute(a) PROVE Owned(k)'
  BY <1>4, <1>o, <1>j DEF Execute, GoTo, Owned, Holding
<1>5. ASSUME NEW a \in Attempts, Respond(a) PROVE Owned(k)'
  BY <1>5, <1>o, <1>j DEF Respond, GoTo, Owned, Holding
<1>6. ASSUME NEW a \in Attempts, SettleSet(a) PROVE Owned(k)'
  BY <1>6, <1>o, <1>j DEF SettleSet, Owned, Holding
<1>7. ASSUME NEW a \in Attempts, SettleUnlock(a) PROVE Owned(k)'
  BY <1>7, <1>o, <1>j DEF SettleUnlock, Owned, Holding
<1>8. ASSUME NEW l \in StorageKeys, ExpireLock(l) \/ ExpireRecord(l) PROVE Owned(k)'
  BY <1>8, <1>o, <1>j DEF ExpireLock, ExpireRecord, Owned, Holding
<1>9. CASE UNCHANGED vars
  BY <1>9, <1>o, <1>j DEF vars, Owned, Holding
<1> QED
  BY <1>1, <1>2, <1>3, <1>4, <1>5, <1>6, <1>7, <1>8, <1>9
     DEF Next, RedisNext, Serve, Settle

\* A lock stands for an attempt that is being served, unless something failed or an
\* attempt was answered with res.send.
THEOREM LocksAreOwned == Spec => []LocksHaveOwners
<1>1. Init => LocksHaveOwners
  BY DEF Init, LocksHaveOwners
<1>2. LockInv /\ LocksHaveOwners /\ [Next]_vars => LocksHaveOwners'
  BY OwnerStep DEF LocksHaveOwners, Owned
<1> QED
  BY <1>1, <1>2, LockInvariant, PTL DEF Spec

\* No two attempts have taken the lock of one storage key and not given it back.
OneHolder == \A k \in StorageKeys : \A a, b \in Holding(k) : a = b

\* Whoever has taken a lock still has it, alone.
Exclusive == \A k \in StorageKeys : \A a \in Holding(k) : k \in lock /\ Holding(k) = {a}

\* The lock excludes: while no time to live ends and no command is sent twice, it has
\* one holder at most, whatever else fails or crashes.
THEOREM LockExcludes ==
  ASSUME Faults \cap {"expiry", "resend"} = {}
  PROVE  Spec => []OneHolder
<1>1. Init => Exclusive
  BY DEF Init, Exclusive, Holding
<1>2. ASSUME LockInv, Exclusive, [Next]_vars PROVE Exclusive'
  <2>t. TypeOK /\ GuardedRan
    BY <1>2 DEF LockInv
  <2>k. \A a \in Attempts : KeyOf(a)' = KeyOf(a) /\ KeyOf(a) \in StorageKeys
    BY <1>2, <2>t, KeyStable, KeyOfType
  <2> SUFFICES ASSUME NEW k \in StorageKeys
               PROVE  \A a \in Holding(k)' : k \in lock' /\ Holding(k)' = {a}
    BY DEF Exclusive
  <2> USE <2>t, <2>k DEF TypeOK, GuardedRan, Holding
  <2>e. \A a \in Holding(k) : k \in lock /\ Holding(k) = {a}
    BY <1>2 DEF Exclusive
  <2>u. ASSUME Holding(k)' \subseteq Holding(k), lock \subseteq lock'
        PROVE  \A a \in Holding(k)' : k \in lock' /\ Holding(k)' = {a}
    BY <2>e, <2>u
  <2>1. ASSUME NEW a \in Attempts, \/ Arrive(a) \/ Replay(a) \/ Miss(a) \/ Conflict(a)
                                   \/ Bypass(a) \/ Execute(a) \/ Respond(a)
        PROVE  Holding(k)' \subseteq Holding(k) /\ lock \subseteq lock'
    BY <2>1 DEF Arrive, Replay, Miss, Conflict, Bypass, Execute, Respond, GoTo
  <2>2. ASSUME NEW a \in Attempts, SettleSet(a) \/ Crash(a)
        PROVE  Holding(k)' \subseteq Holding(k) /\ lock \subseteq lock'
    BY <2>2 DEF SettleSet, Crash, InFlight
  <2>3. ASSUME NEW a \in Attempts, AcquireLock(a)
        PROVE  \A b \in Holding(k)' : k \in lock' /\ Holding(k)' = {b}
    <3>1. CASE k = KeyOf(a)
      <4>1. Holding(k) = {}
        BY <2>3, <2>e, <3>1 DEF AcquireLock
      <4>2. Holding(k)' = {a} /\ k \in lock'
        BY <2>3, <3>1, <4>1 DEF AcquireLock, GoTo
      <4> QED
        BY <4>2
    <3>2. CASE k # KeyOf(a)
      <4>1. Holding(k)' \subseteq Holding(k) /\ lock \subseteq lock'
        BY <2>3, <3>2 DEF AcquireLock, GoTo
      <4> QED
        BY <2>u, <4>1
    <3> QED
      BY <3>1, <3>2
  <2>4. ASSUME NEW a \in Attempts, SettleUnlock(a)
        PROVE  \A b \in Holding(k)' : k \in lock' /\ Holding(k)' = {b}
    <3>1. CASE k = KeyOf(a)
      <4>1. Holding(k) = {a}
        BY <2>4, <2>e, <3>1 DEF SettleUnlock
      <4>2. Holding(k)' = {}
        BY <2>4, <4>1 DEF SettleUnlock
      <4> QED
        BY <4>2
    <3>2. CASE k # KeyOf(a)
      <4>1. Holding(k)' \subseteq Holding(k) /\ lock' = lock \ {KeyOf(a)}
        BY <2>4 DEF SettleUnlock
      <4> QED
        BY <2>e, <3>2, <4>1
    <3> QED
      BY <3>1, <3>2
  <2>5. ASSUME NEW a \in Attempts, ReplyLost(a) PROVE FALSE
    BY <2>5 DEF ReplyLost
  <2>6. ASSUME NEW l \in StorageKeys, ExpireLock(l) \/ ExpireRecord(l) PROVE FALSE
    BY <2>6 DEF ExpireLock, ExpireRecord
  <2>7. CASE UNCHANGED vars
    BY <2>7, <2>u DEF vars
  <2> QED
    BY <1>2, <2>u, <2>1, <2>2, <2>3, <2>4, <2>5, <2>6, <2>7
       DEF Next, RedisNext, Serve, Settle
<1>3. Exclusive => OneHolder
  BY DEF Exclusive, OneHolder
<1> QED
  BY <1>1, <1>2, <1>3, LockInvariant, PTL DEF Spec

InHandler(a) == phase[a] \in {"running", "responding"}

\* No two requests with one key, path and request id are in the handler at once.
OneHandler ==
  \A a, b \in Attempts :
    /\ Protected(a) /\ Protected(b) /\ KeyOf(a) = KeyOf(b)
    /\ InHandler(a) /\ InHandler(b)
    => a = b

\* Nobody gets past a lock that Redis keeps: where Redis never fails, never loses a
\* reply and no lock times out, the handlers of one key run one after the other, even
\* if processes crash. (One after the other they may run: see KeyExecutesOnce.)
THEOREM HandlersExclude ==
  ASSUME Faults \subseteq {"crash"}
  PROVE  Spec => []OneHandler
<1> DEFINE Locked == \A a \in Attempts : Protected(a) /\ InHandler(a) => a \in guarded
<1> USE DEF InHandler
<1>1. Init => Locked
  BY DEF Init
<1>2. ASSUME TypeOK, RunInv, Locked, [Next]_vars PROVE Locked'
  <2>1. \A a \in Attempts : Protected(a)' <=> Protected(a)
    BY <1>2, KeyStable DEF Protected
  <2>2. ASSUME NEW a \in Attempts, Arrive(a) \/ Serve(a) PROVE Locked'
    BY <1>2, <2>1, <2>2 DEF TypeOK, RunInv, GoTo, Arrive, Serve, Replay, Miss, AcquireLock,
       Conflict, Bypass, Respond
  <2>3. ASSUME NEW a \in Attempts, Execute(a) \/ Settle(a) \/ Crash(a) \/ ReplyLost(a)
        PROVE  Locked'
    BY <1>2, <2>1, <2>3 DEF TypeOK, GoTo, Execute, Settle, SettleSet, SettleUnlock, Crash,
       ReplyLost
  <2>4. ASSUME NEW k \in StorageKeys, ExpireLock(k) \/ ExpireRecord(k) PROVE Locked'
    BY <1>2, <2>1, <2>4 DEF ExpireLock, ExpireRecord
  <2>5. CASE UNCHANGED vars
    BY <1>2, <2>1, <2>5 DEF vars
  <2> QED
    BY <1>2, <2>2, <2>3, <2>4, <2>5 DEF Next, RedisNext
<1>3. ASSUME TypeOK, Locked, OneHolder PROVE OneHandler
  <2> SUFFICES ASSUME NEW a \in Attempts, NEW b \in Attempts,
                      Protected(a), Protected(b), KeyOf(a) = KeyOf(b),
                      InHandler(a), InHandler(b)
               PROVE  a = b
    BY DEF OneHandler
  <2>1. a \in Holding(KeyOf(a)) /\ b \in Holding(KeyOf(a))
    BY <1>3 DEF Holding
  <2> QED
    BY <1>3, <2>1, KeyOfType DEF OneHolder
<1>4. LockInv => TypeOK
  BY DEF LockInv
<1>5. Spec => []OneHolder
  BY LockExcludes
<1> HIDE DEF Locked
<1> QED
  BY <1>1, <1>2, <1>3, <1>4, <1>5, LockInvariant, RunInvariant, PTL DEF Spec

-----------------------------------------------------------------------------
\* Every step of the middleware is a step of the service, or none.
LEMMA ServiceStep ==
  ASSUME MiddlewareInv, [Next]_vars
  PROVE  [Service!ServiceNext]_(Service!serviceVars)
<1>t. TypeOK /\ ReplayInv /\ RunInv
  BY DEF MiddlewareInv, RunInv
<1>k. UNCHANGED input
  BY KeyStable
<1> USE <1>t, <1>k, AttemptsAssumption
<1>1. ASSUME NEW a \in Attempts, Execute(a) PROVE Service!TakeEffect(a)
  BY <1>1 DEF Execute, Outcomes, ReplayInv, RunInv, Service!TakeEffect, Service!Open
<1>2. ASSUME NEW a \in Attempts, Respond(a) PROVE Service!AnswerOwn(a)
  BY <1>2 DEF Respond, ReplayInv, Service!AnswerOwn, Service!Open
<1>3. ASSUME NEW a \in Attempts, Conflict(a) PROVE Service!Refuse(a)
  BY <1>3 DEF Conflict, ReplayInv, RunInv, Protected, Service!Refuse, Service!Open
<1>4. ASSUME NEW a \in Attempts, Replay(a) PROVE Service!AnswerAgain(a)
  <2>1. PICK b \in Attempts : b = record[KeyOf(a)]
    BY <1>4, KeyOfType DEF Replay, TypeOK
  <2>2. KeyOf(b) = KeyOf(a) /\ answer[b] = b /\ answer[a] = Absent /\ outcome[a] = Absent
    BY <1>4, <2>1, KeyOfType DEF Replay, ReplayInv, RunInv
  <2>3. a # b /\ input[a].key # Absent
    BY <1>4, <2>2 DEF Replay, RunInv, Protected
  <2>4. input[a] \in Request /\ input[b] \in Request
    BY DEF TypeOK
  <2>5. /\ input[b].key = input[a].key /\ input[b].path = input[a].path
        /\ input[b].requestId = input[a].requestId /\ input[a].requestId # Absent
    BY <2>2, <2>3, <2>4 DEF KeyOf, StorageKey, Request
  <2>6. Service!Answers(b, a)
    BY <2>2, <2>3, <2>5 DEF Service!Answers
  <2> QED
    BY <1>4, <2>1, <2>2, <2>6 DEF Replay, Service!AnswerAgain, Service!Open
<1>5. ASSUME UNCHANGED <<outcome, answer>> PROVE UNCHANGED Service!serviceVars
  BY <1>5 DEF Service!serviceVars
<1>6. ASSUME NEW a \in Attempts, \/ Arrive(a) \/ Miss(a) \/ AcquireLock(a) \/ Bypass(a)
                                 \/ Settle(a) \/ Crash(a) \/ ReplyLost(a)
      PROVE  UNCHANGED <<outcome, answer>>
  BY <1>6 DEF Arrive, Miss, AcquireLock, Bypass, Settle, SettleSet, SettleUnlock, Crash, ReplyLost
<1>7. ASSUME NEW k \in StorageKeys, ExpireLock(k) \/ ExpireRecord(k)
      PROVE  UNCHANGED <<outcome, answer>>
  BY <1>7 DEF ExpireLock, ExpireRecord
<1>8. CASE UNCHANGED vars
  BY <1>5, <1>8 DEF vars
<1> QED
  BY <1>1, <1>2, <1>3, <1>4, <1>5, <1>6, <1>7, <1>8
     DEF Next, RedisNext, Serve, Service!ServiceNext

\* The middleware implements the service that it promises its clients.
THEOREM MiddlewareImplementsService == Spec => ImplementsService
<1>1. Init => Service!ServiceInit
  BY DEF Init, Service!ServiceInit
<1>2. MiddlewareInv /\ [Next]_vars => [Service!ServiceNext]_(Service!serviceVars)
  BY ServiceStep
<1> QED
  BY <1>1, <1>2, MiddlewareInvariant, PTL DEF Spec, ImplementsService, Service!ServiceSpec
=============================================================================
