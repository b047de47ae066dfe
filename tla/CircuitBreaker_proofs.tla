----------------------- MODULE CircuitBreaker_proofs -----------------------
(* What the circuit breaker guarantees for every number of callers and     *)
(* every threshold.                                                         *)
EXTENDS CircuitBreaker, SequenceTheorems, TLAPS

\* The inductive invariant: the types of the breaker's own state and
\* ClosedIffBelowThreshold.  The lock and the callers play no part.
BreakerInv ==
    /\ state \in {"closed", "open", "half_open"}
    /\ consecutive_failures \in Nat
    /\ ClosedIffBelowThreshold

\* Recording an outcome, whatever the state it is recorded in, keeps the
\* breaker closed exactly below the threshold.
LEMMA RecordKeepsBreakerInv ==
    BreakerInv /\ (RecordSuccess \/ RecordFailure) => BreakerInv'
  BY BreakerAssumption
     DEF BreakerInv, ClosedIffBelowThreshold, RecordSuccess, RecordFailure

\* record_success, record_failure, reset and the time-out of the open state
\* keep the breaker closed exactly while fewer than failure_threshold
\* consecutive failures stand.
THEOREM BreakerClosedIffBelowThreshold == Spec => []ClosedIffBelowThreshold
<1>1. Init => BreakerInv
  BY BreakerAssumption DEF Init, BreakerInv, ClosedIffBelowThreshold
<1>2. BreakerInv /\ [Next]_vars => BreakerInv'
  <2> SUFFICES ASSUME BreakerInv, [Next]_vars PROVE BreakerInv'
    OBVIOUS
  <2> USE DEF BreakerInv, ClosedIffBelowThreshold
  <2>1. CASE UNCHANGED breakerVars
    BY <2>1 DEF breakerVars
  <2>2. CASE RecordSuccess \/ RecordFailure
    BY <2>2, RecordKeepsBreakerInv
  <2>3. CASE \E c \in Callers : CallProbe(c) \/ CallWait(c)
    BY <2>3 DEF CallProbe, CallWait, MaybeHalfOpen
  <2>4. CASE Reset
    BY <2>4, BreakerAssumption DEF Reset
  <2>5. CASE Cool
    BY <2>5 DEF Cool
  <2>6. CASE UNCHANGED vars
    BY <2>6, <2>1 DEF vars
  <2> QED
    BY <2>1, <2>2, <2>3, <2>4, <2>5, <2>6
       DEF Next, CallClosed, Acquired, CancelWaiting, Succeed, RetryLater,
           RetryNow, FailUnhealthy, FailOther, CancelSleeping, RebindLock
<1>3. BreakerInv => ClosedIffBelowThreshold
  BY DEF BreakerInv
<1> QED
  BY <1>1, <1>2, <1>3, PTL DEF Spec

(***************************************************************************)
(* Types.                                                                  *)
(***************************************************************************)

\* with_retry sleeps only with attempts left.
BreakerTypeInv ==
    /\ TypeOK
    /\ \A c \in Callers : pc[c] = "sleeping" => attempts[c] < MaxAttempts

\* A queue from which a waiter is removed is a queue of callers.
LEMMA RemoveAtType ==
    ASSUME NEW q \in Seq(Callers), NEW i \in DOMAIN q
    PROVE  RemoveAt(q, i) \in Seq(Callers)
<1>1. Len(q) \in Nat /\ i \in 1 .. Len(q) /\ \A k \in 1 .. Len(q) : q[k] \in Callers
  BY LenProperties, ElementOfSeq
<1>2. SubSeq(q, 1, i - 1) \in Seq(Callers)
  <2>1. 1 \in Int /\ i - 1 \in Int /\ \A k \in 1 .. (i - 1) : q[k] \in Callers
    BY <1>1
  <2> QED
    BY <2>1, SubSeqProperties
<1>3. SubSeq(q, i + 1, Len(q)) \in Seq(Callers)
  <2>1. i + 1 \in Int /\ Len(q) \in Int /\ \A k \in (i + 1) .. Len(q) : q[k] \in Callers
    BY <1>1
  <2> QED
    BY <2>1, SubSeqProperties
<1> QED
  BY <1>2, <1>3, ConcatProperties DEF RemoveAt

\* So is the set of the waiters woken by a release.
LEMMA WakeUpFirstType ==
    ASSUME NEW q \in Seq(Callers)
    PROVE  WakeUpFirst(q) \subseteq Callers
<1>1. q # <<>> => Head(q) \in Callers
  BY HeadTailProperties
<1> QED
  BY <1>1 DEF WakeUpFirst

\* The inductive step.
LEMMA BreakerTypeStep ==
    ASSUME BreakerTypeInv, [Next]_vars
    PROVE  BreakerTypeInv'
<1>1. /\ FailureThreshold \in Nat \ {0} /\ MaxAttempts \in Nat \ {0} /\ MaxFailures \in Nat
      /\ MaxLocks \in Nat
  BY BreakerAssumption
<1>2. state \in {"closed", "open", "half_open"} /\ consecutive_failures \in 0..MaxFailures
  BY DEF BreakerTypeInv, TypeOK
<1>2a. cooled \in BOOLEAN
  BY DEF BreakerTypeInv, TypeOK
<1>2b. /\ lock \in LockIds
       /\ locked \in [LockIds -> BOOLEAN]
       /\ waiters \in [LockIds -> Seq(Callers)]
       /\ woken \subseteq Callers
  BY DEF BreakerTypeInv, TypeOK
<1>2c. /\ pc \in [Callers -> {"idle", "waiting", "calling", "sleeping"}]
       /\ attempts \in [Callers -> 0..MaxAttempts]
       /\ \A c \in Callers : pc[c] = "sleeping" => attempts[c] < MaxAttempts
  BY DEF BreakerTypeInv, TypeOK
<1> DEFINE Breaker == /\ state' \in {"closed", "open", "half_open"}
                      /\ consecutive_failures' \in 0..MaxFailures
                      /\ cooled' \in BOOLEAN
           Locks == /\ lock' \in LockIds
                    /\ locked' \in [LockIds -> BOOLEAN]
                    /\ waiters' \in [LockIds -> Seq(Callers)]
                    /\ woken' \subseteq Callers
           Calls == /\ pc' \in [Callers -> {"idle", "waiting", "calling", "sleeping"}]
                    /\ attempts' \in [Callers -> 0..MaxAttempts]
                    /\ \A c \in Callers : pc'[c] = "sleeping" => attempts'[c] < MaxAttempts
<1> SUFFICES Breaker /\ Locks /\ Calls
  BY DEF BreakerTypeInv, TypeOK
<1>3. UNCHANGED breakerVars => Breaker
  BY Zenon, <1>2, <1>2a DEF breakerVars
<1>4. UNCHANGED lockVars => Locks
  BY Zenon, <1>2b DEF lockVars
<1>5. UNCHANGED callerVars => Calls
  BY Zenon, <1>2c DEF callerVars
<1>6. ASSUME NEW c \in Callers, Enter(c) \/ Leave(c) PROVE Calls
  <2>1. 0 \in 0..MaxAttempts /\ 1 \in 0..MaxAttempts
    BY <1>1
  <2>2. pc' \in [Callers -> {"idle", "waiting", "calling", "sleeping"}] /\ attempts' \in [Callers -> 0..MaxAttempts]
    BY <1>2c, <1>6, <2>1 DEF Enter, Leave
  <2>3. ASSUME NEW d \in Callers, pc'[d] = "sleeping" PROVE attempts'[d] < MaxAttempts
    BY <1>2c, <1>6, <2>3 DEF Enter, Leave
  <2> QED
    BY <2>2, <2>3
<1>7. ReleaseIfLocked => Locks
  <2> SUFFICES ASSUME ReleaseIfLocked PROVE Locks
    OBVIOUS
  <2>1. WakeUpFirst(waiters[lock]) \subseteq Callers
    BY <1>2b, WakeUpFirstType
  <2>2. woken' \subseteq Callers
    BY Zenon, <1>2b, <2>1 DEF ReleaseIfLocked
  <2> QED
    BY <1>2b, <2>2 DEF ReleaseIfLocked
<1>8. RecordSuccess \/ RecordFailure => Breaker /\ Locks
  <2>1. RecordSuccess \/ RecordFailure => Locks
    BY Zenon, <1>4, <1>7 DEF RecordSuccess, RecordFailure
  <2>2. RecordSuccess \/ RecordFailure => cooled' \in BOOLEAN
    BY Zenon, <1>2a DEF RecordSuccess, RecordFailure
  <2>3. RecordSuccess \/ RecordFailure =>
           state' \in {"closed", "open", "half_open"} /\ consecutive_failures' \in {0, consecutive_failures + 1}
    BY Zenon, <1>2 DEF RecordSuccess, RecordFailure
  <2>4. RecordFailure => consecutive_failures < MaxFailures
    BY Zenon DEF RecordFailure
  <2>5. RecordSuccess => consecutive_failures' = 0
    BY Zenon DEF RecordSuccess
  <2>6. RecordSuccess \/ RecordFailure => consecutive_failures' \in 0..MaxFailures
    BY <1>1, <1>2, <2>3, <2>4, <2>5
  <2> QED
    BY Zenon, <2>1, <2>2, <2>3, <2>6
<1>9. ASSUME NEW c \in Callers, CallClosed(c) PROVE Breaker /\ Locks /\ Calls
  BY Zenon, <1>3, <1>4, <1>6, <1>9 DEF CallClosed, breakerVars, lockVars
<1>10. ASSUME NEW c \in Callers, CallProbe(c) PROVE Breaker /\ Locks /\ Calls
  <2>1. Calls
    BY Zenon, <1>6, <1>10 DEF CallProbe
  <2>2. Breaker
    BY Zenon, <1>2, <1>2a, <1>10 DEF CallProbe
  <2>3. Locks
    BY <1>2b, <1>10 DEF CallProbe
  <2> QED
    BY <2>1, <2>2, <2>3
<1>11. ASSUME NEW c \in Callers, CallWait(c) PROVE Breaker /\ Locks /\ Calls
  <2>1. Append(waiters[lock], c) \in Seq(Callers)
    BY <1>2b, AppendProperties
  <2>2. Locks
    BY <1>2b, <1>11, <2>1 DEF CallWait
  <2>3. Breaker
    BY Zenon, <1>2, <1>2a, <1>11 DEF CallWait
  <2>4. Calls
    BY <1>2c, <1>11 DEF CallWait
  <2> QED
    BY <2>2, <2>3, <2>4
<1>12. ASSUME NEW c \in Callers, Acquired(c) PROVE Breaker /\ Locks /\ Calls
  <2>1. PICK l \in LockIds : \E i \in DOMAIN waiters[l] :
           /\ waiters' = [waiters EXCEPT ![l] = RemoveAt(@, i)]
           /\ locked' = [locked EXCEPT ![l] = TRUE]
    BY Zenon, <1>12 DEF Acquired
  <2>2. PICK i \in DOMAIN waiters[l] : waiters' = [waiters EXCEPT ![l] = RemoveAt(@, i)]
    BY Zenon, <2>1
  <2>3. RemoveAt(waiters[l], i) \in Seq(Callers)
    BY <1>2b, RemoveAtType
  <2>4. Locks
    BY <1>2b, <1>12, <2>1, <2>2, <2>3 DEF Acquired
  <2>5. Breaker /\ Calls
    BY Zenon, <1>3, <1>6, <1>12 DEF Acquired, breakerVars
  <2> QED
    BY <2>4, <2>5
<1>13. ASSUME NEW c \in Callers, CancelWaiting(c) PROVE Breaker /\ Locks /\ Calls
  <2>1. PICK l \in LockIds : \E i \in DOMAIN waiters[l] :
           /\ waiters' = [waiters EXCEPT ![l] = RemoveAt(@, i)]
           /\ woken' = (woken \ {c}) \cup (IF locked[l] THEN {} ELSE WakeUpFirst(waiters'[l]))
    BY Zenon, <1>13 DEF CancelWaiting
  <2>2. PICK i \in DOMAIN waiters[l] : waiters' = [waiters EXCEPT ![l] = RemoveAt(@, i)]
    BY Zenon, <2>1
  <2>3. RemoveAt(waiters[l], i) \in Seq(Callers)
    BY <1>2b, RemoveAtType
  <2>4. waiters' \in [LockIds -> Seq(Callers)]
    BY <1>2b, <2>2, <2>3
  <2>5. WakeUpFirst(waiters'[l]) \subseteq Callers
    BY <2>4, WakeUpFirstType
  <2>6. woken' \subseteq Callers
    BY Zenon, <1>2b, <2>1, <2>5
  <2>7. Breaker /\ Calls /\ UNCHANGED <<lock, locked>>
    BY Zenon, <1>3, <1>6, <1>13 DEF CancelWaiting, breakerVars
  <2> QED
    BY Zenon, <1>2b, <2>4, <2>6, <2>7
<1>14. ASSUME NEW c \in Callers, Succeed(c) \/ FailUnhealthy(c) PROVE Breaker /\ Locks /\ Calls
  BY Zenon, <1>6, <1>8, <1>14 DEF Succeed, FailUnhealthy
<1>15. ASSUME NEW c \in Callers, FailOther(c) \/ CancelSleeping(c) PROVE Breaker /\ Locks /\ Calls
  BY Zenon, <1>3, <1>4, <1>6, <1>8, <1>15 DEF FailOther, CancelSleeping, breakerVars, lockVars
<1>16. ASSUME NEW c \in Callers, RetryLater(c) \/ RetryNow(c) PROVE Breaker /\ Locks /\ Calls
  <2>1. Calls
    <3>1. CASE RetryLater(c)
      BY <1>2c, <3>1 DEF RetryLater
    <3>2. CASE RetryNow(c)
      BY <1>1, <1>2c, <3>2 DEF RetryNow
    <3> QED
      BY <1>16, <3>1, <3>2
  <2>2. Breaker /\ Locks
    BY Zenon, <1>3, <1>4, <1>16 DEF RetryLater, RetryNow, breakerVars, lockVars
  <2> QED
    BY <2>1, <2>2
<1>17. CASE Reset \/ RebindLock
  <2>1. Locks
    BY <1>1, <1>2b, <1>17 DEF Reset, RebindLock, LockIds
  <2>2. Breaker
    <3>1. 0 \in 0..MaxFailures
      BY <1>1
    <3> QED
      BY Zenon, <1>2, <1>2a, <1>17, <3>1 DEF Reset, RebindLock, breakerVars
  <2>3. Calls
    BY Zenon, <1>5, <1>17 DEF Reset, RebindLock, callerVars
  <2> QED
    BY <2>1, <2>2, <2>3
<1>18. CASE Cool
  <2>1. Breaker
    BY Zenon, <1>2, <1>18 DEF Cool
  <2> QED
    BY Zenon, <1>4, <1>5, <1>18, <2>1 DEF Cool, lockVars, callerVars
<1>19. CASE UNCHANGED vars
  BY Zenon, <1>3, <1>4, <1>5, <1>19 DEF vars, breakerVars, lockVars, callerVars
<1> HIDE DEF Breaker, Locks, Calls
<1> QED
  BY Zenon, <1>9, <1>10, <1>11, <1>12, <1>13, <1>14, <1>15, <1>16, <1>17, <1>18, <1>19 DEF Next

\* The breaker's state, its locks with their queues and the callers keep their
\* types: in particular no call is attempted more often than max_attempts.
THEOREM BreakerTypes == Spec => []TypeOK
<1>1. Init => BreakerTypeInv
  <2> SUFFICES ASSUME Init PROVE BreakerTypeInv
    OBVIOUS
  <2>1. <<>> \in Seq(Callers)
    BY EmptySeq
  <2>2. lock \in LockIds /\ consecutive_failures \in 0..MaxFailures /\ attempts \in [Callers -> 0..MaxAttempts]
    BY BreakerAssumption DEF Init, LockIds
  <2>3. \A c \in Callers : pc[c] # "sleeping"
    BY DEF Init
  <2>4. /\ state \in {"closed", "open", "half_open"}
        /\ locked \in [LockIds -> BOOLEAN]
        /\ waiters \in [LockIds -> Seq(Callers)]
        /\ woken \subseteq Callers
        /\ pc \in [Callers -> {"idle", "waiting", "calling", "sleeping"}]
    BY <2>1 DEF Init
  <2>5. cooled \in BOOLEAN
    BY Zenon DEF Init
  <2> QED
    BY <2>2, <2>3, <2>4, <2>5 DEF BreakerTypeInv, TypeOK
<1>2. BreakerTypeInv /\ [Next]_vars => BreakerTypeInv'
  BY BreakerTypeStep
<1>3. BreakerTypeInv => TypeOK
  BY DEF BreakerTypeInv
<1> QED
  BY <1>1, <1>2, <1>3, PTL DEF Spec
=============================================================================
