--------------------------- MODULE CircuitBreaker ---------------------------
(***************************************************************************)
(* The per-upstream circuit breaker of app/core/resilience.py, together    *)
(* with the callers that wrap requests in it: with_retry (GET requests of  *)
(* lnd_service, boltz_service, the chain clients) and the single-shot      *)
(* mutating branch of lnd_service._request.                                *)
(*                                                                         *)
(* One event loop runs the callers, so every step between two awaits is    *)
(* atomic.  reset() and a change of event loop replace the probe lock; the *)
(* locks ever used are numbered, and a waiter stays on the lock it found.  *)
(***************************************************************************)
EXTENDS Integers, Sequences, FiniteSets, SequencesExt

CONSTANTS
    RetryCallers,      \* calls made through with_retry
    MutatingCallers,   \* calls made by the mutating branch of _request
    FailureThreshold,  \* failure_threshold
    MaxAttempts,       \* 1 + len(backoff_s)
    MaxFailures,       \* bound: consecutive failures the model counts to
    MaxLocks           \* bound: how often the lock may be replaced

Callers == RetryCallers \cup MutatingCallers
LockIds == 0..MaxLocks

ASSUME BreakerAssumption ==
    /\ FailureThreshold \in Nat \ {0}
    /\ MaxAttempts \in Nat \ {0}
    /\ MaxFailures \in Nat /\ MaxFailures > FailureThreshold
    /\ MaxLocks \in Nat
    /\ RetryCallers \cap MutatingCallers = {}

VARIABLES
    state,                \* "closed" | "open" | "half_open"
    consecutive_failures,
    cooled,               \* open_duration_s has elapsed since opened_at
    lock,                 \* the number of the lock self._lock refers to
    locked,               \* locked[l]: asyncio.Lock._locked of lock l
    waiters,              \* waiters[l]: asyncio.Lock._waiters of lock l
    woken,                \* callers whose waiter future has its result
    pc,                   \* where each caller is
    attempts              \* with_retry's attempts

breakerVars == <<state, consecutive_failures, cooled>>
lockVars == <<lock, locked, waiters, woken>>
callerVars == <<pc, attempts>>
vars == <<breakerVars, lockVars, callerVars>>

\* A caller between before_call() and the record of its outcome.
Active(c) == pc[c] \in {"calling", "sleeping"}

Init ==
    /\ state = "closed"
    /\ consecutive_failures = 0
    /\ cooled = FALSE
    /\ lock = 0
    /\ locked = [l \in LockIds |-> FALSE]
    /\ waiters = [l \in LockIds |-> <<>>]
    /\ woken = {}
    /\ pc = [c \in Callers |-> "idle"]
    /\ attempts = [c \in Callers |-> 0]

-----------------------------------------------------------------------------
\* The state after _maybe_half_open().
MaybeHalfOpen == IF state = "open" /\ cooled THEN "half_open" ELSE state

\* asyncio.Lock._wake_up_first on lock l, given its waiters after the step.
WakeUpFirst(queue) == IF queue = <<>> THEN {} ELSE {Head(queue)}

\* asyncio.Lock.release on the breaker's current lock, when it is locked.
ReleaseIfLocked ==
    /\ locked' = [locked EXCEPT ![lock] = FALSE]
    /\ woken' = woken \cup (IF locked[lock] THEN WakeUpFirst(waiters[lock]) ELSE {})
    /\ UNCHANGED <<lock, waiters>>

\* Mutant of RecordSuccess: the failure count is left standing.
RecordSuccessKeepsCount ==
    /\ IF state = "half_open" THEN ReleaseIfLocked ELSE UNCHANGED lockVars
    /\ state' = "closed"
    /\ cooled' = FALSE
    /\ UNCHANGED consecutive_failures

RecordSuccess ==
    /\ IF state = "half_open" THEN ReleaseIfLocked ELSE UNCHANGED lockVars
    /\ state' = "closed"
    /\ consecutive_failures' = 0
    /\ cooled' = FALSE

RecordFailure ==
    /\ consecutive_failures < MaxFailures
    /\ consecutive_failures' = consecutive_failures + 1
    /\ IF state = "half_open"
       THEN /\ state' = "open"
            /\ cooled' = FALSE
            /\ ReleaseIfLocked
       ELSE /\ IF state = "closed" /\ consecutive_failures' >= FailureThreshold
               THEN state' = "open" /\ cooled' = FALSE
               ELSE UNCHANGED <<state, cooled>>
            /\ UNCHANGED lockVars

\* The caller is past before_call() and awaits its first attempt.
Enter(c) ==
    /\ pc' = [pc EXCEPT ![c] = "calling"]
    /\ attempts' = [attempts EXCEPT ![c] = 1]

Leave(c) ==
    /\ pc' = [pc EXCEPT ![c] = "idle"]
    /\ attempts' = [attempts EXCEPT ![c] = 0]

-----------------------------------------------------------------------------
\* before_call() on a closed breaker.  An open breaker raises
\* BreakerOpenError and leaves everything as it was.
CallClosed(c) ==
    /\ pc[c] = "idle"
    /\ state = "closed"
    /\ Enter(c)
    /\ UNCHANGED <<breakerVars, lockVars>>

\* before_call() on a half-open breaker whose lock is free.
CallProbe(c) ==
    /\ pc[c] = "idle"
    /\ MaybeHalfOpen = "half_open"
    /\ ~locked[lock] /\ waiters[lock] = <<>>
    /\ state' = "half_open"
    /\ locked' = [locked EXCEPT ![lock] = TRUE]
    /\ Enter(c)
    /\ UNCHANGED <<consecutive_failures, cooled, lock, waiters, woken>>

\* before_call() on a half-open breaker whose lock is taken or has waiters.
CallWait(c) ==
    /\ pc[c] = "idle"
    /\ MaybeHalfOpen = "half_open"
    /\ locked[lock] \/ waiters[lock] # <<>>
    /\ state' = "half_open"
    /\ waiters' = [waiters EXCEPT ![lock] = Append(@, c)]
    /\ pc' = [pc EXCEPT ![c] = "waiting"]
    /\ UNCHANGED <<consecutive_failures, cooled, lock, locked, woken, attempts>>

\* A woken waiter resumes inside acquire() and goes on to its call.
Acquired(c) ==
    /\ pc[c] = "waiting" /\ c \in woken
    /\ \E l \in LockIds : \E i \in DOMAIN waiters[l] :
          /\ waiters[l][i] = c
          /\ waiters' = [waiters EXCEPT ![l] = RemoveAt(@, i)]
          /\ locked' = [locked EXCEPT ![l] = TRUE]
    /\ woken' = woken \ {c}
    /\ Enter(c)
    /\ UNCHANGED <<breakerVars, lock>>

\* A waiter's task is cancelled inside acquire().
CancelWaiting(c) ==
    /\ pc[c] = "waiting"
    /\ \E l \in LockIds : \E i \in DOMAIN waiters[l] :
          /\ waiters[l][i] = c
          /\ waiters' = [waiters EXCEPT ![l] = RemoveAt(@, i)]
          /\ woken' = (woken \ {c}) \cup
                (IF locked[l] THEN {} ELSE WakeUpFirst(waiters'[l]))
    /\ Leave(c)
    /\ UNCHANGED <<breakerVars, lock, locked>>

\* The request answers.
Succeed(c) ==
    /\ pc[c] = "calling"
    /\ RecordSuccess
    /\ Leave(c)

\* Mutant of RetryLater: max_attempts is off by one.
RetryLaterOnceMore(c) ==
    /\ pc[c] = "calling"
    /\ c \in RetryCallers /\ attempts[c] <= MaxAttempts
    /\ pc' = [pc EXCEPT ![c] = "sleeping"]
    /\ UNCHANGED <<breakerVars, lockVars, attempts>>

\* A connection error or a 5xx with attempts left: with_retry sleeps.
RetryLater(c) ==
    /\ pc[c] = "calling"
    /\ c \in RetryCallers /\ attempts[c] < MaxAttempts
    /\ pc' = [pc EXCEPT ![c] = "sleeping"]
    /\ UNCHANGED <<breakerVars, lockVars, attempts>>

RetryNow(c) ==
    /\ pc[c] = "sleeping"
    /\ pc' = [pc EXCEPT ![c] = "calling"]
    /\ attempts' = [attempts EXCEPT ![c] = @ + 1]
    /\ UNCHANGED <<breakerVars, lockVars>>

\* A connection error or a 5xx that is not retried any more.
FailUnhealthy(c) ==
    /\ pc[c] = "calling"
    /\ c \in MutatingCallers \/ attempts[c] = MaxAttempts
    /\ RecordFailure
    /\ Leave(c)

\* Any other exception of the request, a 4xx or a cancellation: with_retry
\* records a failure, the mutating branch of _request records nothing.
FailOther(c) ==
    /\ pc[c] = "calling"
    /\ IF c \in RetryCallers
       THEN RecordFailure
       ELSE UNCHANGED <<breakerVars, lockVars>>
    /\ Leave(c)

\* The task is cancelled in with_retry's sleep, which no handler covers.
CancelSleeping(c) ==
    /\ pc[c] = "sleeping"
    /\ Leave(c)
    /\ UNCHANGED <<breakerVars, lockVars>>

\* reset(), called by the keepalive's active recovery.
Reset ==
    /\ lock < MaxLocks
    /\ lock' = lock + 1
    /\ state' = "closed"
    /\ consecutive_failures' = 0
    /\ cooled' = FALSE
    /\ UNCHANGED <<locked, waiters, woken, callerVars>>

\* A new event loop (a Celery task's): the old loop ended with its callers,
\* and the next half-open before_call() replaces the lock.
RebindLock ==
    /\ lock < MaxLocks
    /\ \A c \in Callers : pc[c] = "idle"
    /\ lock' = lock + 1
    /\ UNCHANGED <<breakerVars, locked, waiters, woken, callerVars>>

\* open_duration_s passes.
Cool ==
    /\ state = "open" /\ ~cooled
    /\ cooled' = TRUE
    /\ UNCHANGED <<state, consecutive_failures, lockVars, callerVars>>

Next ==
    \/ \E c \in Callers :
          \/ CallClosed(c) \/ CallProbe(c) \/ CallWait(c)
          \/ Acquired(c) \/ CancelWaiting(c)
          \/ Succeed(c) \/ RetryLater(c) \/ RetryNow(c)
          \/ FailUnhealthy(c) \/ FailOther(c) \/ CancelSleeping(c)
    \/ Reset \/ RebindLock \/ Cool

Spec == Init /\ [][Next]_vars

-----------------------------------------------------------------------------
\* Every variable of the breaker, its locks and its callers has its type.
TypeOK ==
    /\ state \in {"closed", "open", "half_open"}
    /\ consecutive_failures \in 0..MaxFailures
    /\ cooled \in BOOLEAN
    /\ lock \in LockIds
    /\ locked \in [LockIds -> BOOLEAN]
    /\ waiters \in [LockIds -> Seq(Callers)]
    /\ woken \subseteq Callers
    /\ pc \in [Callers -> {"idle", "waiting", "calling", "sleeping"}]
    /\ attempts \in [Callers -> 0..MaxAttempts]

\* The breaker refuses or serialises calls exactly while failure_threshold
\* consecutive failures stand unanswered: whatever calls begun in one state
\* record in another, record_success, record_failure and reset never leave a
\* closed breaker with a spent budget, nor an open one without it.
ClosedIffBelowThreshold ==
    state = "closed" <=> consecutive_failures < FailureThreshold

\* before_call()'s comment: "The lock is released in record_success /
\* record_failure".  Whoever waits for the probe lock waits for a call that
\* is still under way; nobody waits on a lock no call is left to release.
WaitsForALiveCall ==
    waiters[lock] # <<>> /\ locked[lock] => \E c \in Callers : Active(c)
=============================================================================
