------------------------------ MODULE BoltzSwap ------------------------------
(***************************************************************************)
(* One reverse swap (Lightning to on-chain) and everything that drives it: *)
(* the process_boltz_swap messages in Celery, the recovery passes, and the *)
(* operator's cancel and claim requests.  They share the swap's row only.  *)
(*                                                                         *)
(* A step is what a task does between two awaits.  A task works on the     *)
(* copy of the row it loaded (sessions do not expire on commit), and a     *)
(* commit writes the attributes whose value differs from the loaded one:   *)
(* base is the loaded status, status the one in memory.  PostgreSQL runs   *)
(* READ COMMITTED, so the only thing that holds a task back is a row lock. *)
(***************************************************************************)
EXTENDS Naturals

CONSTANTS
    Processes,   \* process_boltz_swap messages that may exist at a time
    Recoverers,  \* recovery passes that may run at a time (beat, app startup)
    Operators,   \* operator requests that may run at a time
    Nobody,
    MaxRetries,  \* max_retries of process_boltz_swap
    MaxCrashes,  \* bound: tasks whose process dies
    MaxRequests, \* bound: operator requests
    Features     \* the requests operators make: see FeatureKinds

FeatureKinds == {"cancel", "coop", "unilateral"}

Tasks == Processes \cup Recoverers \cup Operators

ASSUME SwapAssumption ==
    /\ Processes \cap (Recoverers \cup Operators) = {}
    /\ Recoverers \cap Operators = {}
    /\ Nobody \notin Tasks
    /\ MaxRetries \in Nat
    /\ MaxCrashes \in Nat
    /\ MaxRequests \in Nat
    /\ Features \subseteq FeatureKinds

VARIABLES
    row,      \* the boltz_swaps row: [status, claim_txid]; a txid is there or not
    lock,     \* the task that holds the row FOR UPDATE
    task,     \* task[w]: where w is, and its copy of the row
    pay,      \* LND's payment of the hold invoice
    payer,    \* the task that made it
    boltz,    \* Boltz's status of the swap
    lockup,   \* the lockup output on chain
    height,   \* "before" or "after" timeout_block_height
    buried,   \* the claim has three confirmations
    crashes,  \* so far
    requests  \* so far

vars == <<row, lock, task, pay, payer, boltz, lockup, height, buried, crashes, requests>>

\* SwapStatus
Terminal == {"completed", "failed", "cancelled", "refunded"}
Unpaid == {"created", "paying_invoice"}
Statuses == Unpaid \cup {"invoice_paid", "claiming", "claimed"} \cup Terminal

Idle == [pc |-> "idle", next |-> "idle", base |-> "created", status |-> "created",
         claim_txid |-> FALSE, stream |-> "none", tries |-> 0, unilateral |-> FALSE]

\* create_reverse_swap has committed the row; the message that follows it may
\* have been lost with the process that was to send it.
Init ==
    /\ row = [status |-> "created", claim_txid |-> FALSE]
    /\ lock = Nobody
    /\ \E sent \in {{}} \cup {{w} : w \in Processes} :
          task = [w \in Tasks |-> IF w \in sent THEN [Idle EXCEPT !.pc = "queued"] ELSE Idle]
    /\ pay = "none"
    /\ payer = Nobody
    /\ boltz = "swap.created"
    /\ lockup = "none"
    /\ height = "before"
    /\ buried = FALSE
    /\ crashes = 0
    /\ requests = 0

World == <<pay, payer, boltz, lockup, height, buried>>
Counts == <<crashes, requests>>

-----------------------------------------------------------------------------
(* Steps every task is made of.                                            *)

Goto(w, pc) == task' = [task EXCEPT ![w].pc = pc]

\* swap.status = status; await db.commit(); then go on at next.
Save(w, status, next) ==
    task' = [task EXCEPT ![w].pc = "commit", ![w].status = status, ![w].next = next]

\* The row as SELECT returns it, in a new session.
Loaded(w, pc) ==
    [task[w] EXCEPT !.pc = pc, !.base = row.status, !.status = row.status,
                    !.claim_txid = row.claim_txid]

\* A commit waits for the row lock, writes what changed and releases the lock.
Commit(w) ==
    /\ task[w].pc = "commit"
    /\ lock \in {Nobody, w}
    /\ row' = [status |-> IF task[w].status # task[w].base THEN task[w].status ELSE row.status,
               claim_txid |-> row.claim_txid \/ task[w].claim_txid]
    /\ lock' = Nobody
    /\ task' = [task EXCEPT ![w] = IF task[w].next = "idle" THEN Idle
                                   ELSE [task[w] EXCEPT !.pc = task[w].next, !.base = task[w].status,
                                                        !.next = "idle"]]
    /\ UNCHANGED <<World, Counts>>

\* statement_timeout: a claim may hold the lock for longer than a statement
\* may wait.  The exception ends the task, without a retry.
LockTimeout(w) ==
    /\ task[w].pc \in {"commit", "lock"}
    /\ lock \notin {Nobody, w}
    /\ task' = [task EXCEPT ![w] = Idle]
    /\ UNCHANGED <<row, lock, World, Counts>>

\* The process of a task dies, and its transaction is rolled back.  A message
\* that was not acknowledged (task_acks_late) is delivered again if the whole
\* worker died; if only the child process did, it is lost, for the settings
\* leave task_reject_on_worker_lost off.
Crash(w) ==
    /\ crashes < MaxCrashes
    /\ task[w].pc \notin {"idle", "queued"}
    /\ crashes' = crashes + 1
    /\ lock' = IF lock = w THEN Nobody ELSE lock
    /\ \/ task' = [task EXCEPT ![w] = Idle]
       \/ /\ w \in Processes
          /\ task' = [task EXCEPT ![w] = [Idle EXCEPT !.pc = "queued", !.tries = task[w].tries]]
    /\ UNCHANGED <<row, World, requests>>

-----------------------------------------------------------------------------
(* _run_process_swap: pay the hold invoice, then advance the swap.         *)

StartProcess(w) ==
    /\ w \in Processes
    /\ task[w].pc = "queued"
    /\ task' = [task EXCEPT ![w] =
          IF row.status \in Terminal THEN Idle
          ELSE IF row.status = "created"
          THEN [Loaded(w, "commit") EXCEPT !.status = "paying_invoice", !.next = "send"]
          ELSE Loaded(w, IF row.status = "paying_invoice" THEN "lookup" ELSE "poll")]
    /\ UNCHANGED <<row, lock, World, Counts>>

\* A swap found in PAYING_INVOICE: pay again only if LND knows no live
\* payment.  The lookup fails, or searches the 100 most recent payments.
LookupPayment(w) ==
    /\ task[w].pc = "lookup"
    /\ \/ Goto(w, "poll")                                 \* IN_FLIGHT, or an error
       \/ Save(w, "paying_invoice", "send")               \* FAILED, or not listed
       \/ pay = "succeeded" /\ Save(w, "invoice_paid", "poll")
    /\ UNCHANGED <<row, lock, World, Counts>>

\* send_payment_v2.  LND refuses a second payment of a hash while one is
\* live or has succeeded; that, and every failure to reach LND, is an error
\* other than "Payment failed".
SendPayment(w) ==
    /\ task[w].pc = "send"
    /\ \/ /\ pay \in {"none", "failed"}
          /\ pay' = "inflight"
          /\ payer' = w
          /\ task' = [task EXCEPT ![w].pc = "streaming", ![w].stream = "open"]
       \/ Save(w, task[w].status, "poll") /\ UNCHANGED <<pay, payer>>
    /\ UNCHANGED <<row, lock, boltz, lockup, height, buried, Counts>>

\* Mutant: an error that says nothing about the HTLC fails the swap.
StreamEndsFailed(w) ==
    /\ task[w].pc = "streaming"
    /\ LET end(status, next) ==
             task' = [task EXCEPT ![w].pc = "commit", ![w].status = status,
                                  ![w].next = next, ![w].stream = "none"]
       IN \/ task[w].stream = "succeeded" /\ end("invoice_paid", "poll")
          \/ end("failed", "return")
    /\ UNCHANGED <<row, lock, World, Counts>>

\* The stream ends with LND's verdict, or is cut off before it.
StreamEnds(w) ==
    /\ task[w].pc = "streaming"
    /\ LET end(status, next) ==
             task' = [task EXCEPT ![w].pc = "commit", ![w].status = status,
                                  ![w].next = next, ![w].stream = "none"]
       IN \/ task[w].stream = "succeeded" /\ end("invoice_paid", "poll")
          \/ task[w].stream = "failed" /\ end("failed", "return")
          \/ end(task[w].status, "poll")
    /\ UNCHANGED <<row, lock, World, Counts>>

\* process_boltz_swap after a pass: stop at a terminal status, else retry.
Return(w) ==
    /\ task[w].pc = "return"
    /\ task' = [task EXCEPT ![w] =
          IF w \notin Processes \/ task[w].status \in Terminal THEN Idle
          ELSE IF task[w].tries < MaxRetries
          THEN [Idle EXCEPT !.pc = "queued", !.tries = task[w].tries + 1]
          ELSE [Idle EXCEPT !.pc = "exhausted", !.tries = task[w].tries]]
    /\ UNCHANGED <<row, lock, World, Counts>>

\* _mark_swap_failed: it does not ask LND what became of the payment.
MarkSwapFailed(w) ==
    /\ task[w].pc = "exhausted"
    /\ task' = [task EXCEPT ![w] =
          IF row.status \in {"completed", "failed"} THEN Idle
          ELSE [Loaded(w, "commit") EXCEPT !.status = "failed", !.next = "idle"]]
    /\ UNCHANGED <<row, lock, World, Counts>>

-----------------------------------------------------------------------------
(* advance_swap: ask Boltz, and act on its answer.                         *)

\* transaction.mempool stands for transaction.confirmed too, and swap.expired
\* for invoice.expired and transaction.failed: the code treats them alike.
PollAnswered(w) ==
    LET status == task[w].status
    IN /\ task[w].pc = "poll"
       /\ \/ boltz = "swap.expired" /\ Save(w, "failed", "return")
          \/ boltz = "transaction.refunded" /\ Save(w, "refunded", "return")
          \/ /\ boltz = "invoice.settled"
             /\ task' = [task EXCEPT ![w].status = "completed", ![w].next = "return",
                                     ![w].pc = IF task[w].claim_txid THEN "commit" ELSE "backfill"]
          \/ /\ boltz \in {"swap.created", "transaction.mempool"}
             /\ status = "claimed" /\ task[w].claim_txid
             /\ Goto(w, "confirmations")
          \/ /\ boltz = "transaction.mempool"
             /\ ~(status = "claimed" /\ task[w].claim_txid)
             /\ task' = [task EXCEPT ![w].pc = "lockup", ![w].status =
                            IF status \in Unpaid \cup {"invoice_paid"} THEN "claiming" ELSE status]
          \/ /\ boltz = "swap.created"
             /\ ~(status = "claimed" /\ task[w].claim_txid)
             /\ Save(w, status, "return")
       /\ UNCHANGED <<row, lock, World, Counts>>

PollFailed(w) ==
    /\ task[w].pc = "poll"
    /\ Goto(w, "return")
    /\ UNCHANGED <<row, lock, World, Counts>>

\* _backfill_claim_txid_from_wallet: an output at the destination, if any.
Backfill(w) ==
    /\ task[w].pc = "backfill"
    /\ \E found \in BOOLEAN :
          /\ found => lockup = "claimed"
          /\ task' = [task EXCEPT ![w].pc = "commit", ![w].claim_txid = found]
    /\ UNCHANGED <<row, lock, World, Counts>>

\* The claim counts as complete at three confirmations, whatever Boltz says.
Confirmations(w) ==
    /\ task[w].pc = "confirmations"
    /\ \/ buried /\ Save(w, "completed", "return")
       \/ Save(w, task[w].status, "return")
    /\ UNCHANGED <<row, lock, World, Counts>>

\* Verify and fetch the lockup transaction.  When it does not pay the agreed
\* address or cannot be fetched, a task of the worker saves what it has.
FetchLockup(w) ==
    /\ task[w].pc = "lockup"
    /\ \/ /\ w \in Operators \/ (task[w].status = "claiming" /\ ~task[w].claim_txid)
          /\ Goto(w, "lock")
       \/ IF w \in Operators THEN task' = [task EXCEPT ![w] = Idle]
          ELSE Save(w, task[w].status, "return")
    /\ UNCHANGED <<row, lock, World, Counts>>

\* Mutant: the row is read without FOR UPDATE.
LockRowUnlocked(w) ==
    /\ task[w].pc = "lock"
    /\ \/ /\ ~row.claim_txid
          /\ Goto(w, "claim")
          /\ UNCHANGED lock
       \/ /\ row.claim_txid
          /\ task' = [task EXCEPT ![w] = Idle]
          /\ UNCHANGED lock
    /\ UNCHANGED <<row, World, Counts>>

\* SELECT claim_txid ... FOR UPDATE.  When another task has claimed already,
\* the operator's request commits CLAIMED; advance_swap returns without a
\* commit, and only a recovery pass with another swap to advance commits it.
LockRow(w) ==
    /\ task[w].pc = "lock"
    /\ lock = Nobody
    /\ \/ /\ ~row.claim_txid
          /\ Goto(w, "claim")
          /\ lock' = w
       \/ /\ row.claim_txid
          /\ w \notin Processes
          /\ task' = [task EXCEPT ![w].pc = "commit", ![w].status = "claimed",
                                  ![w].claim_txid = TRUE, ![w].next = "idle"]
          /\ lock' = w
       \/ /\ row.claim_txid
          /\ w \notin Operators
          /\ task' = [task EXCEPT ![w].pc = "return", ![w].status = "claimed",
                                  ![w].claim_txid = TRUE]
          /\ UNCHANGED lock
    /\ UNCHANGED <<row, World, Counts>>

\* Mutant: the claim is recorded whatever the script's exit code.
RunClaimUnchecked(w) ==
    /\ task[w].pc = "claim"
    /\ task' = [task EXCEPT ![w].pc = "commit", ![w].status = "claimed",
                            ![w].claim_txid = TRUE, ![w].next = "return"]
    /\ lockup' = IF lockup = "locked" THEN "claimed" ELSE lockup
    /\ UNCHANGED <<row, lock, pay, payer, boltz, height, buried, Counts>>

\* boltz_claim.js broadcasts, or does not.  Boltz co-signs until the timeout
\* height; the script path needs no signature of Boltz.
RunClaim(w) ==
    /\ task[w].pc = "claim"
    /\ \/ /\ lockup = "locked"
          /\ height = "before" \/ task[w].unilateral
          /\ lockup' = "claimed"
          /\ Goto(w, "broadcast")
       \/ Save(w, task[w].status, "return") /\ UNCHANGED lockup
    /\ UNCHANGED <<row, lock, pay, payer, boltz, height, buried, Counts>>

\* The script may still fail after its broadcast: it is timed out, exits with
\* an error, or its output does not pass the cross-check.
ClaimReturns(w) ==
    /\ task[w].pc = "broadcast"
    /\ \/ task' = [task EXCEPT ![w].pc = "commit", ![w].status = "claimed",
                               ![w].claim_txid = TRUE, ![w].next = "return"]
       \/ Save(w, task[w].status, "return")
    /\ UNCHANGED <<row, lock, World, Counts>>

-----------------------------------------------------------------------------
(* recover_pending_swaps, and the operator's requests.                     *)

\* Mutant: only swaps that have been paid are recovered.
RecoverPaidOnly(w) ==
    /\ w \in Recoverers
    /\ task[w].pc = "idle"
    /\ row.status \notin Unpaid \cup Terminal
    /\ task' = [task EXCEPT ![w] = Loaded(w, "poll")]
    /\ UNCHANGED <<row, lock, World, Counts>>

\* A swap that may not have been paid gets a new process_boltz_swap message,
\* beside any that are still on their way; the others are advanced here.
Recover(w) ==
    /\ w \in Recoverers
    /\ task[w].pc = "idle"
    /\ \/ /\ row.status \in Unpaid
          /\ \E q \in Processes :
                /\ task[q].pc = "idle"
                /\ task' = [task EXCEPT ![q] = [Idle EXCEPT !.pc = "queued"]]
       \/ /\ row.status \notin Unpaid \cup Terminal
          /\ task' = [task EXCEPT ![w] = Loaded(w, "poll")]
    /\ UNCHANGED <<row, lock, World, Counts>>

Asked(w, what) ==
    /\ what \in Features
    /\ w \in Operators
    /\ task[w].pc = "idle"
    /\ requests < MaxRequests
    /\ requests' = requests + 1

CancelSwap(w) ==
    /\ Asked(w, "cancel")
    /\ row.status = "created"
    /\ task' = [task EXCEPT ![w] = [Loaded(w, "commit") EXCEPT !.status = "cancelled"]]
    /\ UNCHANGED <<row, lock, World, crashes>>

RetryCooperativeClaim(w) ==
    /\ Asked(w, "coop")
    /\ row.status = "claiming" /\ ~row.claim_txid
    /\ task' = [task EXCEPT ![w] = Loaded(w, "lockup")]
    /\ UNCHANGED <<row, lock, World, crashes>>

\* Refused until the wallet's chain tip has reached the timeout height.
RetryUnilateralClaim(w) ==
    /\ Asked(w, "unilateral")
    /\ row.status \in {"claiming", "invoice_paid"} /\ ~row.claim_txid
    /\ height = "after"
    /\ task' = [task EXCEPT ![w] = [Loaded(w, "lockup") EXCEPT !.unilateral = TRUE]]
    /\ UNCHANGED <<row, lock, World, crashes>>

-----------------------------------------------------------------------------
(* The world: Boltz, LND and the chain, as the code meets them.            *)

\* Boltz holds the HTLC and locks up coins for it, or gives the swap up.
BoltzLocksUp ==
    /\ boltz = "swap.created" /\ pay = "inflight"
    /\ boltz' = "transaction.mempool"
    /\ lockup' = "locked"
    /\ UNCHANGED <<row, lock, task, pay, payer, height, buried, Counts>>

BoltzGivesUp ==
    /\ boltz = "swap.created"
    /\ boltz' = "swap.expired"
    /\ UNCHANGED <<row, lock, task, pay, payer, lockup, height, buried, Counts>>

\* The claim reveals the preimage, and with it Boltz settles the HTLC.
BoltzSettles ==
    /\ boltz = "transaction.mempool" /\ lockup = "claimed"
    /\ boltz' = "invoice.settled"
    /\ UNCHANGED <<row, lock, task, pay, payer, lockup, height, buried, Counts>>

TimeoutPasses ==
    /\ lockup # "none" /\ height = "before"
    /\ height' = "after"
    /\ UNCHANGED <<row, lock, task, pay, payer, boltz, lockup, buried, Counts>>

BoltzRefunds ==
    /\ lockup = "locked" /\ height = "after"
    /\ lockup' = "refunded"
    /\ boltz' = "transaction.refunded"
    /\ UNCHANGED <<row, lock, task, pay, payer, height, buried, Counts>>

ClaimIsBuried ==
    /\ lockup = "claimed" /\ ~buried
    /\ buried' = TRUE
    /\ UNCHANGED <<row, lock, task, pay, payer, boltz, lockup, height, Counts>>

\* LND's payment ends, and with it the streams that follow it.
PaymentEnds(verdict) ==
    /\ pay = "inflight"
    /\ pay' = verdict
    /\ task' = [w \in Tasks |-> IF task[w].stream = "open"
                                THEN [task[w] EXCEPT !.stream = verdict] ELSE task[w]]
    /\ UNCHANGED <<row, lock, payer, boltz, lockup, height, buried, Counts>>

\* No route before Boltz has the HTLC, or Boltz cancels it.
PaymentFails ==
    /\ boltz \in {"swap.created", "swap.expired", "transaction.refunded"}
    /\ PaymentEnds("failed")

PaymentSucceeds ==
    /\ boltz = "invoice.settled"
    /\ PaymentEnds("succeeded")

-----------------------------------------------------------------------------
\* What a running task does by itself, whether or not its calls succeed.
Step(w) ==
    \/ Commit(w) \/ LockTimeout(w)
    \/ StartProcess(w) \/ LookupPayment(w) \/ SendPayment(w) \/ StreamEnds(w)
    \/ Return(w) \/ MarkSwapFailed(w)
    \/ PollAnswered(w) \/ PollFailed(w) \/ Backfill(w) \/ Confirmations(w)
    \/ FetchLockup(w) \/ LockRow(w) \/ RunClaim(w) \/ ClaimReturns(w)

Request(w) == CancelSwap(w) \/ RetryCooperativeClaim(w) \/ RetryUnilateralClaim(w)

Environment ==
    \/ BoltzLocksUp \/ BoltzGivesUp \/ BoltzSettles \/ TimeoutPasses \/ BoltzRefunds
    \/ ClaimIsBuried \/ PaymentFails \/ PaymentSucceeds

Next ==
    \/ \E w \in Tasks : Step(w) \/ Recover(w) \/ Request(w) \/ Crash(w)
    \/ Environment

Spec == Init /\ [][Next]_vars

\* Celery runs its messages and the beat schedule its recovery passes; Boltz
\* is reachable again and again; a swap does not stay open at Boltz for ever.
Fairness ==
    /\ \A w \in Tasks : WF_vars(Step(w)) /\ SF_vars(PollAnswered(w))
    /\ \A w \in Recoverers : WF_vars(Recover(w))
    /\ WF_vars(BoltzLocksUp \/ BoltzGivesUp)
    /\ WF_vars(BoltzSettles)
    /\ WF_vars(TimeoutPasses)
    /\ WF_vars(BoltzRefunds)

FairSpec == Spec /\ Fairness

-----------------------------------------------------------------------------
(* Properties.                                                             *)

TaskStates ==
    [pc : {"idle", "queued", "lookup", "send", "streaming", "poll", "backfill", "confirmations",
           "lockup", "lock", "claim", "broadcast", "commit", "return", "exhausted"},
     next : {"idle", "send", "poll", "return"},
     base : Statuses, status : Statuses, claim_txid : BOOLEAN,
     stream : {"none", "open", "succeeded", "failed"}, tries : 0..MaxRetries,
     unilateral : BOOLEAN]

\* Every variable has its type; in particular no message is retried more than
\* max_retries times.
TypeOK ==
    /\ row \in [status : Statuses, claim_txid : BOOLEAN]
    /\ lock \in Tasks \cup {Nobody}
    /\ task \in [Tasks -> TaskStates]
    /\ pay \in {"none", "inflight", "failed", "succeeded"}
    /\ payer \in Tasks \cup {Nobody}
    /\ boltz \in {"swap.created", "transaction.mempool", "swap.expired",
                  "transaction.refunded", "invoice.settled"}
    /\ lockup \in {"none", "locked", "claimed", "refunded"}
    /\ height \in {"before", "after"}
    /\ buried \in BOOLEAN
    /\ crashes \in 0..MaxCrashes
    /\ requests \in 0..MaxRequests

Claiming(w) == task[w].pc \in {"claim", "broadcast"}

\* The FOR UPDATE guard of advance_swap and the two retries: at most one claim
\* script runs for a swap, and none once a claim is recorded.
OneClaimScript ==
    /\ \A v, w \in Tasks : Claiming(v) /\ Claiming(w) => v = w
    /\ (\E w \in Tasks : Claiming(w)) => ~row.claim_txid

\* The row never runs ahead of the chain: a recorded claim was broadcast; a
\* CLAIMED swap has a recorded claim; a COMPLETED one was claimed even if the
\* txid was lost with the task that broadcast it; and a REFUNDED one was
\* refunded and cost nothing, as its error message promises.
RowFollowsChain ==
    /\ row.claim_txid => lockup = "claimed"
    /\ row.status = "claimed" => row.claim_txid
    /\ row.status = "completed" => lockup = "claimed"
    /\ row.status = "refunded" => lockup = "refunded" /\ pay # "succeeded"

\* A task that is about to fail the swap over a payment it made itself and that
\* may still go through has one of two reasons: Boltz ended the swap, or the
\* message has used all its retries and _mark_swap_failed gives the swap up.
\* An error that is not LND's verdict is never a reason, on any earlier try.
OwnPaymentNotAbandoned ==
    \A w \in Tasks :
        task[w].pc = "commit" /\ task[w].status = "failed" /\ pay = "inflight" /\ payer = w
            => \/ boltz = "swap.expired"
               \/ task[w].next = "idle" /\ task[w].tries = MaxRetries

\* Every swap ends, whichever tasks are lost on the way.
EverySwapEnds == <>[](row.status \in Terminal)

-----------------------------------------------------------------------------
(* The swap as the flows that wait for it see it.                          *)

Offered ==
    [status |-> IF row.status \in {"created"} \cup Terminal THEN row.status ELSE "busy",
     claim_txid |-> row.claim_txid,
     coin |-> IF lockup = "locked" THEN "none" ELSE lockup]

Promise == INSTANCE SwapPromise WITH Swaps <- {"this"}, swaps <- [i \in {"this"} |-> Offered]

\* Whatever advance_swap, the recovery passes and the requests do, the row's
\* readers see a swap that keeps the promise the other flows are built on.
KeepsPromise == Promise!SwapsSpec
=============================================================================
