---------------------------- MODULE SpendRequests ----------------------------
(***************************************************************************)
(* The money-moving endpoints and the idempotency slots that make them     *)
(* retryable: POST /payments/pay, /payments/send-onchain, /channels/open,  *)
(* /cold-storage/initiate, /cold-storage/swaps/../bump-fee, /bolt12/pay.   *)
(*                                                                         *)
(* An attempt is one HTTP request.  The handlers run on one event loop, so *)
(* what they do between two awaits, synchronous Redis calls included, is   *)
(* one step.  The node (LND; the swap table for "swap") is external: it    *)
(* may act on a request whose caller has already given up.                 *)
(***************************************************************************)
EXTENDS Naturals, FiniteSets

CONSTANTS
    Attempts,   \* HTTP requests
    Keys,       \* (api_key_id, Idempotency-Key) pairs
    NoKey,      \* the header is absent
    Bodies,     \* request bodies; for "pay" a body is an invoice
    Requests,   \* the requests clients make: [key, kind, body]
    NoPayment,
    Faults      \* what may go wrong: see FaultKinds

Kinds == {"pay", "send", "open", "offer", "swap", "bump"}

\* unknown: a node call ends without a verdict (timeout, dropped, 5xx);
\* db: log_action raises; cancel: the handler's task is cancelled;
\* crash: the process dies and restarts; eval: a Redis EVAL errs (its two
\* seconds pass, scripting is off), whether or not Redis has run the script.
FaultKinds == {"unknown", "db", "cancel", "crash", "eval"}

\* The attempts' payments are named by the invoice they pay ("pay"), or
\* else by the attempt: every other request makes a new payment.
Payments == Bodies \cup Attempts

ASSUME SpendAssumption ==
    /\ Requests \subseteq [key : Keys \cup {NoKey}, kind : Kinds, body : Bodies]
    /\ \A r \in Requests : r.kind = "bump" => r.key = NoKey
    /\ Faults \subseteq FaultKinds
    /\ NoKey \notin Keys
    /\ NoPayment \notin Payments
    /\ Bodies \cap Attempts = {}

VARIABLES
    req,       \* req[a]: what attempt a asks for (chosen once)
    slot,      \* slot[k]: the Redis value under the idempotency key k
    pc,        \* where the handler of a is
    seen,      \* the pending payment a looks up, and what the node said
    node,      \* what became of a's call at the node
    result,    \* the node call's result as the handler sees it
    reserved,  \* a's spend and velocity members are in the window
    told       \* the payment a's client is told succeeded

vars == <<req, slot, pc, seen, node, result, reserved, told>>

Payment(a) == IF req[a].kind = "pay" THEN req[a].body ELSE a

\* _fingerprint(body): bodies of different endpoints differ.
Fingerprint(a) == <<req[a].kind, req[a].body>>

Keyed(a) == req[a].key # NoKey

\* What distinguishes the handlers from one another.
\*   looksUp:        a pending slot records the payment hash, and a retry
\*                   looks it up before it reserves the key
\*   unknowable:     the node call may end without a verdict
\*   refundsFirst:   a refused reservation is given back before the audit
\*                   entry is written (and not after it)
\*   refundsUnknown: so is one whose outcome is unknown
PayInvoice == [looksUp |-> TRUE, unknowable |-> TRUE, refundsFirst |-> FALSE, refundsUnknown |-> FALSE]
SendOnchain == [looksUp |-> FALSE, unknowable |-> TRUE, refundsFirst |-> FALSE, refundsUnknown |-> FALSE]
OpenChannel == [looksUp |-> FALSE, unknowable |-> TRUE, refundsFirst |-> FALSE, refundsUnknown |-> FALSE]
PayOffer == [looksUp |-> TRUE, unknowable |-> TRUE, refundsFirst |-> TRUE, refundsUnknown |-> FALSE]
InitiateSwap == [looksUp |-> FALSE, unknowable |-> FALSE, refundsFirst |-> TRUE, refundsUnknown |-> FALSE]
BumpFee == [looksUp |-> FALSE, unknowable |-> TRUE, refundsFirst |-> TRUE, refundsUnknown |-> TRUE]

Handler(a) ==
    [pay |-> PayInvoice, send |-> SendOnchain, open |-> OpenChannel,
     offer |-> PayOffer, swap |-> InitiateSwap, bump |-> BumpFee][req[a].kind]

\* The caller of the node may still owe its client an answer.
Running(a) == pc[a] \in {"lookup", "looked", "admitted", "sent", "logging"}

\* Attempt a holds the reservation of its key.
Holds(a) == Keyed(a) /\ pc[a] \in {"admitted", "sent", "logging"}

\* Money has left, or may leave, on behalf of a.
Live(a) == node[a] \in {"inflight", "succeeded"}

Vacant == [state |-> "none", fp |-> <<>>, payment |-> NoPayment]

Init ==
    /\ req \in [Attempts -> Requests]
    /\ slot = [k \in Keys |-> Vacant]
    /\ pc = [a \in Attempts |-> "new"]
    /\ seen = [a \in Attempts |-> <<NoPayment, "none">>]
    /\ node = [a \in Attempts |-> "idle"]
    /\ result = [a \in Attempts |-> "none"]
    /\ reserved = [a \in Attempts |-> FALSE]
    /\ told = [a \in Attempts |-> NoPayment]

-----------------------------------------------------------------------------
(* The idempotency slot operations, as the new value of slot.              *)

\* release_inflight and release_pending: drop the slot if it is in that state.
Release(a, state) ==
    IF Keyed(a) /\ slot[req[a].key].state = state
    THEN [slot EXCEPT ![req[a].key] = Vacant]
    ELSE slot

\* SET: write whatever the slot holds.
Overwrite(a, state, payment) ==
    IF Keyed(a)
    THEN [slot EXCEPT ![req[a].key] =
             [state |-> state, fp |-> Fingerprint(a), payment |-> payment]]
    ELSE slot

\* Mutant: the script does not look at what the slot holds.
CompareAndSetAlways(a, state, payment) == Overwrite(a, state, payment)

\* _STORE_LUA: write when the slot is absent or holds a reservation.
CompareAndSet(a, state, payment) ==
    IF Keyed(a) /\ slot[req[a].key].state # "completed"
    THEN Overwrite(a, state, payment)
    ELSE slot

\* What an erring EVAL may turn the slots into, given what the except clause
\* around it does.
IfEvalErrs(outcomes) == IF "eval" \in Faults THEN outcomes ELSE {}

\* store_result: when the EVAL errs the result is written unconditionally, if
\* Redis can be reached by then.
StoreResult(a, payment) ==
    {CompareAndSet(a, "completed", payment)}
    \cup IfEvalErrs({Overwrite(a, "completed", payment), slot})

\* Mutants: the pending record is given another state name, or is never
\* written and the slot is released like after any other error.
MarkPendingAsOpen(a) == {CompareAndSet(a, "open", NoPayment)}
MarkPendingReleases(a) == {Release(a, "inflight")}

\* mark_pending records the payment hash of a Lightning payment only.  When
\* its EVAL errs the error is logged.
MarkPending(a) ==
    {CompareAndSet(a, "pending",
        IF Handler(a).looksUp THEN Payment(a) ELSE NoPayment)}
    \cup IfEvalErrs({slot})

\* Mutant: a completed result is returned without comparing fingerprints.
ReplayAnyBody(a, slots) ==
    LET held == slots[req[a].key]
        free == ~Keyed(a) \/ held.state = "none"
    IN /\ slot' = IF Keyed(a) /\ free
                  THEN [slots EXCEPT ![req[a].key] =
                           [state |-> "inflight", fp |-> Fingerprint(a), payment |-> NoPayment]]
                  ELSE slots
       /\ pc' = [pc EXCEPT ![a] = IF free THEN "admitted" ELSE "done"]
       /\ told' = [told EXCEPT ![a] =
                      IF ~free /\ held.state = "completed" THEN held.payment ELSE NoPayment]

\* _RESERVE_LUA and what lookup_or_reserve makes of its answer, given the
\* slots as the step has left them so far: claim a vacant slot, return a
\* completed result, refuse (409) anything else.  An EVAL that errs refuses
\* the request (503), though it may have claimed the slot.
LookupOrReserve(a, slots) ==
    LET held == slots[req[a].key]
        claimed == [slots EXCEPT ![req[a].key] =
                       [state |-> "inflight", fp |-> Fingerprint(a), payment |-> NoPayment]]
    IN
    \/ /\ ~Keyed(a)
       /\ slot' = slots
       /\ pc' = [pc EXCEPT ![a] = "admitted"]
       /\ UNCHANGED told
    \/ /\ Keyed(a) /\ held.state = "none"
       /\ slot' = claimed
       /\ pc' = [pc EXCEPT ![a] = "admitted"]
       /\ UNCHANGED told
    \/ /\ Keyed(a) /\ held.state # "none"
       /\ slot' = slots
       /\ pc' = [pc EXCEPT ![a] = "done"]
       /\ told' = [told EXCEPT ![a] =
                      IF held.fp = Fingerprint(a) /\ held.state = "completed"
                      THEN held.payment ELSE NoPayment]
    \/ /\ Keyed(a)
       /\ slot' \in IfEvalErrs({slots} \cup IF held.state = "none" THEN {claimed} ELSE {})
       /\ pc' = [pc EXCEPT ![a] = "done"]
       /\ UNCHANGED told

-----------------------------------------------------------------------------
(* The handlers.                                                           *)

\* A request arrives.  /payments/pay and /bolt12/pay first look up the
\* payment a pending slot names; the peek does not compare fingerprints.
Arrive(a) ==
    /\ pc[a] = "new"
    /\ LET pending == /\ Keyed(a)
                      /\ Handler(a).looksUp
                      /\ slot[req[a].key].state = "pending"
                      /\ slot[req[a].key].payment # NoPayment
       IN \/ /\ pending
             /\ pc' = [pc EXCEPT ![a] = "lookup"]
             /\ seen' = [seen EXCEPT ![a] = <<slot[req[a].key].payment, "none">>]
             /\ UNCHANGED <<slot, told>>
          \/ /\ ~pending
             /\ LookupOrReserve(a, slot)
             /\ UNCHANGED seen
    /\ UNCHANGED <<req, node, result, reserved>>

\* What lookup_payment may report of payment p: the latest try of it.
\* "UNKNOWN" also stands for a failed call and for a payment the node does
\* not list among its latest hundred.
Statuses(p) ==
    LET tries(n) == \E b \in Attempts : Payment(b) = p /\ node[b] = n
    IN {"UNKNOWN"} \cup
       (IF tries("succeeded") THEN {"SUCCEEDED"}
        ELSE IF tries("inflight") THEN {"IN_FLIGHT"}
        ELSE IF tries("failed") THEN {"FAILED"} ELSE {})

\* The node answers the lookup; the handler has not resumed yet.
NodeLookup(a) ==
    /\ pc[a] = "lookup"
    /\ \E s \in Statuses(seen[a][1]) : seen' = [seen EXCEPT ![a][2] = s]
    /\ pc' = [pc EXCEPT ![a] = "looked"]
    /\ UNCHANGED <<req, slot, node, result, reserved, told>>

\* Mutant: a payment in flight is reported, and stored, as settled.
ReconcileInFlight(a) ==
    /\ pc[a] = "looked"
    /\ \/ /\ seen[a][2] \in {"SUCCEEDED", "IN_FLIGHT"}
          /\ slot' \in StoreResult(a, seen[a][1])
          /\ told' = [told EXCEPT ![a] = seen[a][1]]
          /\ pc' = [pc EXCEPT ![a] = "done"]
       \/ seen[a][2] = "FAILED" /\ LookupOrReserve(a, Release(a, "pending"))
       \/ seen[a][2] = "UNKNOWN" /\ LookupOrReserve(a, slot)
    /\ UNCHANGED <<req, seen, node, result, reserved>>

\* The handler resumes with the lookup's answer: a settled payment is stored
\* and returned, a failed one gives up the pending slot, and then (settled
\* payments apart) the slot is looked up again.
Reconcile(a) ==
    /\ pc[a] = "looked"
    /\ \/ /\ seen[a][2] = "SUCCEEDED"
          /\ slot' \in StoreResult(a, seen[a][1])
          /\ told' = [told EXCEPT ![a] = seen[a][1]]
          /\ pc' = [pc EXCEPT ![a] = "done"]
       \/ seen[a][2] = "FAILED" /\ LookupOrReserve(a, Release(a, "pending"))
       \/ seen[a][2] \notin {"SUCCEEDED", "FAILED"} /\ LookupOrReserve(a, slot)
    /\ UNCHANGED <<req, seen, node, result, reserved>>

\* Mutant: an early error returns without releasing the slot.
EarlyFailKeepsSlot(a) ==
    /\ pc[a] = "admitted"
    /\ pc' = [pc EXCEPT ![a] = "done"]
    /\ UNCHANGED <<req, slot, seen, node, result, reserved, told>>

\* Refused before the node is asked: an invoice that does not decode, a
\* cap, a limit, a balance.  Nothing stays reserved.
EarlyFail(a) ==
    /\ pc[a] = "admitted"
    /\ slot' = Release(a, "inflight")
    /\ pc' = [pc EXCEPT ![a] = "done"]
    /\ UNCHANGED <<req, seen, node, result, reserved, told>>

\* check_payment_limits admits the spend, and the node is asked.
Send(a) ==
    /\ pc[a] = "admitted"
    /\ reserved' = [reserved EXCEPT ![a] = TRUE]
    /\ node' = [node EXCEPT ![a] = "transit"]
    /\ pc' = [pc EXCEPT ![a] = "sent"]
    /\ UNCHANGED <<req, slot, seen, result, told>>

\* The node takes the request up.  It refuses to pay an invoice that is
\* being paid or is paid.
NodeAccept(a) ==
    /\ node[a] = "transit"
    /\ req[a].kind = "pay" =>
          \A b \in Attempts : req[b].kind = "pay" /\ Payment(b) = Payment(a) => ~Live(b)
    /\ node' = [node EXCEPT ![a] =
                   IF req[a].kind \in {"pay", "offer"} THEN "inflight" ELSE "succeeded"]
    /\ UNCHANGED <<req, slot, pc, seen, result, reserved, told>>

NodeRefuse(a) ==
    /\ node[a] = "transit"
    /\ node' = [node EXCEPT ![a] = "refused"]
    /\ UNCHANGED <<req, slot, pc, seen, result, reserved, told>>

NodeResolve(a) ==
    /\ node[a] = "inflight"
    /\ \E n \in {"succeeded", "failed"} : node' = [node EXCEPT ![a] = n]
    /\ UNCHANGED <<req, slot, pc, seen, result, reserved, told>>

\* What the handler can make of its node call.
Outcomes(a) ==
    (IF node[a] = "succeeded" THEN {"ok"} ELSE {})
    \cup (IF node[a] \in {"failed", "refused"} THEN {"refused"} ELSE {})
    \cup (IF "unknown" \in Faults /\ Handler(a).unknowable THEN {"unknown"} ELSE {})

\* Mutant: every handler gives the reservation back on any error.
RespondRollsBack(a) ==
    /\ pc[a] = "sent"
    /\ \E r \in Outcomes(a) :
          /\ result' = [result EXCEPT ![a] = r]
          /\ reserved' = [reserved EXCEPT ![a] = r = "ok"]
    /\ pc' = [pc EXCEPT ![a] = "logging"]
    /\ UNCHANGED <<req, slot, seen, node, told>>

\* The node call returns; some handlers give the reservation back at once.
Respond(a) ==
    /\ pc[a] = "sent"
    /\ \E r \in Outcomes(a) :
          /\ result' = [result EXCEPT ![a] = r]
          /\ reserved' = [reserved EXCEPT ![a] =
                \/ r = "ok"
                \/ r = "refused" /\ ~Handler(a).refundsFirst
                \/ r = "unknown" /\ ~Handler(a).refundsUnknown]
    /\ pc' = [pc EXCEPT ![a] = "logging"]
    /\ UNCHANGED <<req, slot, seen, node, told>>

\* log_action commits, and the handler finishes.
Finish(a) ==
    /\ pc[a] = "logging"
    /\ pc' = [pc EXCEPT ![a] = "done"]
    /\ \/ /\ result[a] = "ok"
          /\ slot' \in StoreResult(a, Payment(a))
          /\ told' = [told EXCEPT ![a] = Payment(a)]
          /\ UNCHANGED reserved
       \/ /\ result[a] = "unknown"
          /\ slot' \in MarkPending(a)
          /\ UNCHANGED <<reserved, told>>
       \/ /\ result[a] = "refused"
          /\ slot' = Release(a, "inflight")
          /\ reserved' = [reserved EXCEPT ![a] = FALSE]
          /\ UNCHANGED told
    /\ UNCHANGED <<req, seen, node, result>>

\* log_action raises: every handler's except clause releases the slot.
LogFails(a) ==
    /\ "db" \in Faults
    /\ pc[a] = "logging"
    /\ slot' = Release(a, "inflight")
    /\ pc' = [pc EXCEPT ![a] = "done"]
    /\ UNCHANGED <<req, seen, node, result, reserved, told>>

\* The task is cancelled at an await.  The lookup precedes the try block.
Cancel(a) ==
    /\ "cancel" \in Faults
    /\ Running(a)
    /\ slot' = IF Holds(a) THEN Release(a, "inflight") ELSE slot
    /\ pc' = [pc EXCEPT ![a] = "done"]
    /\ UNCHANGED <<req, seen, node, result, reserved, told>>

\* The process dies; Redis and the node keep what they have.
Crash ==
    /\ "crash" \in Faults
    /\ \E a \in Attempts : Running(a)
    /\ pc' = [a \in Attempts |-> IF Running(a) THEN "done" ELSE pc[a]]
    /\ UNCHANGED <<req, slot, seen, node, result, reserved, told>>

\* The in-flight marker's TTL passes.  It is longer than the handlers run.
ExpireInflight(k) ==
    /\ slot[k].state = "inflight"
    /\ ~\E a \in Attempts : req[a].key = k /\ Holds(a)
    /\ slot' = [slot EXCEPT ![k] = Vacant]
    /\ UNCHANGED <<req, pc, seen, node, result, reserved, told>>

Next ==
    \/ \E a \in Attempts :
          \/ Arrive(a) \/ NodeLookup(a) \/ Reconcile(a) \/ EarlyFail(a)
          \/ Send(a) \/ NodeAccept(a) \/ NodeRefuse(a) \/ NodeResolve(a)
          \/ Respond(a) \/ Finish(a) \/ LogFails(a) \/ Cancel(a)
    \/ Crash
    \/ \E k \in Keys : ExpireInflight(k)

Spec == Init /\ [][Next]_vars

-----------------------------------------------------------------------------
Slots ==
    [state : {"none", "inflight", "pending", "completed"},
     fp : {<<>>} \cup (Kinds \X Bodies),
     payment : Payments \cup {NoPayment}]

\* Every variable has the shape the handlers and the slot scripts give it.
TypeOK ==
    /\ req \in [Attempts -> Requests]
    /\ slot \in [Keys -> Slots]
    /\ pc \in [Attempts -> {"new", "lookup", "looked", "admitted", "sent", "logging", "done"}]
    /\ seen \in [Attempts -> (Payments \cup {NoPayment})
                             \X {"none", "UNKNOWN", "IN_FLIGHT", "FAILED", "SUCCEEDED"}]
    /\ node \in [Attempts -> {"idle", "transit", "inflight", "succeeded", "failed", "refused"}]
    /\ result \in [Attempts -> {"none", "ok", "refused", "unknown"}]
    /\ reserved \in [Attempts -> BOOLEAN]
    /\ told \in [Attempts -> Payments \cup {NoPayment}]

\* Requests that carry the same Idempotency-Key move money at most once
\* (payments.py, channels.py, cold_storage.py, bolt12.py: "safely retryable").
AtMostOncePerKey ==
    \A a, b \in Attempts :
        Keyed(a) /\ req[a].key = req[b].key /\ Live(a) /\ Live(b) => a = b

\* A payment that has left, or may leave, the wallet is counted in the spend
\* window: no handler gives back the reservation of a live payment.
MeteredOutflow == \A a \in Attempts : Live(a) => reserved[a]

\* A client that is told a payment succeeded made a request with that body,
\* and the payment did succeed: a key replayed with another body is refused.
TruthfulAnswers ==
    \A a \in Attempts : told[a] # NoPayment =>
        \E b \in Attempts : /\ Payment(b) = told[a]
                            /\ node[b] = "succeeded"
                            /\ Fingerprint(b) = Fingerprint(a)

\* While a request is being handled its key is reserved, and only for it: no
\* two requests of one key run past lookup_or_reserve together, and without
\* crashes and erring EVALs no finished request leaves its key locked.
ReservedByItsHolder ==
    /\ \A a \in Attempts : Holds(a) => slot[req[a].key].state = "inflight"
    /\ \A a, b \in Attempts : Holds(a) /\ Holds(b) /\ req[a].key = req[b].key => a = b
    /\ "crash" \notin Faults /\ "eval" \notin Faults =>
          \A k \in Keys : slot[k].state = "inflight" =>
              \E a \in Attempts : req[a].key = k /\ Holds(a)

\* A completed slot stays completed: no late writer (a slow handler that marks
\* its payment pending or releases its key, a retry that reserves it) turns it
\* into something a retry could pay under.  Its response stays too, but for
\* store_result's fallback when its EVAL errs: then the slot holds what the
\* storing request tells its own client.
CompletedStays ==
    [][\A k \in Keys : slot[k].state = "completed" =>
           /\ slot'[k].state = "completed"
           /\ slot'[k] # slot[k] =>
                 /\ "eval" \in Faults
                 /\ \E a \in Attempts : /\ req[a].key = k
                                        /\ pc[a] # "done" /\ pc'[a] = "done"
                                        /\ told'[a] = slot'[k].payment]_vars
=============================================================================
