------------------------ MODULE SpendRequests_proofs ------------------------
(***************************************************************************)
(* What the money-moving handlers guarantee for any number of requests,    *)
(* keys and bodies: the reservation of a payment that may leave is kept    *)
(* whatever fails, a completed slot stays one, what clients are told is     *)
(* true, and on the endpoints that do not look pending payments up a key   *)
(* has one holder and moves money at most once.                            *)
(***************************************************************************)
EXTENDS SpendRequests, TLAPS

\* Writing a field keeps the fields of a record. The fact is in sight of every proof below, for what
\* it contains: before an update of a record the SMT backend gives up its type synthesis, the cost
\* of which grows with every obligation, and takes the untyped encoding.
LEMMA FieldsStay == DOMAIN [Vacant EXCEPT !.state = "none"] = DOMAIN Vacant
  OBVIOUS

USE FieldsStay

(***************************************************************************)
(* Types.                                                                  *)
(***************************************************************************)

\* The slot operations return slots.
LEMMA SlotOperations ==
    ASSUME TypeOK, NEW a \in Attempts
    PROVE  /\ Payment(a) \in Payments
           /\ Keyed(a) => req[a].key \in Keys
           /\ Fingerprint(a) \in Kinds \X Bodies
           /\ \A s \in {"inflight", "pending"} : Release(a, s) \in [Keys -> Slots]
           /\ \A p \in Payments \cup {NoPayment} : StoreResult(a, p) \subseteq [Keys -> Slots]
           /\ MarkPending(a) \subseteq [Keys -> Slots]
<1> USE DEF TypeOK
<1>1. /\ req[a].key \in Keys \cup {NoKey}
      /\ req[a].kind \in Kinds
      /\ req[a].body \in Bodies
  BY SpendAssumption
<1>2. Payment(a) \in Payments
  BY <1>1 DEF Payment, Payments
<1>3. Keyed(a) => req[a].key \in Keys
  BY <1>1 DEF Keyed
<1>4. Fingerprint(a) \in Kinds \X Bodies
  BY <1>1 DEF Fingerprint
<1>5. Vacant \in Slots
  BY DEF Vacant, Slots
<1>6. \A s \in {"inflight", "pending"} : Release(a, s) \in [Keys -> Slots]
  BY <1>3, <1>5 DEF Release
<1>7. \A s \in {"pending", "completed"}, p \in Payments \cup {NoPayment} :
         CompareAndSet(a, s, p) \in [Keys -> Slots] /\ Overwrite(a, s, p) \in [Keys -> Slots]
  BY <1>3, <1>4 DEF CompareAndSet, Overwrite, Slots
<1> QED
  BY <1>2, <1>3, <1>4, <1>6, <1>7 DEF StoreResult, MarkPending, IfEvalErrs

\* Reserving keeps the types, from any slots.
LEMMA LookupOrReserveTypes ==
    ASSUME TypeOK, NEW a \in Attempts, NEW slots \in [Keys -> Slots],
           LookupOrReserve(a, slots)
    PROVE  /\ slot' \in [Keys -> Slots]
           /\ pc' \in [Attempts -> {"new", "lookup", "looked", "admitted", "sent", "logging", "done"}]
           /\ told' \in [Attempts -> Payments \cup {NoPayment}]
<1> USE DEF TypeOK
<1>1. /\ Keyed(a) => req[a].key \in Keys
      /\ Fingerprint(a) \in Kinds \X Bodies
  BY SlotOperations
<1>2. slot' \in [Keys -> Slots]
  <2>1. Keyed(a) => [state |-> "inflight", fp |-> Fingerprint(a), payment |-> NoPayment] \in Slots
    BY <1>1 DEF Slots
  <2> QED
    BY <1>1, <2>1 DEF LookupOrReserve, IfEvalErrs
<1>3. told' \in [Attempts -> Payments \cup {NoPayment}]
  BY <1>1 DEF LookupOrReserve, Slots
<1> QED
  BY Zenon, <1>2, <1>3 DEF LookupOrReserve

\* Every action keeps the types.
LEMMA TypeStep == TypeOK /\ [Next]_vars => TypeOK'
<1> SUFFICES ASSUME TypeOK, [Next]_vars PROVE TypeOK'
  OBVIOUS
<1> USE DEF TypeOK
<1>1. ASSUME NEW a \in Attempts, Arrive(a) PROVE TypeOK'
  <2>1. CASE LookupOrReserve(a, slot) /\ UNCHANGED seen
    BY <1>1, <2>1, LookupOrReserveTypes DEF Arrive
  <2>2. CASE /\ Keyed(a)
             /\ pc' = [pc EXCEPT ![a] = "lookup"]
             /\ seen' = [seen EXCEPT ![a] = <<slot[req[a].key].payment, "none">>]
             /\ UNCHANGED <<slot, told>>
    <3>1. slot[req[a].key].payment \in Payments \cup {NoPayment}
      BY <2>2, SlotOperations DEF Slots
    <3> QED
      BY <1>1, <2>2, <3>1 DEF Arrive
  <2> QED
    BY <1>1, <2>1, <2>2 DEF Arrive
<1>2. ASSUME NEW a \in Attempts, NodeLookup(a) PROVE TypeOK'
  BY <1>2 DEF NodeLookup, Statuses
<1>3. ASSUME NEW a \in Attempts, Reconcile(a) PROVE TypeOK'
  <2>1. /\ Release(a, "pending") \in [Keys -> Slots]
        /\ \A p \in Payments \cup {NoPayment} : StoreResult(a, p) \subseteq [Keys -> Slots]
    BY SlotOperations
  <2>2. CASE LookupOrReserve(a, Release(a, "pending"))
    BY <1>3, <2>1, <2>2, LookupOrReserveTypes DEF Reconcile
  <2>3. CASE LookupOrReserve(a, slot)
    BY <1>3, <2>3, LookupOrReserveTypes DEF Reconcile
  <2>4. CASE slot' \in StoreResult(a, seen[a][1]) /\ told' = [told EXCEPT ![a] = seen[a][1]]
             /\ pc' = [pc EXCEPT ![a] = "done"]
    BY <1>3, <2>1, <2>4 DEF Reconcile
  <2> QED
    BY <1>3, <2>2, <2>3, <2>4 DEF Reconcile
<1>4. ASSUME NEW a \in Attempts, EarlyFail(a) \/ LogFails(a) \/ Cancel(a) PROVE TypeOK'
  <2>1. Release(a, "inflight") \in [Keys -> Slots]
    BY SlotOperations
  <2> QED
    BY <1>4, <2>1 DEF EarlyFail, LogFails, Cancel
<1>5. ASSUME NEW a \in Attempts, Send(a) PROVE TypeOK'
  BY <1>5 DEF Send
<1>6. ASSUME NEW a \in Attempts, NodeAccept(a) \/ NodeRefuse(a) \/ NodeResolve(a) PROVE TypeOK'
  <2>1. \E n \in {"inflight", "succeeded", "failed", "refused"} : node' = [node EXCEPT ![a] = n]
    BY <1>6 DEF NodeAccept, NodeRefuse, NodeResolve
  <2> QED
    BY <1>6, <2>1 DEF NodeAccept, NodeRefuse, NodeResolve
<1>7. ASSUME NEW a \in Attempts, Respond(a) PROVE TypeOK'
  BY <1>7 DEF Respond, Outcomes
<1>8. ASSUME NEW a \in Attempts, Finish(a) PROVE TypeOK'
  <2>1. /\ Payment(a) \in Payments
        /\ StoreResult(a, Payment(a)) \subseteq [Keys -> Slots]
        /\ MarkPending(a) \subseteq [Keys -> Slots]
        /\ Release(a, "inflight") \in [Keys -> Slots]
    BY SlotOperations
  <2> QED
    BY Zenon, <1>8, <2>1 DEF Finish
<1>9. CASE Crash
  BY <1>9 DEF Crash
<1>10. ASSUME NEW k \in Keys, ExpireInflight(k) PROVE TypeOK'
  BY <1>10 DEF ExpireInflight, Vacant, Slots
<1>11. CASE UNCHANGED vars
  BY <1>11 DEF vars
<1> QED
  BY <1>1, <1>2, <1>3, <1>4, <1>5, <1>6, <1>7, <1>8, <1>9, <1>10, <1>11 DEF Next

\* The types hold of every behaviour of the handlers.
THEOREM TypesHold == Spec => []TypeOK
<1>1. Init => TypeOK
  BY DEF Init, TypeOK, Vacant, Slots
<1> QED
  BY <1>1, TypeStep, PTL DEF Spec

(***************************************************************************)
(* Metering.                                                               *)
(***************************************************************************)

\* The node has, or will have, the request.
MayBeLive(a) == node[a] \in {"transit", "inflight", "succeeded"}

MeterInv ==
    /\ reserved \in [Attempts -> BOOLEAN]
    /\ req \in [Attempts -> Requests]
    /\ pc \in [Attempts -> {"new", "lookup", "looked", "admitted", "sent", "logging", "done"}]
    /\ node \in [Attempts -> {"idle", "transit", "inflight", "succeeded", "failed", "refused"}]
    /\ result \in [Attempts -> {"none", "ok", "refused", "unknown"}]
    /\ \A a \in Attempts :
          /\ pc[a] \in {"new", "lookup", "looked", "admitted"} => node[a] = "idle"
          /\ MayBeLive(a) => reserved[a]
          /\ pc[a] = "logging" /\ result[a] = "refused" => node[a] \in {"failed", "refused"}

\* Which handlers look a pending payment up, and which give an unknown
\* outcome's reservation back.
LEMMA HandlerFacts ==
    ASSUME NEW a \in Attempts, req[a].kind \in Kinds
    PROVE  /\ Handler(a).looksUp <=> req[a].kind \in {"pay", "offer"}
           /\ Handler(a).refundsUnknown <=> req[a].kind = "bump"
<1>1. CASE req[a].kind = "pay"   BY <1>1 DEF Handler, PayInvoice
<1>2. CASE req[a].kind = "send"  BY <1>2 DEF Handler, SendOnchain
<1>3. CASE req[a].kind = "open"  BY <1>3 DEF Handler, OpenChannel
<1>4. CASE req[a].kind = "offer" BY <1>4 DEF Handler, PayOffer
<1>5. CASE req[a].kind = "swap"  BY <1>5 DEF Handler, InitiateSwap
<1>6. CASE req[a].kind = "bump"  BY SMTT(30), <1>6 DEF Handler, BumpFee
<1> QED
  BY <1>1, <1>2, <1>3, <1>4, <1>5, <1>6 DEF Kinds

\* No endpoint but the fee bump gives back the reservation of a payment the
\* node may still make, whatever faults occur: the inductive step, one
\* action after the other.
LEMMA MeterStep ==
    ASSUME \A r \in Requests : r.kind # "bump",
           MeterInv, [Next]_vars
    PROVE  MeterInv'
<1> USE DEF MeterInv, MayBeLive
<1>1. ASSUME NEW a \in Attempts, Arrive(a) PROVE MeterInv'
  BY <1>1 DEF Arrive, LookupOrReserve
<1>2. ASSUME NEW a \in Attempts, NodeLookup(a) PROVE MeterInv'
  BY SMTT(30), <1>2 DEF NodeLookup
<1>3. ASSUME NEW a \in Attempts, Reconcile(a) PROVE MeterInv'
  BY <1>3 DEF Reconcile, LookupOrReserve
<1>4. ASSUME NEW a \in Attempts, EarlyFail(a) PROVE MeterInv'
  BY <1>4 DEF EarlyFail
<1>5. ASSUME NEW a \in Attempts, Send(a) PROVE MeterInv'
  BY <1>5 DEF Send
<1>6. ASSUME NEW a \in Attempts, NodeAccept(a) \/ NodeRefuse(a) \/ NodeResolve(a)
      PROVE  MeterInv'
  BY <1>6 DEF NodeAccept, NodeRefuse, NodeResolve
<1>7. ASSUME NEW a \in Attempts, Respond(a) PROVE MeterInv'
  <2>1. req[a].kind \in Kinds /\ req[a].kind # "bump"
    BY SpendAssumption DEF TypeOK
  <2>2. ~Handler(a).refundsUnknown
    BY <2>1, HandlerFacts
  <2> QED
    BY <1>7, <2>2 DEF Respond, Outcomes
<1>8. ASSUME NEW a \in Attempts, Finish(a) PROVE MeterInv'
  BY Zenon, <1>8 DEF Finish
<1>9. ASSUME NEW a \in Attempts, LogFails(a) \/ Cancel(a) PROVE MeterInv'
  BY <1>9 DEF LogFails, Cancel
<1>10. CASE Crash
  BY <1>10 DEF Crash, Running
<1>11. ASSUME NEW k \in Keys, ExpireInflight(k) PROVE MeterInv'
  BY <1>11 DEF ExpireInflight
<1>12. CASE UNCHANGED vars
  BY <1>12 DEF vars
<1> QED
  BY <1>1, <1>2, <1>3, <1>4, <1>5, <1>6, <1>7, <1>8, <1>9, <1>10, <1>11, <1>12 DEF Next

\* Every payment that has left or may leave is counted in the spend window,
\* for every set of requests without fee bumps and every set of faults.
THEOREM OutflowIsMetered ==
    ASSUME \A r \in Requests : r.kind # "bump"
    PROVE  Spec => []MeteredOutflow
<1>1. Init => MeterInv
  BY DEF Init, MeterInv, MayBeLive
<1>2. MeterInv /\ [Next]_vars => MeterInv'
  BY MeterStep
<1>3. MeterInv => MeteredOutflow
  BY DEF MeterInv, MayBeLive, MeteredOutflow, Live
<1> QED
  BY <1>1, <1>2, <1>3, PTL DEF Spec

(***************************************************************************)
(* The completed slot.                                                     *)
(***************************************************************************)

\* What a step may do to a completed slot k.
KeptCompleted(k) ==
    /\ slot'[k].state = "completed"
    /\ slot'[k] # slot[k] =>
          /\ "eval" \in Faults
          /\ \E a \in Attempts : /\ req[a].key = k
                                 /\ pc[a] # "done" /\ pc'[a] = "done"
                                 /\ told'[a] = slot'[k].payment

\* The scripts and the releases leave a completed slot alone, whoever calls
\* them; the unconditional write of store_result replaces it by the answer its
\* caller gives.
LEMMA CompletedKept ==
    ASSUME TypeOK, [Next]_vars, NEW k \in Keys, slot[k].state = "completed"
    PROVE  KeptCompleted(k)
<1> USE DEF TypeOK
<1>1. \A a \in Attempts : Keyed(a) => req[a].key \in Keys
  BY SpendAssumption DEF Keyed
<1>2. \A a \in Attempts, s \in {"inflight", "pending"} :
         Release(a, s)[k] = slot[k]
  BY <1>1 DEF Release
<1>3. \A a \in Attempts : \A p, s : CompareAndSet(a, s, p)[k] = slot[k]
  BY <1>1 DEF CompareAndSet, Overwrite
<1>4. ASSUME slot'[k] = slot[k] PROVE KeptCompleted(k)
  BY <1>4 DEF KeptCompleted
<1>5. ASSUME NEW a \in Attempts, NEW slots, LookupOrReserve(a, slots),
             slots[k] = slot[k], slots = slot \/ slots = Release(a, "pending")
      PROVE  slot'[k] = slot[k]
  BY <1>1, <1>5 DEF LookupOrReserve, Release, IfEvalErrs
<1>6. ASSUME NEW a \in Attempts, NEW p, slot' \in StoreResult(a, p),
             pc[a] # "done", pc'[a] = "done", told'[a] = p
      PROVE  KeptCompleted(k)
  <2>1. CASE slot' = CompareAndSet(a, "completed", p) \/ slot' = slot
    BY <1>3, <1>4, <2>1
  <2>2. CASE "eval" \in Faults /\ slot' = Overwrite(a, "completed", p) /\ Keyed(a) /\ req[a].key = k
    <3>1. slot'[k].state = "completed" /\ slot'[k].payment = p
      BY <1>1, <2>2 DEF Overwrite
    <3> QED
      BY <1>6, <2>2, <3>1 DEF KeptCompleted
  <2>3. CASE slot' = Overwrite(a, "completed", p) /\ ~(Keyed(a) /\ req[a].key = k)
    BY <1>1, <1>4, <2>3 DEF Overwrite
  <2> QED
    BY <1>6, <2>1, <2>2, <2>3 DEF StoreResult, IfEvalErrs
<1>7. ASSUME NEW a \in Attempts, Arrive(a) PROVE KeptCompleted(k)
  BY <1>4, <1>5, <1>7 DEF Arrive
<1>8. ASSUME NEW a \in Attempts, Reconcile(a) PROVE KeptCompleted(k)
  <2>1. CASE /\ slot' \in StoreResult(a, seen[a][1])
             /\ told' = [told EXCEPT ![a] = seen[a][1]]
             /\ pc' = [pc EXCEPT ![a] = "done"]
    BY <1>6, <1>8, <2>1 DEF Reconcile
  <2>2. CASE LookupOrReserve(a, Release(a, "pending"))
    BY <1>2, <1>4, <1>5, <2>2
  <2>3. CASE LookupOrReserve(a, slot)
    BY <1>4, <1>5, <2>3
  <2> QED
    BY <1>8, <2>1, <2>2, <2>3 DEF Reconcile
<1>9. ASSUME NEW a \in Attempts, EarlyFail(a) \/ LogFails(a) \/ Cancel(a) PROVE KeptCompleted(k)
  BY <1>2, <1>4, <1>9 DEF EarlyFail, LogFails, Cancel
<1>10. ASSUME NEW a \in Attempts, Finish(a) PROVE KeptCompleted(k)
  <2>1. CASE slot' \in StoreResult(a, Payment(a)) /\ told' = [told EXCEPT ![a] = Payment(a)]
    BY <1>6, <1>10, <2>1 DEF Finish
  <2>2. CASE slot' \in MarkPending(a)
    BY <1>3, <1>4, <2>2 DEF MarkPending, IfEvalErrs
  <2>3. CASE slot' = Release(a, "inflight")
    BY <1>2, <1>4, <2>3
  <2> QED
    BY <1>10, <2>1, <2>2, <2>3 DEF Finish
<1>11. ASSUME NEW j \in Keys, ExpireInflight(j) PROVE KeptCompleted(k)
  BY <1>4, <1>11 DEF ExpireInflight
<1>12. CASE UNCHANGED slot
  BY <1>4, <1>12
<1> QED
  BY <1>7, <1>8, <1>9, <1>10, <1>11, <1>12
     DEF Next, vars, NodeLookup, Send, NodeAccept, NodeRefuse, NodeResolve, Respond, Crash

\* Once a response is stored under a key no step of any handler, and no
\* expiry of an in-flight marker, makes the key payable again, whatever fails;
\* the response changes only where store_result's EVAL may err, and then to
\* what another request under the key is told.
THEOREM CompletedSlotsStay == Spec => CompletedStays
<1>1. TypeOK /\ [Next]_vars
         => [\A k \in Keys : slot[k].state = "completed" => KeptCompleted(k)]_vars
  BY CompletedKept
<1> QED
  BY <1>1, TypesHold, PTL DEF Spec, CompletedStays, KeptCompleted

(***************************************************************************)
(* At most one payment per key.                                            *)
(***************************************************************************)

\* The endpoints that never look a pending payment up, when nothing but
\* node calls of unknown outcome goes wrong.
NoReconciling ==
    /\ \A r \in Requests : r.kind \notin {"pay", "offer"}
    /\ Faults \subseteq {"unknown"}

\* AtMostOncePerKey is not inductive: a second request could be admitted
\* while the first is live.  A live payment's key is therefore held, pending
\* or completed, and a held key has one holder.
OwnSlot(a) ==
    /\ pc[a] \in {"new", "admitted"} => node[a] = "idle"
    /\ pc[a] \notin {"lookup", "looked"}
    /\ pc[a] = "logging" /\ result[a] = "refused" => ~MayBeLive(a)
    /\ Holds(a) => slot[req[a].key].state = "inflight"
    /\ Keyed(a) /\ MayBeLive(a) =>
          Holds(a) \/ slot[req[a].key].state \in {"pending", "completed"}

NoRival(a, b) ==
    Keyed(a) /\ req[a].key = req[b].key =>
        /\ Holds(a) /\ Holds(b) => a = b
        /\ MayBeLive(a) /\ MayBeLive(b) => a = b

OnceInv ==
    /\ TypeOK
    /\ \A a \in Attempts : OwnSlot(a)
    /\ \A a, b \in Attempts : NoRival(a, b)

\* A step of attempt a that leaves the other attempts and the other keys
\* alone need only be looked at where it acts.
LEMMA OneAttemptActs ==
    ASSUME OnceInv, TypeOK', NEW a \in Attempts, UNCHANGED req,
           \A b \in Attempts \ {a} : pc'[b] = pc[b] /\ node'[b] = node[b] /\ result'[b] = result[b],
           Keyed(a) => \A k \in Keys \ {req[a].key} : slot'[k].state = slot[k].state,
           ~Keyed(a) => \A k \in Keys : slot'[k].state = slot[k].state,
           OwnSlot(a)',
           Keyed(a) => \A b \in Attempts \ {a} :
               req[b].key = req[a].key => OwnSlot(b)' /\ NoRival(a, b)'
    PROVE  OnceInv'
<1>0. \A b \in Attempts : Keyed(b) => req[b].key \in Keys
  BY SpendAssumption DEF OnceInv, TypeOK, Keyed
<1>1. ASSUME NEW b \in Attempts PROVE OwnSlot(b)'
  <2>1. CASE b = a
    BY <2>1
  <2>2. CASE b # a /\ Keyed(a) /\ req[b].key = req[a].key
    BY <2>2
  <2>3. CASE b # a /\ ~(Keyed(a) /\ req[b].key = req[a].key)
    <3>1. /\ OwnSlot(b)
          /\ pc'[b] = pc[b] /\ node'[b] = node[b] /\ result'[b] = result[b] /\ req' = req
          /\ Keyed(b) => slot'[req[b].key].state = slot[req[b].key].state
      BY <1>0, <2>3 DEF OnceInv
    <3> QED
      BY <3>1 DEF OwnSlot, Holds, Keyed, MayBeLive
  <2> QED
    BY <2>1, <2>2, <2>3
<1>2. ASSUME NEW b \in Attempts, NEW c \in Attempts PROVE NoRival(b, c)'
  <2>1. CASE b # a /\ c # a
    <3>1. NoRival(b, c) /\ req' = req
          /\ pc'[b] = pc[b] /\ node'[b] = node[b] /\ pc'[c] = pc[c] /\ node'[c] = node[c]
      BY <2>1 DEF OnceInv
    <3> QED
      BY <3>1 DEF NoRival, Holds, Keyed, MayBeLive
  <2>2. CASE b = c
    BY <2>2 DEF NoRival
  <2>3. CASE b = a /\ c # a
    BY <2>3 DEF NoRival, Keyed
  <2>4. CASE b # a /\ c = a
    <3>1. Keyed(b)' /\ req'[b].key = req'[a].key => NoRival(a, b)'
      BY <2>4 DEF Keyed
    <3> QED
      BY <2>4, <3>1 DEF NoRival, Keyed
  <2> QED
    BY <2>1, <2>2, <2>3, <2>4
<1> QED
  BY <1>1, <1>2 DEF OnceInv

\* The inductive step, one action after the other.
LEMMA OnceStep ==
    ASSUME NoReconciling, OnceInv, [Next]_vars
    PROVE  OnceInv'
<1>0. /\ \A outcomes : IfEvalErrs(outcomes) = {}
      /\ \A a \in Attempts : \A p : StoreResult(a, p) = {CompareAndSet(a, "completed", p)}
      /\ \A a \in Attempts : MarkPending(a) =
            {CompareAndSet(a, "pending", IF Handler(a).looksUp THEN Payment(a) ELSE NoPayment)}
  BY DEF NoReconciling, IfEvalErrs, StoreResult, MarkPending
<1>1. TypeOK'
  BY TypeStep DEF OnceInv
<1>2. \A a \in Attempts : /\ Keyed(a) => req[a].key \in Keys
                          /\ req[a].kind \in Kinds \ {"pay", "offer"}
  BY SpendAssumption DEF OnceInv, TypeOK, Keyed, NoReconciling
<1>3. /\ slot \in [Keys -> Slots]
      /\ pc \in [Attempts -> {"new", "lookup", "looked", "admitted", "sent", "logging", "done"}]
      /\ node \in [Attempts -> {"idle", "transit", "inflight", "succeeded", "failed", "refused"}]
      /\ result \in [Attempts -> {"none", "ok", "refused", "unknown"}]
      /\ \A a \in Attempts : OwnSlot(a)
      /\ \A a, b \in Attempts : NoRival(a, b)
  BY DEF OnceInv, TypeOK
<1>4. ASSUME NEW a \in Attempts, Arrive(a) PROVE OnceInv'
  <2>1. LookupOrReserve(a, slot) /\ pc[a] = "new" /\ UNCHANGED <<req, node, result>>
    BY <1>2, <1>4, HandlerFacts DEF Arrive
  <2>2. CASE Keyed(a) /\ slot[req[a].key].state = "none"
    <3>1. /\ pc' = [pc EXCEPT ![a] = "admitted"]
          /\ \A k \in Keys : IF k = req[a].key THEN slot'[k].state = "inflight"
                                               ELSE slot'[k] = slot[k]
      BY <1>0, <1>2, <1>3, <2>1, <2>2 DEF LookupOrReserve
    <3>2. OwnSlot(a)'
      BY <1>2, <1>3, <2>1, <2>2, <3>1 DEF OwnSlot, Holds, Keyed, MayBeLive
    <3>3. ASSUME NEW b \in Attempts \ {a}, req[b].key = req[a].key
          PROVE  OwnSlot(b)' /\ NoRival(a, b)'
      <4>1. ~Holds(b) /\ ~MayBeLive(b)
        BY <1>3, <2>2, <3>3 DEF OwnSlot, Keyed
      <4> QED
        BY <1>3, <2>1, <3>1, <3>3, <4>1 DEF OwnSlot, NoRival, Holds, Keyed, MayBeLive
    <3> QED
      BY SMTT(30), <1>1, <1>2, <1>3, <2>1, <2>2, <3>1, <3>2, <3>3, OneAttemptActs
  <2>3. CASE ~(Keyed(a) /\ slot[req[a].key].state = "none")
    <3>1. /\ pc' = [pc EXCEPT ![a] = IF Keyed(a) THEN "done" ELSE "admitted"]
          /\ slot' = slot
      BY <1>0, <2>1, <2>3 DEF LookupOrReserve
    <3>2. OwnSlot(a)'
      BY <1>2, <1>3, <2>1, <3>1 DEF OwnSlot, Holds, Keyed, MayBeLive
    <3>3. ASSUME NEW b \in Attempts \ {a}, Keyed(a), req[b].key = req[a].key
          PROVE  OwnSlot(b)' /\ NoRival(a, b)'
      BY SMTT(30), <1>3, <2>1, <3>1, <3>3 DEF OwnSlot, NoRival, Holds, Keyed, MayBeLive
    <3> QED
      BY <1>1, <1>3, <2>1, <3>1, <3>2, <3>3, OneAttemptActs
  <2> QED
    BY <2>2, <2>3
<1>5. ASSUME NEW a \in Attempts, EarlyFail(a) PROVE OnceInv'
  <2>1. /\ pc[a] = "admitted"
        /\ pc' = [pc EXCEPT ![a] = "done"]
        /\ UNCHANGED <<req, node, result>>
    BY SMTT(30), <1>5 DEF EarlyFail
  <2>2. \A k \in Keys : slot'[k] = IF k = req[a].key THEN Vacant ELSE slot[k]
    BY <1>2, <1>3, <1>5, SpendAssumption DEF EarlyFail, Release, OwnSlot, Holds, Keyed
  <2>3. OwnSlot(a)'
    BY SMTT(30), <1>2, <1>3, <2>1 DEF OwnSlot, Holds, Keyed, MayBeLive
  <2>4. ASSUME NEW b \in Attempts \ {a}, Keyed(a), req[b].key = req[a].key
        PROVE  OwnSlot(b)' /\ NoRival(a, b)'
    <3>1. Holds(a) /\ slot[req[a].key].state = "inflight"
      BY <1>3, <2>1, <2>4 DEF OwnSlot, Holds
    <3>2. ~Holds(b)
      BY <1>3, <2>4, <3>1 DEF NoRival
    <3>3. ~MayBeLive(b)
      BY <1>3, <2>4, <3>1, <3>2 DEF OwnSlot, Keyed
    <3> QED
      BY <1>3, <2>1, <2>4, <3>2, <3>3 DEF OwnSlot, NoRival, Holds, Keyed, MayBeLive
  <2>5. /\ \A k \in Keys \ {req[a].key} : slot'[k].state = slot[k].state
        /\ ~Keyed(a) => \A k \in Keys : slot'[k].state = slot[k].state
    BY <2>2, SpendAssumption DEF Keyed
  <2> QED
    BY <1>1, <1>3, <2>1, <2>3, <2>4, <2>5, OneAttemptActs
<1>6. ASSUME NEW a \in Attempts,
             Send(a) \/ NodeAccept(a) \/ NodeRefuse(a) \/ NodeResolve(a) \/ Respond(a)
      PROVE  OnceInv'
  <2>1. /\ UNCHANGED <<req, slot>>
        /\ \A b \in Attempts \ {a} : pc'[b] = pc[b] /\ node'[b] = node[b] /\ result'[b] = result[b]
    BY SMTT(30), <1>3, <1>6 DEF Send, NodeAccept, NodeRefuse, NodeResolve, Respond
  <2>2. /\ Holds(a)' <=> Holds(a)
        /\ MayBeLive(a)' => MayBeLive(a) \/ Holds(a) \/ ~Keyed(a)
    BY <1>3, <1>6, <2>1 DEF Send, NodeAccept, NodeRefuse, NodeResolve, Respond, Holds, Keyed, MayBeLive
  <2>3. OwnSlot(a)'
    <3>1. CASE Send(a)
      BY SMTT(30), <1>3, <3>1 DEF Send, OwnSlot, Holds, Keyed, MayBeLive
    <3>2. CASE NodeAccept(a) \/ NodeRefuse(a) \/ NodeResolve(a)
      BY <1>3, <3>2 DEF NodeAccept, NodeRefuse, NodeResolve, OwnSlot, Holds, Keyed, MayBeLive
    <3>3. CASE Respond(a)
      BY SMTT(30), <1>3, <3>3 DEF Respond, Outcomes, OwnSlot, Holds, Keyed, MayBeLive
    <3> QED
      BY <1>6, <3>1, <3>2, <3>3
  <2>4. ASSUME NEW b \in Attempts \ {a}, Keyed(a), req[b].key = req[a].key
        PROVE  OwnSlot(b)' /\ NoRival(a, b)'
    <3>1. OwnSlot(b)'
      BY <1>3, <2>1 DEF OwnSlot, Holds, Keyed, MayBeLive
    <3>2. (Holds(b)' <=> Holds(b)) /\ (MayBeLive(b)' <=> MayBeLive(b))
      BY <2>1 DEF Holds, Keyed, MayBeLive
    <3>3. Holds(a) => ~MayBeLive(b)
      BY <1>3, <2>4 DEF OwnSlot, NoRival, Keyed
    <3> QED
      BY <1>3, <2>1, <2>2, <2>4, <3>1, <3>2, <3>3 DEF NoRival
  <2> QED
    BY SMTT(30), <1>1, <2>1, <2>3, <2>4, OneAttemptActs
<1>7. ASSUME NEW a \in Attempts, Finish(a) PROVE OnceInv'
  <2>1. /\ pc[a] = "logging"
        /\ pc' = [pc EXCEPT ![a] = "done"]
        /\ UNCHANGED <<req, node, result>>
    BY SMTT(30), <1>7 DEF Finish
  <2>2. \A k \in Keys \ {req[a].key} : slot'[k] = slot[k]
    <3>1. \A k \in Keys \ {req[a].key} : /\ Release(a, "inflight")[k] = slot[k]
                                        /\ \A st, p : CompareAndSet(a, st, p)[k] = slot[k]
      BY <1>2, <1>3 DEF CompareAndSet, Overwrite, Release
    <3>2. \/ slot' = Release(a, "inflight")
          \/ \E st, p : slot' = CompareAndSet(a, st, p)
      BY <1>0, <1>7 DEF Finish
    <3> QED
      BY <3>1, <3>2
  <2>3. ~Keyed(a) => slot' = slot
    BY <1>0, <1>7 DEF Finish, CompareAndSet, Release
  <2>4. Keyed(a) => slot[req[a].key].state = "inflight" /\ Holds(a)
    BY <1>3, <2>1 DEF OwnSlot, Holds
  <2>5. Keyed(a) /\ result[a] # "refused" => slot'[req[a].key].state \in {"pending", "completed"}
    <3> SUFFICES ASSUME Keyed(a), result[a] # "refused"
                 PROVE  slot'[req[a].key].state \in {"pending", "completed"}
      OBVIOUS
    <3>0. slot \in [Keys -> Slots] /\ req[a].key \in Keys
          /\ \A st, p : CompareAndSet(a, st, p)[req[a].key].state = st
      BY <1>2, <1>3, <2>4 DEF CompareAndSet, Overwrite
    <3>1. CASE result[a] = "ok"
      <4>1. slot' \in StoreResult(a, Payment(a))
        BY <1>7, <3>1 DEF Finish
      <4> QED
        BY <1>0, <3>0, <4>1
    <3>2. CASE result[a] = "unknown"
      <4>1. slot' \in MarkPending(a)
        BY <1>7, <3>2 DEF Finish
      <4> QED
        BY <1>0, <3>0, <4>1
    <3>3. result[a] \in {"ok", "unknown", "refused"}
      BY <1>7 DEF Finish
    <3> QED
      BY <3>1, <3>2, <3>3
  <2>6. OwnSlot(a)'
    BY SMTT(30), <1>3, <2>1, <2>5 DEF OwnSlot, Holds, Keyed, MayBeLive
  <2>7. ASSUME NEW b \in Attempts \ {a}, Keyed(a), req[b].key = req[a].key
        PROVE  OwnSlot(b)' /\ NoRival(a, b)'
    <3>1. ~Holds(b)
      BY <1>3, <2>4, <2>7 DEF NoRival
    <3>2. ~MayBeLive(b)
      BY <1>3, <2>4, <2>7, <3>1 DEF OwnSlot, Keyed
    <3> QED
      BY <1>3, <2>1, <2>7, <3>1, <3>2 DEF OwnSlot, NoRival, Holds, Keyed, MayBeLive
  <2> QED
    BY <1>1, <1>3, <2>1, <2>2, <2>3, <2>6, <2>7, OneAttemptActs
<1>8. ASSUME NEW k \in Keys, ExpireInflight(k) PROVE OnceInv'
  <2>1. /\ UNCHANGED <<req, pc, node, result>>
        /\ \A j \in Keys \ {k} : slot'[j] = slot[j]
        /\ slot[k].state = "inflight"
        /\ \A a \in Attempts : req[a].key = k => ~Holds(a)
    BY <1>3, <1>8 DEF ExpireInflight
  <2>2. ASSUME NEW a \in Attempts PROVE OwnSlot(a)'
    <3>1. CASE req[a].key = k
      <4>1. ~Holds(a) /\ (Keyed(a) => ~MayBeLive(a))
        BY <1>3, <2>1, <3>1 DEF OwnSlot
      <4> QED
        BY SMTT(30), <1>3, <2>1, <4>1 DEF OwnSlot, Holds, Keyed, MayBeLive
    <3>2. CASE req[a].key # k
      <4>1. Keyed(a) => slot'[req[a].key] = slot[req[a].key]
        BY <1>2, <2>1, <3>2
      <4> QED
        BY <1>3, <2>1, <4>1 DEF OwnSlot, Holds, Keyed, MayBeLive
    <3> QED
      BY <3>1, <3>2
  <2>3. \A a, b \in Attempts : NoRival(a, b)'
    BY <1>3, <2>1 DEF NoRival, Holds, Keyed, MayBeLive
  <2> QED
    BY <1>1, <2>2, <2>3 DEF OnceInv
<1>9. CASE UNCHANGED vars
  <2>1. \A a, b \in Attempts : OwnSlot(a)' /\ NoRival(a, b)'
    BY <1>3, <1>9 DEF vars, OwnSlot, NoRival, Holds, Keyed, MayBeLive
  <2> QED
    BY <1>1, <2>1 DEF OnceInv
<1>10. ~\E a \in Attempts : NodeLookup(a) \/ Reconcile(a) \/ LogFails(a) \/ Cancel(a)
  BY <1>3 DEF NodeLookup, Reconcile, LogFails, Cancel, NoReconciling, OwnSlot
<1>11. ~Crash
  BY DEF Crash, NoReconciling
<1> QED
  BY <1>4, <1>5, <1>6, <1>7, <1>8, <1>9, <1>10, <1>11 DEF Next

\* On-chain sends, channel opens and cold-storage swaps: however many
\* requests carry a key, and however often the outcome of a send is unknown,
\* at most one of them moves money.
THEOREM OncePerKey ==
    ASSUME NoReconciling
    PROVE  Spec => []AtMostOncePerKey
<1>1. Init => OnceInv
  <2>1. Init => TypeOK
    BY DEF Init, TypeOK, Vacant, Slots
  <2> QED
    BY <2>1 DEF Init, OnceInv, OwnSlot, NoRival, Holds, MayBeLive
<1>2. OnceInv /\ [Next]_vars => OnceInv'
  BY OnceStep
<1>3. OnceInv => AtMostOncePerKey
  BY DEF OnceInv, NoRival, AtMostOncePerKey, MayBeLive, Live
<1> QED
  BY <1>1, <1>2, <1>3, PTL DEF Spec

(***************************************************************************)
(* The reservation and its holder.                                         *)
(***************************************************************************)

\* No request that reads a pending slot before it reserves carries a key:
\* such a request may store its lookup's answer over a slot that has been
\* released and reserved by another in the meantime.
PeeksUnkeyed == \A r \in Requests : r.kind \in {"pay", "offer"} => r.key = NoKey

\* ReservedByItsHolder is inductive once no attempt is between its peek and
\* its reservation.
HolderInv ==
    /\ TypeOK
    /\ \A a \in Attempts : pc[a] \notin {"lookup", "looked"}
    /\ ReservedByItsHolder

\* A step that moves no attempt across the reservation, and no slot into or
\* out of "inflight", keeps ReservedByItsHolder.
LEMMA HoldersKept ==
    ASSUME ReservedByItsHolder, UNCHANGED req,
           \A a \in Attempts : Holds(a)' <=> Holds(a),
           \A k \in Keys : slot'[k].state = "inflight" <=> slot[k].state = "inflight",
           \A a \in Attempts : Keyed(a) => req[a].key \in Keys
    PROVE  ReservedByItsHolder'
<1>1. \A a \in Attempts : Holds(a) => Keyed(a)
  BY DEF Holds
<1> QED
  BY <1>1 DEF ReservedByItsHolder

\* When the holder of a key finishes, however it does, nobody holds the key, and
\* the slot is out of "inflight" unless markers may be left behind.
LEMMA HolderLeaves ==
    ASSUME ReservedByItsHolder, UNCHANGED req, NEW a \in Attempts, ~Holds(a)',
           Keyed(a) => Holds(a),
           Keyed(a) /\ "eval" \notin Faults => slot'[req[a].key].state # "inflight",
           \A b \in Attempts \ {a} : Holds(b)' <=> Holds(b),
           \A k \in Keys : ~(Keyed(a) /\ k = req[a].key) => slot'[k] = slot[k],
           \A b \in Attempts : Keyed(b) => req[b].key \in Keys
    PROVE  ReservedByItsHolder'
<1>1. \A b \in Attempts : Holds(b) => Keyed(b) /\ slot[req[b].key].state = "inflight"
  BY DEF Holds, ReservedByItsHolder
<1>2. \A b, c \in Attempts : Holds(b) /\ Holds(c) /\ req[b].key = req[c].key => b = c
  BY DEF ReservedByItsHolder
<1>3. ASSUME NEW b \in Attempts, Holds(b)' PROVE slot'[req[b].key].state = "inflight"
  BY <1>1, <1>2, <1>3
<1>4. \A b, c \in Attempts : Holds(b)' /\ Holds(c)' /\ req[b].key = req[c].key => b = c
  BY <1>2
<1>5. ASSUME "crash" \notin Faults, "eval" \notin Faults, NEW k \in Keys, slot'[k].state = "inflight"
      PROVE  \E b \in Attempts : req[b].key = k /\ Holds(b)'
  <2>1. ~(Keyed(a) /\ k = req[a].key) /\ slot[k].state = "inflight"
    BY <1>5
  <2>2. PICK b \in Attempts : req[b].key = k /\ Holds(b)
    BY <1>5, <2>1 DEF ReservedByItsHolder
  <2> QED
    BY <1>1, <2>1, <2>2
<1> QED
  BY <1>3, <1>4, <1>5 DEF ReservedByItsHolder

\* The inductive step, one action after the other.
LEMMA HolderStep ==
    ASSUME PeeksUnkeyed, HolderInv, [Next]_vars
    PROVE  HolderInv'
<1>1. TypeOK'
  BY TypeStep DEF HolderInv
<1>2. /\ slot \in [Keys -> Slots]
      /\ pc \in [Attempts -> {"new", "lookup", "looked", "admitted", "sent", "logging", "done"}]
      /\ \A a \in Attempts : pc[a] \notin {"lookup", "looked"}
      /\ ReservedByItsHolder
      /\ \A a \in Attempts : Holds(a) => slot[req[a].key].state = "inflight"
      /\ \A a \in Attempts : result[a] \in {"none", "ok", "refused", "unknown"}
  BY DEF HolderInv, TypeOK, ReservedByItsHolder
<1>3. \A a \in Attempts : /\ Keyed(a) => req[a].key \in Keys
                          /\ req[a].kind \in Kinds
                          /\ req[a].kind \in {"pay", "offer"} => ~Keyed(a)
  BY SpendAssumption DEF HolderInv, TypeOK, Keyed, PeeksUnkeyed
<1>4. ASSUME NEW a \in Attempts, Arrive(a) PROVE HolderInv'
  <2>1. LookupOrReserve(a, slot) /\ pc[a] = "new" /\ UNCHANGED req
    BY <1>3, <1>4, HandlerFacts DEF Arrive
  <2>2. \A b \in Attempts \ {a} : pc'[b] = pc[b]
    BY <1>2, <2>1 DEF LookupOrReserve
  <2>3. \A b \in Attempts : pc'[b] \notin {"lookup", "looked"}
    BY <1>2, <2>1 DEF LookupOrReserve
  <2>4. CASE Keyed(a) /\ slot[req[a].key].state = "none" /\ pc'[a] # "done"
    <3>1. /\ pc'[a] = "admitted"
          /\ \A k \in Keys : IF k = req[a].key THEN slot'[k].state = "inflight"
                                               ELSE slot'[k] = slot[k]
      BY <1>2, <1>3, <2>1, <2>4 DEF LookupOrReserve, IfEvalErrs
    <3>2. /\ Holds(a)' /\ ~Holds(a)
          /\ \A b \in Attempts \ {a} : Holds(b)' <=> Holds(b)
      BY <2>1, <2>2, <2>4, <3>1 DEF Holds, Keyed
    <3>3. \A b \in Attempts : Holds(b) => req[b].key \in Keys /\ req[b].key # req[a].key
      BY <1>2, <1>3, <2>4 DEF Holds
    <3>4. \A b \in Attempts : Holds(b)' => slot'[req[b].key].state = "inflight"
      BY <1>2, <1>3, <2>4, <3>1, <3>2, <3>3
    <3>5. \A b, c \in Attempts : Holds(b)' /\ Holds(c)' /\ req[b].key = req[c].key => b = c
      BY <1>2, <3>2, <3>3 DEF ReservedByItsHolder
    <3>6. ASSUME "crash" \notin Faults, "eval" \notin Faults, NEW k \in Keys, slot'[k].state = "inflight"
          PROVE  \E b \in Attempts : req[b].key = k /\ Holds(b)'
      <4>1. CASE k = req[a].key
        BY <3>2, <4>1
      <4>2. CASE k # req[a].key
        <5>1. PICK b \in Attempts : req[b].key = k /\ Holds(b)
          BY <1>2, <3>1, <3>6, <4>2 DEF ReservedByItsHolder
        <5> QED
          BY <3>2, <4>2, <5>1
      <4> QED
        BY <4>1, <4>2
    <3>7. ReservedByItsHolder'
      BY <2>1, <3>4, <3>5, <3>6 DEF ReservedByItsHolder
    <3> QED
      BY <1>1, <2>3, <3>7 DEF HolderInv
  <2>5. CASE ~(Keyed(a) /\ slot[req[a].key].state = "none") /\ slot' = slot
    <3>1. Keyed(a) => pc'[a] = "done"
      BY <1>2, <2>1, <2>5 DEF LookupOrReserve
    <3>2. \A b \in Attempts : Holds(b)' <=> Holds(b)
      BY <2>1, <2>2, <3>1 DEF Holds, Keyed
    <3>3. ReservedByItsHolder'
      BY <1>2, <1>3, <2>1, <2>5, <3>2, HoldersKept
    <3> QED
      BY <1>1, <2>3, <3>3 DEF HolderInv
  <2>6. CASE /\ "eval" \in Faults /\ Keyed(a) /\ pc'[a] = "done"
             /\ \A k \in Keys : slot'[k] = slot[k] \/ slot'[k].state = "inflight"
    <3>1. \A b \in Attempts : Holds(b)' <=> Holds(b)
      BY <2>1, <2>2, <2>6 DEF Holds, Keyed
    <3>2. \A b \in Attempts : Holds(b)' => slot'[req[b].key].state = "inflight"
      BY <1>2, <1>3, <2>6, <3>1 DEF Holds
    <3>3. ReservedByItsHolder'
      BY <1>2, <2>1, <2>6, <3>1, <3>2 DEF ReservedByItsHolder
    <3> QED
      BY <1>1, <2>3, <3>3 DEF HolderInv
  <2>7. \/ slot' = slot /\ ~(Keyed(a) /\ slot[req[a].key].state = "none")
        \/ pc'[a] # "done" /\ Keyed(a) /\ slot[req[a].key].state = "none"
        \/ /\ "eval" \in Faults /\ Keyed(a) /\ pc'[a] = "done"
           /\ \A k \in Keys : slot'[k] = slot[k] \/ slot'[k].state = "inflight"
    BY <1>2, <1>3, <2>1 DEF LookupOrReserve, IfEvalErrs
  <2> QED
    BY <2>4, <2>5, <2>6, <2>7
<1>5. ASSUME NEW a \in Attempts,
             EarlyFail(a) \/ Finish(a) \/ LogFails(a) \/ Cancel(a)
      PROVE  HolderInv'
  <2>1. /\ pc[a] \in {"admitted", "sent", "logging"}
        /\ pc' = [pc EXCEPT ![a] = "done"]
        /\ UNCHANGED req
    BY <1>2, <1>5 DEF EarlyFail, Finish, LogFails, Cancel, Running
  <2>2. Keyed(a) => Holds(a) /\ slot[req[a].key].state = "inflight" /\ req[a].key \in Keys
    BY <1>2, <1>3, <2>1 DEF Holds
  <2>3. \/ slot' = Release(a, "inflight")
        \/ slot' = slot /\ (~Keyed(a) \/ "eval" \in Faults)
        \/ \E st \in {"completed", "pending"}, p \in Payments \cup {NoPayment} :
              slot' = CompareAndSet(a, st, p) \/ slot' = Overwrite(a, st, p)
    <3>1. Payment(a) \in Payments
      BY SlotOperations DEF HolderInv
    <3>2. CASE Finish(a)
      BY <3>1, <3>2 DEF Finish, StoreResult, MarkPending, IfEvalErrs
    <3>3. Cancel(a) => slot' = Release(a, "inflight") \/ (slot' = slot /\ ~Keyed(a))
      BY <2>2 DEF Cancel
    <3>4. EarlyFail(a) \/ LogFails(a) => slot' = Release(a, "inflight")
      BY DEF EarlyFail, LogFails
    <3> QED
      BY <1>5, <3>2, <3>3, <3>4
  <2>4. /\ Keyed(a) /\ "eval" \notin Faults => slot'[req[a].key].state # "inflight"
        /\ \A k \in Keys : ~(Keyed(a) /\ k = req[a].key) => slot'[k] = slot[k]
    <3>1. CASE slot' = Release(a, "inflight")
      BY <1>2, <2>2, <3>1 DEF Release, Vacant
    <3>2. CASE slot' = slot /\ (~Keyed(a) \/ "eval" \in Faults)
      BY <3>2
    <3>3. ASSUME NEW st \in {"completed", "pending"}, NEW p,
                 slot' = CompareAndSet(a, st, p) \/ slot' = Overwrite(a, st, p)
          PROVE  /\ Keyed(a) => slot'[req[a].key].state # "inflight"
                 /\ \A k \in Keys : ~(Keyed(a) /\ k = req[a].key) => slot'[k] = slot[k]
      BY <1>2, <2>2, <3>3 DEF CompareAndSet, Overwrite
    <3> QED
      BY <2>3, <3>1, <3>2, <3>3
  <2>5. ~Holds(a)' /\ \A b \in Attempts \ {a} : Holds(b)' <=> Holds(b)
    BY <1>2, <2>1 DEF Holds, Keyed
  <2>6. ReservedByItsHolder'
    BY <1>2, <1>3, <2>1, <2>2, <2>4, <2>5, HolderLeaves
  <2>7. \A b \in Attempts : pc'[b] \notin {"lookup", "looked"}
    BY <1>2, <2>1
  <2> QED
    BY <1>1, <2>6, <2>7 DEF HolderInv
<1>6. ASSUME NEW a \in Attempts,
             Send(a) \/ Respond(a) \/ NodeAccept(a) \/ NodeRefuse(a) \/ NodeResolve(a)
      PROVE  HolderInv'
  <2>1. UNCHANGED <<req, slot>>
    BY <1>6 DEF Send, Respond, NodeAccept, NodeRefuse, NodeResolve
  <2>2. \/ UNCHANGED pc
        \/ /\ pc[a] \in {"admitted", "sent"}
           /\ \E q \in {"sent", "logging"} : pc' = [pc EXCEPT ![a] = q]
    BY <1>6 DEF Send, Respond, NodeAccept, NodeRefuse, NodeResolve
  <2>3. \A b \in Attempts : (Holds(b)' <=> Holds(b)) /\ pc'[b] \notin {"lookup", "looked"}
    BY <1>2, <2>1, <2>2 DEF Holds, Keyed
  <2>4. ReservedByItsHolder'
    BY <1>2, <1>3, <2>1, <2>3, HoldersKept
  <2> QED
    BY <1>1, <2>3, <2>4 DEF HolderInv
<1>7. CASE Crash
  <2>1. /\ "crash" \in Faults
        /\ UNCHANGED <<req, slot>>
        /\ \A b \in Attempts : pc'[b] = IF Running(b) THEN "done" ELSE pc[b]
    BY <1>7 DEF Crash
  <2>2. \A b \in Attempts : ~Holds(b)' /\ pc'[b] \notin {"lookup", "looked"}
    BY <1>2, <2>1 DEF Holds, Running
  <2>3. ReservedByItsHolder'
    BY <2>1, <2>2 DEF ReservedByItsHolder
  <2> QED
    BY <1>1, <2>2, <2>3 DEF HolderInv
<1>8. ASSUME NEW k \in Keys, ExpireInflight(k) PROVE HolderInv'
  <2>1. /\ UNCHANGED <<req, pc>>
        /\ slot'[k].state = "none"
        /\ \A j \in Keys \ {k} : slot'[j] = slot[j]
        /\ \A a \in Attempts : req[a].key = k => ~Holds(a)
    BY <1>2, <1>8 DEF ExpireInflight, Vacant
  <2>2. \A a \in Attempts : Holds(a)' <=> Holds(a)
    BY <2>1 DEF Holds, Keyed
  <2>3. \A a \in Attempts : Holds(a) => req[a].key \in Keys \ {k}
    BY <1>3, <2>1 DEF Holds
  <2>4. ReservedByItsHolder'
    <3>1. \A a \in Attempts : Holds(a)' => slot'[req[a].key].state = "inflight"
      BY <1>2, <2>1, <2>2, <2>3
    <3>2. "crash" \notin Faults /\ "eval" \notin Faults => \A j \in Keys : slot'[j].state = "inflight" =>
             \E a \in Attempts : req[a].key = j /\ Holds(a)'
      BY <1>2, <2>1, <2>2 DEF ReservedByItsHolder
    <3> QED
      BY <1>2, <2>1, <2>2, <3>1, <3>2 DEF ReservedByItsHolder
  <2> QED
    BY <1>1, <1>2, <2>1, <2>4 DEF HolderInv
<1>9. CASE UNCHANGED vars
  <2>1. \A a \in Attempts : (Holds(a)' <=> Holds(a)) /\ pc'[a] = pc[a]
    BY <1>9 DEF vars, Holds, Keyed
  <2>2. ReservedByItsHolder'
    BY <1>2, <1>3, <1>9, <2>1, HoldersKept DEF vars
  <2> QED
    BY <1>1, <1>2, <2>1, <2>2 DEF HolderInv
<1>10. ~\E a \in Attempts : NodeLookup(a) \/ Reconcile(a)
  BY <1>2 DEF NodeLookup, Reconcile
<1> QED
  BY <1>4, <1>5, <1>6, <1>7, <1>8, <1>9, <1>10 DEF Next

\* On the endpoints that do not peek, a key is reserved exactly while one
\* request runs under it, whatever faults occur; only a crash or an EVAL that
\* errs can leave the marker behind, until its TTL passes.
THEOREM KeysHaveOneHolder ==
    ASSUME PeeksUnkeyed
    PROVE  Spec => []ReservedByItsHolder
<1>1. Init => HolderInv
  <2>1. Init => TypeOK
    BY DEF Init, TypeOK, Vacant, Slots
  <2> QED
    BY <2>1 DEF Init, HolderInv, ReservedByItsHolder, Holds, Vacant
<1>2. HolderInv /\ [Next]_vars => HolderInv'
  BY HolderStep
<1>3. HolderInv => ReservedByItsHolder
  BY DEF HolderInv
<1> QED
  BY <1>1, <1>2, <1>3, PTL DEF Spec
(***************************************************************************)
(* What clients are told.                                                  *)
(***************************************************************************)

\* Clients retry /payments/pay and /bolt12/pay under the key of the request
\* they retry: the peek at a pending slot compares no fingerprints.
RetriesRepeatTheBody ==
    \A r, s \in Requests :
        /\ r.kind \in {"pay", "offer"} /\ s.kind \in {"pay", "offer"}
        /\ r.key = s.key /\ r.key # NoKey
        => r.kind = s.kind /\ r.body = s.body

\* A request with fingerprint f made payment p, and it went through.
Settled(f, p) ==
    \E b \in Attempts : Payment(b) = p /\ Fingerprint(b) = f /\ node[b] = "succeeded"

\* A retryable request of key k makes payment p.
Named(k, p) ==
    \E b \in Attempts : /\ req[b].key = k
                        /\ req[b].kind \in {"pay", "offer"}
                        /\ Payment(b) = p

\* What a slot promises its readers: a completed one holds a payment that
\* went through, a pending one names a payment of a request with its key.
SlotTrue(k) ==
    /\ slot[k].state = "completed" => Settled(slot[k].fp, slot[k].payment)
    /\ slot[k].state = "pending" /\ slot[k].payment # NoPayment => Named(k, slot[k].payment)

\* What an attempt carries from one await to the next is still true.
AttemptTrue(a) ==
    /\ pc[a] \in {"new", "lookup", "looked", "admitted"} => node[a] = "idle"
    /\ pc[a] = "logging" /\ result[a] = "ok" => node[a] = "succeeded"
    /\ pc[a] \in {"lookup", "looked"} =>
          Keyed(a) /\ req[a].kind \in {"pay", "offer"} /\ Named(req[a].key, seen[a][1])
    /\ pc[a] = "looked" /\ seen[a][2] = "SUCCEEDED" => Settled(Fingerprint(a), seen[a][1])
    /\ told[a] # NoPayment => Settled(Fingerprint(a), told[a])

TruthInv ==
    /\ TypeOK
    /\ \A k \in Keys : SlotTrue(k)
    /\ \A a \in Attempts : AttemptTrue(a)

\* A payment's name determines the body of the request that makes it: an
\* invoice is paid by its own name, everything else is named by its attempt.
LEMMA PaymentNamesBody ==
    ASSUME TypeOK, NEW a \in Attempts, NEW b \in Attempts, Payment(a) = Payment(b)
    PROVE  Fingerprint(a) = Fingerprint(b)
<1>1. req[a].body \in Bodies /\ req[b].body \in Bodies
  BY SpendAssumption DEF TypeOK
<1>2. CASE req[a].kind = "pay" /\ req[b].kind = "pay"
  BY <1>2 DEF Payment, Fingerprint
<1>3. CASE req[a].kind # "pay" /\ req[b].kind # "pay"
  BY <1>3 DEF Payment, Fingerprint
<1>4. CASE (req[a].kind = "pay") # (req[b].kind = "pay")
  BY <1>1, <1>4, SpendAssumption DEF Payment
<1> QED
  BY <1>2, <1>3, <1>4

\* The payment a pending slot names has the fingerprint of whoever looks it
\* up under the same key.
LEMMA NamedIsOwn ==
    ASSUME RetriesRepeatTheBody, TypeOK, NEW a \in Attempts, NEW p,
           Keyed(a), req[a].kind \in {"pay", "offer"}, Named(req[a].key, p),
           NEW c \in Attempts, Payment(c) = p
    PROVE  Fingerprint(c) = Fingerprint(a)
<1>1. PICK b \in Attempts : /\ req[b].key = req[a].key
                            /\ req[b].kind \in {"pay", "offer"}
                            /\ Payment(b) = p
  BY DEF Named
<1>2. req[a] \in Requests /\ req[b] \in Requests
  BY DEF TypeOK
<1>3. Fingerprint(a) = Fingerprint(b)
  BY <1>1, <1>2 DEF RetriesRepeatTheBody, Fingerprint, Keyed
<1>4. Fingerprint(c) = Fingerprint(b)
  BY <1>1, PaymentNamesBody
<1> QED
  BY <1>3, <1>4

\* What is settled stays settled and what is named stays named, when the
\* requests are kept and no success is undone.
LEMMA TruthLasts ==
    ASSUME UNCHANGED req,
           \A b \in Attempts : node[b] = "succeeded" => node'[b] = "succeeded"
    PROVE  /\ \A b \in Attempts : /\ Payment(b)' = Payment(b)
                                  /\ Fingerprint(b)' = Fingerprint(b)
                                  /\ Keyed(b)' <=> Keyed(b)
           /\ \A f, p : Settled(f, p) => Settled(f, p)'
           /\ \A k, p : Named(k, p) => Named(k, p)'
<1>1. \A b \in Attempts : /\ Payment(b)' = Payment(b)
                          /\ Fingerprint(b)' = Fingerprint(b)
                          /\ Keyed(b)' <=> Keyed(b)
  BY DEF Payment, Fingerprint, Keyed
<1>2. \A f, p : Settled(f, p) => Settled(f, p)'
  BY <1>1 DEF Settled
<1>3. \A k, p : Named(k, p) => Named(k, p)'
  BY <1>1 DEF Named
<1> QED
  BY <1>1, <1>2, <1>3

\* A step of attempt a, if it keeps the requests and the successes, need only
\* be looked at where it acts: its own slot and its own fields.
LEMMA OneAttemptTells ==
    ASSUME TruthInv, TypeOK', UNCHANGED req, NEW a \in Attempts,
           \A b \in Attempts : node[b] = "succeeded" => node'[b] = "succeeded",
           \A b \in Attempts \ {a} :
               /\ pc'[b] = pc[b] /\ node'[b] = node[b] /\ result'[b] = result[b]
               /\ seen'[b] = seen[b] /\ told'[b] = told[b],
           \A k \in Keys : slot'[k] = slot[k] \/ SlotTrue(k)',
           AttemptTrue(a)'
    PROVE  TruthInv'
<1>1. ASSUME NEW k \in Keys PROVE SlotTrue(k)'
  <2>1. SlotTrue(k)
    BY DEF TruthInv
  <2>2. /\ \A f, p : Settled(f, p) => Settled(f, p)'
        /\ \A p : Named(k, p) => Named(k, p)'
    BY TruthLasts
  <2>3. CASE slot'[k] = slot[k]
    BY <2>1, <2>2, <2>3 DEF SlotTrue
  <2> QED
    BY <2>3
<1>2. ASSUME NEW b \in Attempts PROVE AttemptTrue(b)'
  <2>1. CASE b = a
    BY <2>1
  <2>2. CASE b # a
    <3>1. AttemptTrue(b)
      BY DEF TruthInv
    <3>2. /\ Fingerprint(b)' = Fingerprint(b) /\ (Keyed(b)' <=> Keyed(b)) /\ req' = req
          /\ \A f, p : Settled(f, p) => Settled(f, p)'
          /\ \A k, p : Named(k, p) => Named(k, p)'
      BY TruthLasts
    <3> QED
      BY <2>2, <3>1, <3>2 DEF AttemptTrue
  <2> QED
    BY <2>1, <2>2
<1> QED
  BY <1>1, <1>2 DEF TruthInv

\* Looking up or reserving keeps the truth, from the slots as they are or
\* with a's own pending slot released.
LEMMA LookupOrReserveTells ==
    ASSUME TruthInv, TypeOK', NEW a \in Attempts, NEW slots,
           slots = slot \/ slots = Release(a, "pending"),
           LookupOrReserve(a, slots), pc[a] \in {"new", "looked"},
           UNCHANGED <<req, seen, node, result>>
    PROVE  TruthInv'
<1>1. /\ slot \in [Keys -> Slots]
      /\ pc \in [Attempts -> {"new", "lookup", "looked", "admitted", "sent", "logging", "done"}]
      /\ told \in [Attempts -> Payments \cup {NoPayment}]
      /\ Keyed(a) => req[a].key \in Keys
      /\ AttemptTrue(a)
      /\ \A k \in Keys : SlotTrue(k)
  BY SpendAssumption DEF TruthInv, TypeOK, Keyed
<1>2. /\ \A k \in Keys : slots[k] = slot[k] \/ slots[k].state = "none"
      /\ slots \in [Keys -> Slots]
  BY <1>1 DEF Release, Vacant, Slots
<1>3. \A k \in Keys : \/ slot'[k] = slot[k]
                      \/ slot'[k].state \in {"none", "inflight"}
  BY <1>1, <1>2 DEF LookupOrReserve, IfEvalErrs
<1>4. \A k \in Keys : slot'[k] = slot[k] \/ SlotTrue(k)'
  BY <1>3 DEF SlotTrue
<1>5. /\ \E q \in {"admitted", "done"} : pc' = [pc EXCEPT ![a] = q]
      /\ \A b \in Attempts \ {a} : told'[b] = told[b]
  BY <1>1 DEF LookupOrReserve
<1>6. told'[a] # NoPayment => Settled(Fingerprint(a), told'[a])
  <2>1. CASE told' = told
    BY <1>1, <2>1 DEF AttemptTrue
  <2>2. CASE /\ Keyed(a)
             /\ told' = [told EXCEPT ![a] =
                   IF slots[req[a].key].fp = Fingerprint(a) /\ slots[req[a].key].state = "completed"
                   THEN slots[req[a].key].payment ELSE NoPayment]
    <3> SUFFICES ASSUME told'[a] # NoPayment PROVE Settled(Fingerprint(a), told'[a])
      OBVIOUS
    <3>1. /\ slots[req[a].key].fp = Fingerprint(a)
          /\ slots[req[a].key].state = "completed"
          /\ told'[a] = slots[req[a].key].payment
      BY <1>1, <2>2
    <3>2. slots[req[a].key] = slot[req[a].key] /\ SlotTrue(req[a].key)
      BY <1>1, <1>2, <2>2, <3>1
    <3> QED
      BY <3>1, <3>2 DEF SlotTrue
  <2> QED
    BY <2>1, <2>2 DEF LookupOrReserve
<1>7. AttemptTrue(a)'
  <2>1. /\ Fingerprint(a)' = Fingerprint(a)
        /\ \A f, p : Settled(f, p) => Settled(f, p)'
    BY TruthLasts
  <2>2. pc'[a] \in {"admitted", "done"} /\ node'[a] = "idle"
    BY <1>1, <1>5 DEF AttemptTrue
  <2> QED
    BY <1>6, <2>1, <2>2 DEF AttemptTrue
<1> QED
  BY <1>1, <1>4, <1>5, <1>7, OneAttemptTells

\* The inductive step, one action after the other.
LEMMA TruthStep ==
    ASSUME RetriesRepeatTheBody, TruthInv, [Next]_vars
    PROVE  TruthInv'
<1>1. TypeOK /\ TypeOK'
  BY TypeStep DEF TruthInv
<1>2. /\ slot \in [Keys -> Slots]
      /\ pc \in [Attempts -> {"new", "lookup", "looked", "admitted", "sent", "logging", "done"}]
      /\ node \in [Attempts -> {"idle", "transit", "inflight", "succeeded", "failed", "refused"}]
      /\ result \in [Attempts -> {"none", "ok", "refused", "unknown"}]
      /\ told \in [Attempts -> Payments \cup {NoPayment}]
      /\ seen \in [Attempts -> (Payments \cup {NoPayment})
                               \X {"none", "UNKNOWN", "IN_FLIGHT", "FAILED", "SUCCEEDED"}]
      /\ \A a \in Attempts : AttemptTrue(a)
      /\ \A k \in Keys : SlotTrue(k)
  BY DEF TruthInv, TypeOK
<1>3. \A a \in Attempts : (Keyed(a) => req[a].key \in Keys) /\ req[a].kind \in Kinds
  BY <1>1, SpendAssumption DEF TypeOK, Keyed
<1>4. ASSUME NEW a \in Attempts, Arrive(a) PROVE TruthInv'
  <2>1. CASE LookupOrReserve(a, slot) /\ UNCHANGED seen
    BY <1>1, <1>4, <2>1, LookupOrReserveTells DEF Arrive
  <2>2. CASE /\ Keyed(a) /\ Handler(a).looksUp
             /\ slot[req[a].key].state = "pending"
             /\ slot[req[a].key].payment # NoPayment
             /\ pc' = [pc EXCEPT ![a] = "lookup"]
             /\ seen' = [seen EXCEPT ![a] = <<slot[req[a].key].payment, "none">>]
             /\ UNCHANGED <<slot, told>>
    <3>1. UNCHANGED <<req, node, result>> /\ pc[a] = "new"
      BY <1>4 DEF Arrive
    <3>2. Named(req[a].key, slot[req[a].key].payment) /\ req[a].kind \in {"pay", "offer"}
      BY <1>2, <1>3, <2>2, HandlerFacts DEF SlotTrue
    <3>3. /\ Fingerprint(a)' = Fingerprint(a) /\ (Keyed(a)' <=> Keyed(a))
          /\ \A f, p : Settled(f, p) => Settled(f, p)'
          /\ \A k, p : Named(k, p) => Named(k, p)'
      BY <3>1, TruthLasts
    <3>4. /\ pc'[a] = "lookup" /\ seen'[a] = <<slot[req[a].key].payment, "none">>
          /\ node'[a] = node[a] /\ told'[a] = told[a] /\ req'[a] = req[a]
      BY <1>2, <2>2, <3>1
    <3>5. node[a] = "idle" /\ (told[a] # NoPayment => Settled(Fingerprint(a), told[a]))
      BY <1>2, <3>1 DEF AttemptTrue
    <3>6. AttemptTrue(a)'
      BY <2>2, <3>2, <3>3, <3>4, <3>5 DEF AttemptTrue
    <3> QED
      BY <1>1, <1>2, <2>2, <3>1, <3>6, OneAttemptTells
  <2> QED
    BY <1>4, <2>1, <2>2 DEF Arrive
<1>5. ASSUME NEW a \in Attempts, NodeLookup(a) PROVE TruthInv'
  <2>1. /\ UNCHANGED <<req, slot, node, result, told>>
        /\ pc[a] = "lookup" /\ pc' = [pc EXCEPT ![a] = "looked"]
    BY <1>5 DEF NodeLookup
  <2>2. PICK s \in Statuses(seen[a][1]) : seen' = [seen EXCEPT ![a][2] = s]
    BY Zenon, <1>5 DEF NodeLookup
  <2>3. seen'[a] = <<seen[a][1], s>> /\ \A b \in Attempts \ {a} : seen'[b] = seen[b]
    BY <1>2, <2>2
  <2>4. /\ Keyed(a) /\ req[a].kind \in {"pay", "offer"} /\ Named(req[a].key, seen[a][1])
        /\ node[a] = "idle"
        /\ told[a] # NoPayment => Settled(Fingerprint(a), told[a])
    BY <1>2, <2>1 DEF AttemptTrue
  <2>5. s = "SUCCEEDED" => Settled(Fingerprint(a), seen[a][1])
    <3> SUFFICES ASSUME s = "SUCCEEDED" PROVE Settled(Fingerprint(a), seen[a][1])
      OBVIOUS
    <3>1. PICK c \in Attempts : Payment(c) = seen[a][1] /\ node[c] = "succeeded"
      BY <2>2 DEF Statuses
    <3>2. Fingerprint(c) = Fingerprint(a)
      BY <1>1, <2>4, <3>1, NamedIsOwn
    <3> QED
      BY <3>1, <3>2 DEF Settled
  <2>6. /\ Fingerprint(a)' = Fingerprint(a) /\ (Keyed(a)' <=> Keyed(a))
        /\ \A f, p : Settled(f, p) => Settled(f, p)'
        /\ \A k, p : Named(k, p) => Named(k, p)'
    BY <2>1, TruthLasts
  <2>7. /\ pc'[a] = "looked" /\ node'[a] = node[a] /\ told'[a] = told[a] /\ req'[a] = req[a]
    BY <1>2, <2>1
  <2>8. AttemptTrue(a)'
    BY <2>3, <2>4, <2>5, <2>6, <2>7 DEF AttemptTrue
  <2> QED
    BY <1>1, <1>2, <2>1, <2>3, <2>8, OneAttemptTells
<1>6. ASSUME NEW a \in Attempts, Reconcile(a) PROVE TruthInv'
  <2>1. pc[a] = "looked" /\ UNCHANGED <<req, seen, node, result>>
    BY <1>6 DEF Reconcile
  <2>2. CASE LookupOrReserve(a, slot) \/ LookupOrReserve(a, Release(a, "pending"))
    BY <1>1, <2>1, <2>2, LookupOrReserveTells
  <2>3. CASE /\ seen[a][2] = "SUCCEEDED"
             /\ slot' \in StoreResult(a, seen[a][1])
             /\ told' = [told EXCEPT ![a] = seen[a][1]]
             /\ pc' = [pc EXCEPT ![a] = "done"]
    <3>1. Settled(Fingerprint(a), seen[a][1])
      BY <1>2, <2>1, <2>3 DEF AttemptTrue
    <3>2. /\ Fingerprint(a)' = Fingerprint(a)
          /\ \A f, p : Settled(f, p) => Settled(f, p)'
      BY <2>1, TruthLasts
    <3>3. \A k \in Keys : \/ slot'[k] = slot[k]
                          \/ slot'[k] = [state |-> "completed", fp |-> Fingerprint(a),
                                        payment |-> seen[a][1]]
      BY <1>2, <1>3, <2>3 DEF StoreResult, CompareAndSet, Overwrite, IfEvalErrs
    <3>4. \A k \in Keys : slot'[k] = slot[k] \/ SlotTrue(k)'
      BY <3>1, <3>2, <3>3 DEF SlotTrue
    <3>5. pc'[a] = "done" /\ told'[a] = seen[a][1] /\ node'[a] = node[a]
      BY <1>2, <2>1, <2>3
    <3>6. AttemptTrue(a)'
      BY <3>1, <3>2, <3>5 DEF AttemptTrue
    <3> QED
      BY <1>1, <1>2, <2>1, <2>3, <3>4, <3>6, OneAttemptTells
  <2> QED
    BY <1>6, <2>2, <2>3 DEF Reconcile
<1>7. ASSUME NEW a \in Attempts, Finish(a) PROVE TruthInv'
  <2>1. /\ UNCHANGED <<req, seen, node, result>>
        /\ pc[a] = "logging" /\ pc' = [pc EXCEPT ![a] = "done"]
    BY <1>7 DEF Finish
  <2>2. /\ result[a] = "ok" => node[a] = "succeeded"
        /\ told[a] # NoPayment => Settled(Fingerprint(a), told[a])
    BY <1>2, <2>1 DEF AttemptTrue
  <2>3. /\ Fingerprint(a)' = Fingerprint(a)
        /\ \A f, p : Settled(f, p) => Settled(f, p)'
        /\ \A k, p : Named(k, p) => Named(k, p)'
    BY <2>1, TruthLasts
  <2>4. /\ \A b \in Attempts \ {a} : told'[b] = told[b]
        /\ told'[a] = told[a] \/ (result[a] = "ok" /\ told'[a] = Payment(a))
    BY Zenon, <1>2, <1>7 DEF Finish
  <2>5. pc'[a] = "done" /\ node'[a] = node[a]
    BY <1>2, <2>1
  <2>6. AttemptTrue(a)'
    <3>1. result[a] = "ok" => Settled(Fingerprint(a), Payment(a))
      BY <2>2 DEF Settled
    <3> QED
      BY <2>2, <2>3, <2>4, <2>5, <3>1 DEF AttemptTrue
  <2>7. ASSUME NEW k \in Keys PROVE slot'[k] = slot[k] \/ SlotTrue(k)'
    <3>1. CASE result[a] = "ok"
      <4>1. slot' \in StoreResult(a, Payment(a))
        BY <1>7, <3>1 DEF Finish
      <4>2. \/ slot'[k] = slot[k]
            \/ slot'[k] = [state |-> "completed", fp |-> Fingerprint(a), payment |-> Payment(a)]
        BY <1>2, <1>3, <4>1 DEF StoreResult, CompareAndSet, Overwrite, IfEvalErrs
      <4>3. Settled(Fingerprint(a), Payment(a))
        BY <2>2, <3>1 DEF Settled
      <4> QED
        BY <2>3, <4>2, <4>3 DEF SlotTrue
    <3>2. CASE result[a] = "unknown"
      <4>1. slot' \in MarkPending(a)
        BY <1>7, <3>2 DEF Finish
      <4>2. \/ slot'[k] = slot[k]
            \/ /\ Keyed(a) /\ k = req[a].key
               /\ slot'[k] = [state |-> "pending", fp |-> Fingerprint(a),
                              payment |-> IF Handler(a).looksUp THEN Payment(a) ELSE NoPayment]
        BY <1>2, <1>3, <4>1 DEF MarkPending, CompareAndSet, Overwrite, IfEvalErrs
      <4>3. Handler(a).looksUp => Named(req[a].key, Payment(a))
        BY <1>3, HandlerFacts DEF Named
      <4>4. \/ slot'[k] = slot[k]
            \/ /\ slot'[k].state = "pending"
               /\ slot'[k].payment # NoPayment => Named(k, slot'[k].payment)
        BY <4>2, <4>3
      <4> QED
        BY <2>3, <4>4 DEF SlotTrue
    <3>3. CASE result[a] = "refused"
      <4>1. slot' = Release(a, "inflight")
        BY <1>7, <3>3 DEF Finish
      <4>2. slot'[k] = slot[k] \/ slot'[k].state = "none"
        BY <1>2, <1>3, <4>1 DEF Release, Vacant
      <4> QED
        BY <4>2 DEF SlotTrue
    <3> QED
      BY <1>7, <3>1, <3>2, <3>3 DEF Finish
  <2> QED
    BY <1>1, <1>2, <2>1, <2>4, <2>6, <2>7, OneAttemptTells
<1>8. ASSUME NEW a \in Attempts, EarlyFail(a) \/ LogFails(a) \/ Cancel(a) PROVE TruthInv'
  <2>1. /\ UNCHANGED <<req, seen, node, result, told>>
        /\ pc' = [pc EXCEPT ![a] = "done"]
        /\ slot' = slot \/ slot' = Release(a, "inflight")
    BY <1>8 DEF EarlyFail, LogFails, Cancel
  <2>2. \A k \in Keys : slot'[k] = slot[k] \/ slot'[k].state = "none"
    BY <1>2, <1>3, <2>1 DEF Release, Vacant
  <2>3. \A k \in Keys : slot'[k] = slot[k] \/ SlotTrue(k)'
    BY <2>2 DEF SlotTrue
  <2>4. /\ Fingerprint(a)' = Fingerprint(a)
        /\ \A f, p : Settled(f, p) => Settled(f, p)'
    BY <2>1, TruthLasts
  <2>5. pc'[a] = "done" /\ told'[a] = told[a]
        /\ (told[a] # NoPayment => Settled(Fingerprint(a), told[a]))
    BY <1>2, <2>1 DEF AttemptTrue
  <2>6. AttemptTrue(a)'
    BY <2>4, <2>5 DEF AttemptTrue
  <2> QED
    BY <1>1, <1>2, <2>1, <2>3, <2>6, OneAttemptTells
<1>9. ASSUME NEW a \in Attempts, Send(a) \/ Respond(a) PROVE TruthInv'
  <2>1. /\ UNCHANGED <<req, slot, seen, told>>
        /\ pc[a] \in {"admitted", "sent"}
        /\ pc'[a] \in {"sent", "logging"}
        /\ pc'[a] = "logging" /\ result'[a] = "ok" => node'[a] = "succeeded"
        /\ \A b \in Attempts \ {a} : pc'[b] = pc[b] /\ result'[b] = result[b] /\ node'[b] = node[b]
        /\ node'[a] = node[a] \/ node[a] = "idle"
    <3>1. CASE Send(a)
      BY <1>2, <3>1 DEF Send, AttemptTrue
    <3>2. CASE Respond(a)
      BY <1>2, <3>2 DEF Respond, Outcomes
    <3> QED
      BY <1>9, <3>1, <3>2
  <2>2. \A b \in Attempts : node[b] = "succeeded" => node'[b] = "succeeded"
    BY <2>1
  <2>3. /\ Fingerprint(a)' = Fingerprint(a)
        /\ \A f, p : Settled(f, p) => Settled(f, p)'
    BY <2>1, <2>2, TruthLasts
  <2>4. told[a] # NoPayment => Settled(Fingerprint(a), told[a])
    BY <1>2 DEF AttemptTrue
  <2>5. AttemptTrue(a)'
    BY <2>1, <2>3, <2>4 DEF AttemptTrue
  <2> QED
    BY <1>1, <2>1, <2>2, <2>5, OneAttemptTells
<1>10. ASSUME NEW a \in Attempts, NodeAccept(a) \/ NodeRefuse(a) \/ NodeResolve(a)
       PROVE  TruthInv'
  <2>1. /\ UNCHANGED <<req, slot, pc, seen, result, told>>
        /\ node[a] \in {"transit", "inflight"}
        /\ \A b \in Attempts \ {a} : node'[b] = node[b]
    BY <1>2, <1>10 DEF NodeAccept, NodeRefuse, NodeResolve
  <2>2. \A b \in Attempts : node[b] = "succeeded" => node'[b] = "succeeded"
    BY <2>1
  <2>3. /\ Fingerprint(a)' = Fingerprint(a)
        /\ \A f, p : Settled(f, p) => Settled(f, p)'
    BY <2>1, <2>2, TruthLasts
  <2>4. AttemptTrue(a)'
    BY <1>2, <2>1, <2>3 DEF AttemptTrue
  <2> QED
    BY <1>1, <2>1, <2>2, <2>4, OneAttemptTells
<1>11. CASE Crash
  <2>1. /\ UNCHANGED <<req, slot, seen, node, result, told>>
        /\ \A b \in Attempts : pc'[b] = IF Running(b) THEN "done" ELSE pc[b]
    BY <1>11 DEF Crash
  <2>2. /\ \A b \in Attempts : Fingerprint(b)' = Fingerprint(b) /\ (Keyed(b)' <=> Keyed(b))
        /\ \A f, p : Settled(f, p) => Settled(f, p)'
        /\ \A k, p : Named(k, p) => Named(k, p)'
    BY <2>1, TruthLasts
  <2>3. \A k \in Keys : SlotTrue(k)'
    BY <1>2, <2>1, <2>2 DEF SlotTrue
  <2>4. ASSUME NEW b \in Attempts PROVE AttemptTrue(b)'
    <3>1. pc'[b] = "done" \/ (pc'[b] = pc[b] /\ ~Running(b))
      BY <2>1
    <3> QED
      BY <1>2, <2>1, <2>2, <3>1 DEF AttemptTrue, Running
  <2> QED
    BY <1>1, <2>3, <2>4 DEF TruthInv
<1>12. ASSUME NEW k \in Keys, ExpireInflight(k) PROVE TruthInv'
  <2>1. /\ UNCHANGED <<req, pc, seen, node, result, told>>
        /\ slot'[k].state = "none"
        /\ \A j \in Keys \ {k} : slot'[j] = slot[j]
    BY <1>2, <1>12 DEF ExpireInflight, Vacant
  <2>2. /\ \A b \in Attempts : Fingerprint(b)' = Fingerprint(b) /\ (Keyed(b)' <=> Keyed(b))
        /\ \A f, p : Settled(f, p) => Settled(f, p)'
        /\ \A j, p : Named(j, p) => Named(j, p)'
    BY <2>1, TruthLasts
  <2>3. \A j \in Keys : SlotTrue(j)'
    BY <1>2, <2>1, <2>2 DEF SlotTrue
  <2>4. \A b \in Attempts : AttemptTrue(b)'
    BY <1>2, <2>1, <2>2 DEF AttemptTrue
  <2> QED
    BY <1>1, <2>3, <2>4 DEF TruthInv
<1>13. CASE UNCHANGED vars
  <2>1. UNCHANGED <<req, slot, pc, seen, node, result, told>>
    BY <1>13 DEF vars
  <2>2. /\ \A b \in Attempts : Fingerprint(b)' = Fingerprint(b) /\ (Keyed(b)' <=> Keyed(b))
        /\ \A f, p : Settled(f, p) => Settled(f, p)'
        /\ \A j, p : Named(j, p) => Named(j, p)'
    BY <2>1, TruthLasts
  <2> QED
    BY <1>1, <1>2, <2>1, <2>2 DEF TruthInv, SlotTrue, AttemptTrue
<1> QED
  BY <1>4, <1>5, <1>6, <1>7, <1>8, <1>9, <1>10, <1>11, <1>12, <1>13 DEF Next

\* A client that is told a payment went through asked for exactly it, and it
\* did, whatever faults occur and however the retries interleave, as long as
\* a retry of a Lightning payment repeats the body it retries.
THEOREM AnswersAreTrue ==
    ASSUME RetriesRepeatTheBody
    PROVE  Spec => []TruthfulAnswers
<1>1. Init => TruthInv
  <2>1. Init => TypeOK
    BY DEF Init, TypeOK, Vacant, Slots
  <2> QED
    BY <2>1 DEF Init, TruthInv, SlotTrue, AttemptTrue, Vacant
<1>2. TruthInv /\ [Next]_vars => TruthInv'
  BY TruthStep
<1>3. TruthInv => TruthfulAnswers
  BY DEF TruthInv, AttemptTrue, Settled, TruthfulAnswers
<1> QED
  BY <1>1, <1>2, <1>3, PTL DEF Spec
=============================================================================
