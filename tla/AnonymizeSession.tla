-------------------------- MODULE AnonymizeSession --------------------------
(***************************************************************************)
(* One anonymize session (app/services/anonymize): the per-session loop    *)
(* that drives it, one tick at a time, through its hops; the probe that    *)
(* parks idle sessions and retries parked ones; the dashboard endpoints    *)
(* that cancel, refund, retry or fail it; the chain poll; and the restart  *)
(* that ends every loop and decides which sessions get a new one.          *)
(*                                                                         *)
(* A tick is one database transaction under FOR UPDATE: the hop step, the  *)
(* observation and the status change commit together, or are all rolled    *)
(* back while what the hop did to the outside stays done.  Creating a swap *)
(* and minting the self-pay invoice commit in the middle of the tick,      *)
(* which releases the lock.  The endpoints read without a lock and only    *)
(* their UPDATE waits for it.                                              *)
(***************************************************************************)
EXTENDS Integers, FiniteSets

CONSTANTS
    Pipelines,         \* the sessions asked for: source, exit, and what
                       \* run_claim_subprocess answers a claim with
    RequestedK,        \* the payment parts the pipeline asks for
    MinK,              \* anonymize_reverse_mpp_k_min_executed
    MaxRetries,        \* anonymize_reconciliation_max_retries_transient
    MaxRetriesSemi,    \* MAX_RETRIES_SEMI
    MaxFails,          \* bounded_retry_threshold of the loop
    MinConfirmations,  \* anonymize_claim_min_confirmations
    GiveUpReorgs,      \* anonymize_claim_reorg_giveup_blocks
    MaxEvents          \* bound on restarts, operator requests, reorgs and
                       \* payments of a swap by another task

ASSUME AnonymizeAssumption ==
    /\ {RequestedK, MinK, MaxRetries, MaxRetriesSemi, MaxEvents} \subseteq Nat
    /\ {MaxFails, MinConfirmations, GiveUpReorgs} \subseteq Nat \ {0}
    /\ Pipelines \subseteq
           [source : {"lightning-self", "ext-bolt11", "ext-bolt12", "onchain"},
            exit : {"reverse", "bolt12_pay"}, claimer : {"hex", "txid"}]

VARIABLES
    kind,      \* the session's pipeline, as it was created
    row,       \* the committed AnonymizeSession row and its hop keys
    loop,      \* the per-session loop: where its tick is, and its copy
    request,   \* a dashboard request between its SELECT and its UPDATE
    world,     \* LND, Boltz, the chain, the depositor and the clock
    events,    \* how many rare events have happened (bounded)
    past       \* history: automatic retries since the operator's last one,
               \* and whether a tick that paid an offer, or made a swap, was
               \* rolled back

vars == <<kind, row, loop, request, world, events, past>>

Terminal == {"completed", "completed_with_reorg_uncertainty", "cancelled",
             "failed"}

Parked == "awaiting_reconciliation"

Transitions ==
    [created     |-> {"sourcing", "funding", "cancelled", "failed"},
     sourcing    |-> {"funding", "ln_holding", "cancelled", "failed", Parked},
     funding     |-> {"ln_holding", "delaying", "cancelled", "failed", Parked},
     ln_holding  |-> {"delaying", "hopping", "refunding", "failed", Parked},
     delaying    |-> {"hopping", "exiting", "refunding", "failed", Parked},
     hopping     |-> {"delaying", "exiting", "refunding", "failed", Parked,
                      "awaiting_liquid_dwell"},
     exiting     |-> {"confirming", "failed", Parked},
     confirming  |-> {"completed", "completed_with_reorg_uncertainty",
                      "failed", Parked},
     awaiting_reconciliation |->
                     {"hopping", "exiting", "confirming", "completed",
                      "completed_with_reorg_uncertainty", "refunding",
                      "failed", "cancelled"},
     awaiting_channel_close  |-> {"completed", "failed"},
     awaiting_liquid_dwell   |-> {"hopping", "delaying", "exiting",
                                  "refunding", "failed", Parked},
     refunding   |-> {"failed", Parked},
     completed   |-> {},
     completed_with_reorg_uncertainty |-> {},
     cancelled   |-> {},
     failed      |-> {}]

IsLegal(from, to) == from = to \/ to \in Transitions[from]

-----------------------------------------------------------------------------
(* Reasons a session is parked for, and what the classifier says of them.  *)

Reasons == {"wall_clock_budget_exceeded", "bounded_retry_exhausted",
            "mpp_k_floor_exhausted", "pipeline_schema_below_min_supported"}

MaxRetriesFor(reason) ==
    IF reason \in {"wall_clock_budget_exceeded", "bounded_retry_exhausted"}
    THEN MaxRetries
    ELSE IF reason = "mpp_k_floor_exhausted" THEN MaxRetriesSemi ELSE 0

IsDeferred(reason) == reason \notin Reasons
                      \/ reason = "pipeline_schema_below_min_supported"

IsCancellable(reason) == reason \in
    {"wall_clock_budget_exceeded", "bounded_retry_exhausted",
     "mpp_k_floor_exhausted"}

(* Mutant: entering reconciliation resets the attempt counter.             *)
ParkAfresh(r, reason) ==
    [r EXCEPT !.pre = IF r.status = Parked THEN @ ELSE r.status,
              !.reason = reason, !.attempts = 0,
              !.status = IF IsLegal(r.status, Parked) THEN Parked ELSE @]

(* transition_to_awaiting_reconciliation: the resume target and the reason *)
(* are written first, the edge is checked last.                            *)
Park(r, reason) ==
    IF r.status = Parked THEN [r EXCEPT !.reason = reason]
    ELSE [r EXCEPT !.pre = r.status, !.reason = reason,
                   !.status = IF IsLegal(r.status, Parked) THEN Parked ELSE @]

-----------------------------------------------------------------------------
(* Rows and what surrounds them.                                           *)

NewRow == [status |-> "created", pre |-> "none", reason |-> "none",
           attempts |-> 0, invoice |-> 0, selfPaid |-> FALSE,
           submarine |-> FALSE, swap |-> 0, decrements |-> 0,
           offer |-> "none", done |-> {}, claimed |-> FALSE,
           confirmations |-> 0, reorgs |-> 0]

(* The loop's copy is kept only across a commit in the middle of a tick.   *)
Asleep == [pc |-> "asleep", row |-> NewRow, fails |-> 0]

Off == [Asleep EXCEPT !.pc = "off"]

Idle == [to |-> "none", reset |-> FALSE, op |-> "none"]

(* The session's self-pay invoices and reverse swaps are numbered; an      *)
(* invoice that was never paid is not told apart from one never minted.    *)
Numbers == 1 .. 2

Fresh(payments) == IF payments[1] = "none" THEN 1 ELSE 2

NewWorld == [selfPay |-> [n \in Numbers |-> "none"],
             exitPay |-> [n \in Numbers |-> "none"],
             swaps |-> 0, offers |-> 0, offerPaid |-> FALSE, deposited |-> FALSE,
             claim |-> FALSE, depth |-> 0, deepest |-> 0, reorgs |-> 0,
             idle |-> FALSE, ripe |-> FALSE]

(* dash_anonymize_create_session mints the BOLT 12 offer of a deposit; if  *)
(* the mint is skipped, refused or fails, the session is made without one. *)
Created(p) ==
    {p} \union (IF p.source = "ext-bolt12"
                THEN {[p EXCEPT !.source = "ext-bolt12-unminted"]} ELSE {})

Init ==
    /\ \E p \in Pipelines : kind \in Created(p)
    /\ row = NewRow
    /\ loop = Asleep
    /\ request = Idle
    /\ world = NewWorld
    /\ events = 0
    /\ past = [resumes |-> 0, lost |-> FALSE]

(* updated_at moves with every UPDATE that changes the row, and the delay  *)
(* window and the idle budget are both measured from it.                   *)
Touch(w, old, new) ==
    IF old = new THEN w ELSE [w EXCEPT !.idle = FALSE, !.ripe = FALSE]

(* A flush writes only the columns that differ from what was loaded.       *)
Written(base, copy, current) ==
    [f \in DOMAIN current |-> IF copy[f] # base[f] THEN copy[f] ELSE current[f]]

Event == events < MaxEvents /\ events' = events + 1

-----------------------------------------------------------------------------
(* Hops: from a row and a world, the rows and worlds a step may leave.     *)

Out(r, w) == [row |-> r, world |-> w]

(* LND: a payment not yet known is refused, left in flight or settled; a   *)
(* known one is not sent again: the answer is an error, transient or hard. *)
SendPayment(state) ==
    {[to |-> state, answer |-> a] : a \in {"transient", "hard"}}
    \union (IF state # "none" THEN {}
            ELSE {[to |-> "held", answer |-> "transient"],
                  [to |-> "settled", answer |-> "ok"]})

MarkSettled(r) == [r EXCEPT !.selfPaid = TRUE]

FireKey == <<"ln_self_pay_fire", 1>>

SelfPaySettled(r) == [MarkSettled(r) EXCEPT !.done = @ \union {FireKey}]

(* Mutant: a payment in transition is taken for settled.                   *)
FireSelfPayHopeful(r, w) ==
    {Out(IF p.answer # "hard" THEN SelfPaySettled(r) ELSE r,
         [w EXCEPT !.selfPay[r.invoice] = p.to]) :
       p \in SendPayment(w.selfPay[r.invoice])}

(* From the route on: an unresolved route, or a send that errs, leaves the *)
(* row as it is.                                                           *)
FireSelfPay(r, w) ==
    {Out(IF p.answer = "ok" THEN SelfPaySettled(r) ELSE r,
         [w EXCEPT !.selfPay[r.invoice] = p.to]) :
       p \in SendPayment(w.selfPay[r.invoice])}

SelfPayStep(r, w) ==
    IF r.selfPaid THEN {Out(r, w)}
    ELSE IF FireKey \in r.done THEN {Out(MarkSettled(r), w)}
    ELSE IF r.invoice = 0 THEN {Out(r, w)}        \* add_invoice failed
    ELSE FireSelfPay(r, w)                        \* or the lookup finds it
         \union (IF w.selfPay[r.invoice] = "settled"
                 THEN {Out(SelfPaySettled(r), w)} ELSE {})

PayKey(r) == <<"reverse_pay_invoice", r.decrements + 1>>

NextK(r) == RequestedK - r.decrements - 1

(* Mutant: the strict fallback mode does not count its decrements.         *)
PayRefusedUncounted(r) ==
    IF NextK(r) >= MinK THEN [r EXCEPT !.decrements = @ + 1]
    ELSE Park(r, "mpp_k_floor_exhausted")

(* A refused payment is tried once more in fewer parts, then parks         *)
(* (anonymize_reverse_mpp_fallback_mode "strict", the default).            *)
PayRefused(r) ==
    IF NextK(r) >= MinK /\ r.decrements < 1
    THEN [r EXCEPT !.decrements = @ + 1]
    ELSE Park(r, "mpp_k_floor_exhausted")

(* The claim goes out with the subprocess, whether or not that errs; its   *)
(* answer is taken for a raw transaction, which the envelope policy wants  *)
(* and a txid is not.                                                      *)
Claim(r, w) ==
    {Out([r EXCEPT !.claimed = @ \/ answered],
         [w EXCEPT !.claim = @ \/ sent]) :
       answered \in {FALSE, kind.claimer = "hex"}, sent \in BOOLEAN}

PollAndClaim(r, w) ==
    IF w.exitPay[r.swap] = "none" THEN {Out(r, w)} ELSE Claim(r, w)

Paid(r, w, p) ==
    LET sent == [w EXCEPT !.exitPay[r.swap] = p.to]
    IN  IF p.answer = "transient" THEN {Out(r, sent)}
        ELSE IF p.answer = "hard" THEN {Out(PayRefused(r), sent)}
        ELSE PollAndClaim([r EXCEPT !.done = @ \union {PayKey(r)}], sent)

PayAndClaim(r, w) ==
    IF PayKey(r) \in r.done THEN PollAndClaim(r, w)
    ELSE UNION {Paid(r, w, p) : p \in SendPayment(w.exitPay[r.swap])}

ReverseStep(r, w) ==
    IF r.swap = 0 THEN {Out(r, w)}                \* create_swap failed
    ELSE IF r.claimed THEN {Out(r, w)}
    ELSE PayAndClaim(r, w)

(* _perform_pay_offer commits in a session of its own, so what it did is   *)
(* done whatever becomes of the tick.  Its errors do not say whether the   *)
(* payment went out.                                                       *)
OfferAnswers(w) ==
    {[outcome |-> "failed", world |-> w]}
    \union (IF w.offers >= 2 THEN {}
            ELSE LET sent == [w EXCEPT !.offers = @ + 1]
                 IN  {[outcome |-> "failed", world |-> sent],
                      [outcome |-> "in_flight", world |-> sent],
                      [outcome |-> "paid",
                       world |-> [sent EXCEPT !.offerPaid = TRUE]]})

OfferStatus == [paid |-> "completed", failed |-> "failed",
                in_flight |-> "exiting"]

(* Mutant: only an outcome with a completed hop key is final.              *)
OfferStepAnew(r, w) ==
    IF r.offer \in {"paid", "failed"} THEN {Out(r, w)}
    ELSE {Out([r EXCEPT !.offer = a.outcome, !.status = OfferStatus[a.outcome]],
              a.world) : a \in OfferAnswers(w)}

(* A paid or failed outcome has its hop key completed with it; one in      *)
(* flight is left to reconciliation.                                       *)
OfferStep(r, w) ==
    IF r.offer # "none" THEN {Out(r, w)}
    ELSE {Out([r EXCEPT !.offer = a.outcome, !.status = OfferStatus[a.outcome]],
              a.world) : a \in OfferAnswers(w)}

(* default_hop_step_fn, less the hops that commit in mid-tick.             *)
HopStep(r, w) ==
    IF r.status = "exiting"
    THEN IF kind.exit = "bolt12_pay" THEN OfferStep(r, w) ELSE ReverseStep(r, w)
    ELSE IF r.status = "funding" /\ kind.source = "lightning-self"
         THEN SelfPayStep(r, w)
         ELSE {Out(r, w)}

-----------------------------------------------------------------------------
(* Observation and dispatch.                                               *)

(* _bolt12_deposit_settled watches a deposit only through the id of a      *)
(* minted offer; every other external deposit is taken for settled.        *)
SourceSettled(r, w) ==
    CASE kind.source = "lightning-self" -> r.status = "created" \/ r.selfPaid
      [] kind.source = "ext-bolt12" -> w.deposited
      [] kind.source \in {"ext-bolt11", "ext-bolt12-unminted"} -> TRUE
      [] kind.source = "onchain" -> FALSE

ForwardDispatch(r, w) ==
    CASE r.status = "created" /\ SourceSettled(r, w) -> "funding"
      [] r.status = "created" /\ kind.source = "onchain" -> "sourcing"
      [] r.status = "funding" /\ SourceSettled(r, w) -> "ln_holding"
      [] r.status = "ln_holding" -> "delaying"
      [] r.status = "delaying" /\ w.ripe -> "exiting"
      [] r.status = "exiting" /\ r.claimed -> "confirming"
      [] r.status = "confirming" /\ r.reorgs >= GiveUpReorgs ->
            "completed_with_reorg_uncertainty"
      [] /\ r.status = "confirming"
         /\ r.reorgs < GiveUpReorgs
         /\ r.confirmations >= MinConfirmations -> "completed"
      [] OTHER -> r.status

(* default_observation_fn reports the reason a row carries, whichever tick *)
(* wrote it.                                                               *)
ReconcileReason(r) ==
    IF r.status \in Terminal \union {Parked} THEN "none" ELSE r.reason

(* decide_tick_action: a reason wins over any progress of the same tick.   *)
TickSession(r, w) ==
    IF r.status \in Terminal THEN r
    ELSE IF ReconcileReason(r) # "none" /\ IsLegal(r.status, Parked)
         THEN Park(r, ReconcileReason(r))
         ELSE [r EXCEPT !.status = ForwardDispatch(r, w)]

-----------------------------------------------------------------------------
(* The per-session loop: a tick holds the row lock from load to commit, so *)
(* it is one step, or two where a commit in the middle releases the lock.  *)

Sleep(r) == loop' = IF r.status \in Terminal THEN Off ELSE Asleep

(* The hop's row goes through the dispatch and the tick commits.           *)
Commit(base, out) ==
    LET r == TickSession(out.row, out.world)
        new == Written(base, r, row)
    IN  /\ row' = new
        /\ world' = Touch(out.world, row, new)
        /\ Sleep(r)
        /\ UNCHANGED past

(* The tick raises: the row is rolled back and what the hop did outside    *)
(* stays.  The last of MaxFails failures in a row parks the session and    *)
(* ends the loop.                                                          *)
Raise(out) ==
    LET last == loop.fails + 1 >= MaxFails
        new == IF last /\ IsLegal(row.status, Parked) /\ row.status \notin Terminal
               THEN Park(row, "bounded_retry_exhausted") ELSE row
    IN  /\ row' = new
        /\ loop' = IF last THEN Off ELSE [Asleep EXCEPT !.fails = loop.fails + 1]
        /\ world' = Touch(out.world, row, new)
        /\ past' = [past EXCEPT !.lost = @ \/ loop.pc = "issued"
                                            \/ out.world.offers > world.offers]

EndTick(base, out) == Commit(base, out) \/ Raise(out)

Tick ==
    /\ loop.pc = "asleep"
    /\ row.status \notin Terminal
    /\ \E out \in HopStep(row, world) : EndTick(row, out)
    /\ UNCHANGED <<kind, request, events>>

(* The loop finds the row terminal.                                        *)
LoopEnds ==
    /\ loop.pc = "asleep"
    /\ row.status \in Terminal
    /\ loop' = Off
    /\ UNCHANGED <<kind, row, request, world, events, past>>

(* The hop commits in the middle of the tick and goes on without the lock. *)
Suspend(pc, r, w) ==
    /\ loop.pc = "asleep"
    /\ row' = r
    /\ world' = Touch(w, row, r)
    /\ loop' = [loop EXCEPT !.pc = pc, !.row = r]
    /\ UNCHANGED <<kind, request, events, past>>

(* Mutant: the minted invoice is left for the tick's own commit.           *)
MintInvoiceUncommitted ==
    /\ loop.pc = "asleep"
    /\ kind.source = "lightning-self"
    /\ row.status = "funding"
    /\ ~row.selfPaid /\ row.invoice = 0
    /\ loop' = [loop EXCEPT !.pc = "minted",
                            !.row = [row EXCEPT !.invoice = Fresh(world.selfPay)]]
    /\ UNCHANGED <<kind, row, request, world, events, past>>

(* The invoice is committed before it is paid.                             *)
MintInvoice ==
    /\ kind.source = "lightning-self"
    /\ row.status = "funding"
    /\ ~row.selfPaid /\ row.invoice = 0
    /\ Suspend("minted", [row EXCEPT !.invoice = Fresh(world.selfPay)],
               world)

(* create_reverse_swap commits its own row on the caller's session.        *)
IssueReverseSwap ==
    /\ kind.exit = "reverse"
    /\ row.status = "exiting"
    /\ row.swap = 0
    /\ world.swaps < Cardinality(Numbers)
    /\ Suspend("issued", row, [world EXCEPT !.swaps = @ + 1])

IssueSubmarineSwap ==
    /\ kind.source = "onchain"
    /\ row.status = "sourcing"
    /\ ~row.submarine
    /\ Suspend("sourced", row, world)

(* The second half works on the copy loaded before the lock was released.  *)
HopRest(pc, r, w) ==
    IF pc = "minted" THEN FireSelfPay(r, w)
    ELSE IF pc = "issued" THEN {Out([r EXCEPT !.swap = w.swaps], w)}
    ELSE {Out([r EXCEPT !.submarine = TRUE], w)}

TickRest ==
    /\ loop.pc \in {"minted", "issued", "sourced"}
    /\ \E out \in HopRest(loop.pc, loop.row, world) : EndTick(loop.row, out)
    /\ UNCHANGED <<kind, request, events>>

-----------------------------------------------------------------------------
(* The reconciliation probe.                                               *)

(* Mutant: a session is taken for wedged only if it has no live loop.      *)
WedgeIfUndriven ==
    /\ loop.pc = "off"
    /\ row.status \notin Terminal \union {Parked}
    /\ world.idle
    /\ row' = Park(row, "wall_clock_budget_exceeded")
    /\ row' # row
    /\ world' = Touch(world, row, row')
    /\ UNCHANGED <<kind, loop, request, events, past>>

(* apply_wedge_detector; for an edge the graph lacks the row keeps its     *)
(* status, and the reason already written to it is committed.              *)
Wedge ==
    /\ row.status \notin Terminal \union {Parked}
    /\ world.idle
    /\ row' = Park(row, "wall_clock_budget_exceeded")
    /\ row' # row
    /\ world' = Touch(world, row, row')
    /\ UNCHANGED <<kind, loop, request, events, past>>

(* Within the budget of its class, and to a status it can go back to.      *)
MayRetry(r) ==
    /\ r.attempts + 1 <= MaxRetriesFor(r.reason)
    /\ IsLegal(Parked, r.pre)

(* A resumed session that has no loop is given one.                        *)
Respawned == IF loop.pc = "off" THEN Asleep ELSE loop

(* attempt_reconciliation, outside its cooldown.                           *)
Attempt ==
    /\ row.status = Parked
    /\ ~IsDeferred(row.reason)
    /\ row' = [row EXCEPT !.attempts = @ + 1,
                          !.status = IF MayRetry(row) THEN row.pre ELSE "failed"]
    /\ loop' = IF MayRetry(row) THEN Respawned ELSE loop
    /\ past' = [past EXCEPT !.resumes = IF MayRetry(row) THEN @ + 1 ELSE @]
    /\ world' = Touch(world, row, row')
    /\ UNCHANGED <<kind, request, events>>

-----------------------------------------------------------------------------
(* The dashboard: each request reads without a lock, decides, and writes.  *)

Ask(op, to, reset) ==
    /\ request = Idle
    /\ to # row.status
    /\ IsLegal(row.status, to)
    /\ Event
    /\ request' = [to |-> to, reset |-> reset, op |-> op]
    /\ UNCHANGED <<kind, row, loop, world, past>>

AskCancel == Ask("cancel", "cancelled", FALSE)

AskRefund == Ask("refund", "refunding", FALSE)

(* The attempt counter is written only if it was not 0 when read.          *)
AskRetry ==
    /\ row.status = Parked
    /\ row.pre # "none"
    /\ Ask("retry", row.pre, row.attempts # 0)

AskFail == row.status = Parked /\ Ask("fail", "failed", FALSE)

AskDrop ==
    /\ row.status = Parked
    /\ IsCancellable(row.reason)
    /\ Ask("drop", "cancelled", FALSE)

Answer ==
    /\ request # Idle
    /\ row' = [row EXCEPT !.status = request.to,
                          !.attempts = IF request.reset THEN 0 ELSE @]
    /\ world' = Touch(world, row, row')
    /\ past' = IF request.op = "retry" THEN [past EXCEPT !.resumes = 0] ELSE past
    /\ request' = Idle
    /\ UNCHANGED <<kind, loop, events>>

-----------------------------------------------------------------------------
(* The chain poll, a restart, and the world.                               *)

(* Mutant: every change of the confirmations counts as a reorg.            *)
ChainPollAnyChange ==
    /\ row.status = "confirming"
    /\ row.confirmations # world.depth
    /\ row' = [row EXCEPT !.confirmations = world.depth, !.reorgs = @ + 1]
    /\ world' = Touch(world, row, row')
    /\ UNCHANGED <<kind, loop, request, events, past>>

(* _chain_poll_tick_run: fewer confirmations than before count as a reorg. *)
ChainPoll ==
    /\ row.status = "confirming"
    /\ row.confirmations # world.depth
    /\ row' = [row EXCEPT !.confirmations = world.depth,
                          !.reorgs = IF world.depth < row.confirmations
                                     THEN @ + 1 ELSE @]
    /\ world' = Touch(world, row, row')
    /\ UNCHANGED <<kind, loop, request, events, past>>

Verdicts == {"healthy", "wall_clock_budget_exceeded",
             "pipeline_schema_below_min_supported"}

(* classify_session: what becomes of a row that is not at rest.            *)
Classifies(verdict) ==
    verdict = "wall_clock_budget_exceeded" => world.idle

(* The process ends with its tick, its requests and its loops.             *)
RestartAtRest ==
    /\ row.status \in Terminal \union {Parked}
    /\ Event
    /\ request' = Idle
    /\ loop' = Off
    /\ past' = [past EXCEPT !.lost = @ \/ loop.pc = "issued"]
    /\ UNCHANGED <<kind, row, world>>

(* run_startup_reconciliation parks the row or spawns its loop; where it   *)
(* cannot park, the session is left with neither.                          *)
Restart(verdict) ==
    /\ row.status \notin Terminal \union {Parked}
    /\ Classifies(verdict)
    /\ Event
    /\ request' = Idle
    /\ row' = IF verdict = "healthy" THEN row ELSE Park(row, verdict)
    /\ loop' = IF verdict = "healthy" THEN Asleep ELSE Off
    /\ world' = Touch(world, row, row')
    /\ past' = [past EXCEPT !.lost = @ \/ loop.pc = "issued"]
    /\ UNCHANGED kind

Happens(w) == world' = w /\ UNCHANGED <<kind, row, loop, request, past>>

Deposit ==
    /\ kind.source = "ext-bolt12" /\ ~world.deposited
    /\ Happens([world EXCEPT !.deposited = TRUE])
    /\ UNCHANGED events

(* The delay window is over.                                               *)
Ripen ==
    /\ row.status = "delaying" /\ ~world.ripe
    /\ Happens([world EXCEPT !.ripe = TRUE])
    /\ UNCHANGED events

(* The idle budget is over; the delay windows in use are shorter than it.  *)
GrowIdle ==
    /\ row.status \notin Terminal \union {Parked} /\ ~world.idle
    /\ row.status = "delaying" => world.ripe
    /\ Happens([world EXCEPT !.idle = TRUE])
    /\ UNCHANGED events

(* The recovery pass of boltz_service pays every swap it finds CREATED,    *)
(* the session's among them, also one the session has lost sight of.       *)
RecoveryPays ==
    /\ Event
    /\ \E n \in 1 .. world.swaps :
          /\ world.exitPay[n] = "none"
          /\ Happens([world EXCEPT !.exitPay[n] = "held"])

(* A payment in flight settles or comes back; Boltz cannot give back what  *)
(* the claim entitled it to.                                               *)
ResolvePayment ==
    /\ \E n \in Numbers, to \in {"settled", "none"} :
          \/ /\ world.selfPay[n] = "held"
             /\ Happens([world EXCEPT !.selfPay[n] = to])
          \/ /\ world.exitPay[n] = "held"
             /\ world.claim => to = "settled"
             /\ Happens([world EXCEPT !.exitPay[n] = to])
    /\ UNCHANGED events

(* Blocks are followed once the row holds the claim.                       *)
Mine ==
    /\ world.claim /\ row.claimed /\ world.depth < MinConfirmations
    /\ Happens([world EXCEPT !.depth = @ + 1,
                   !.deepest = IF world.depth < @ THEN @ ELSE world.depth + 1])
    /\ UNCHANGED events

Reorg ==
    /\ Event
    /\ \E d \in 0 .. world.depth - 1 :
          Happens([world EXCEPT !.depth = d, !.reorgs = @ + 1])

Next ==
    \/ Tick \/ TickRest \/ LoopEnds
    \/ MintInvoice \/ IssueReverseSwap \/ IssueSubmarineSwap
    \/ Wedge \/ Attempt \/ ChainPoll
    \/ AskCancel \/ AskRefund \/ AskRetry \/ AskFail \/ AskDrop \/ Answer
    \/ RestartAtRest \/ \E verdict \in Verdicts : Restart(verdict)
    \/ Deposit \/ Ripen \/ GrowIdle \/ RecoveryPays \/ ResolvePayment
    \/ Mine \/ Reorg

(* The event loop schedules every started tick and request, the recurring  *)
(* scheduler every probe, and time passes.                                 *)
Spec ==
    /\ Init /\ [][Next]_vars
    /\ WF_vars(Tick \/ MintInvoice \/ IssueReverseSwap \/ IssueSubmarineSwap)
    /\ WF_vars(TickRest) /\ WF_vars(Answer)
    /\ WF_vars(Wedge) /\ WF_vars(Attempt)
    /\ WF_vars(Ripen) /\ WF_vars(GrowIdle)

-----------------------------------------------------------------------------
(* Properties.                                                             *)

Statuses == DOMAIN Transitions

Payment == {"none", "held", "settled"}

Rows == [status : Statuses, pre : Statuses \union {"none"},
         reason : Reasons \union {"none"}, attempts : Nat,
         invoice : 0 .. 1, selfPaid : BOOLEAN, submarine : BOOLEAN,
         swap : {0} \union Numbers, decrements : 0 .. 1,
         offer : {"none", "paid", "in_flight", "failed"},
         done : SUBSET ({"ln_self_pay_fire", "reverse_pay_invoice"} \X {1, 2}),
         claimed : BOOLEAN, confirmations : 0 .. MinConfirmations,
         reorgs : Nat]

(* Every row the database holds or the loop carries is well formed, with   *)
(* at most one decrement of the payment parts (strict mode, reverse.py).   *)
TypeOK ==
    /\ row \in Rows /\ loop.row \in Rows
    /\ loop.pc \in {"asleep", "minted", "issued", "sourced", "off"}
    /\ loop.fails \in 0 .. MaxFails - 1
    /\ request.to \in Statuses \union {"none"}
    /\ world.selfPay \in [Numbers -> Payment]
    /\ world.exitPay \in [Numbers -> Payment]

(* However often ticks are rolled back, requests race them or the process  *)
(* restarts, at most one self-pay invoice of the session is ever paid: it  *)
(* is committed to the row before it is sent (ln_self_pay.py).             *)
SelfPaidOnce == Cardinality({n \in Numbers : world.selfPay[n] # "none"}) <= 1

(* The exit is paid for a second time, as another payment of the offer or  *)
(* a second swap, only after a tick that had paid or made the first was    *)
(* rolled back: what a tick recorded, an in_flight outcome included, is    *)
(* never done again (bolt12_pay.py, reverse.py).                           *)
RepaidOnlyIfLost ==
    \/ past.lost
    \/ /\ world.offers <= 1
       /\ Cardinality({n \in Numbers : world.exitPay[n] # "none"}) <= 1

(* completed means that the claim was min_confirmations deep or that the   *)
(* offer was paid; completed_with_reorg_uncertainty means that the chain   *)
(* really dropped the claim's blocks that often.                           *)
CompletedIsEarned ==
    /\ row.status = "completed" =>
           IF kind.exit = "reverse" THEN world.deepest >= MinConfirmations
           ELSE world.offerPaid
    /\ row.status = "completed_with_reorg_uncertainty" =>
           world.reorgs >= GiveUpReorgs

(* Where the wallet checks for the funds at all, nothing is paid at the    *)
(* exit before they arrived: a session that pays itself, or whose BOLT 12  *)
(* offer was minted, reaches exiting, directly or out of reconciliation,   *)
(* only after its payment settled.  Nothing is said of the sessions        *)
(* observe_ext_lightning takes for settled at once: a BOLT 11 deposit, and *)
(* a BOLT 12 one whose offer could not be minted.                          *)
SpendsOnlyWhatArrived ==
    world.offers > 0 \/ world.exitPay # NewWorld.exitPay =>
        CASE kind.source = "lightning-self" ->
               \E n \in Numbers : world.selfPay[n] = "settled"
          [] kind.source = "ext-bolt12" -> world.deposited
          [] OTHER -> TRUE

(* The probe resumes a session at most as often as its class allows,       *)
(* however often it is parked again and for whatever reasons: the budget   *)
(* bounds the retries of its life, until the operator grants a new one.    *)
RetriesAreBounded ==
    past.resumes <= (IF MaxRetries < MaxRetriesSemi
                     THEN MaxRetriesSemi ELSE MaxRetries)

(* A session that left created comes to an end, or is parked for a reason  *)
(* that is left to the operator, whatever its hops, payments and requests  *)
(* do: no interleaving of loop, probe and dashboard leaves one live with   *)
(* nothing to drive or park it.                                            *)
EverySessionEnds ==
    row.status # "created" ~>
        row.status \in Terminal \/ (row.status = Parked /\ IsDeferred(row.reason))
=============================================================================
