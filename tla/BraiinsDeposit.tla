--------------------------- MODULE BraiinsDeposit ---------------------------
(***************************************************************************)
(* One deposit session: an orchestrator that turns Lightning or on-chain   *)
(* funds, the wallet's own or a payer's, into one round on-chain payment.  *)
(* The dashboard's polling, the beat schedule and startup recovery call    *)
(* advance() on it; the user cancels, retries and asks for refunds.        *)
(*                                                                         *)
(* advance() takes the row FOR UPDATE SKIP LOCKED, but works on the copy   *)
(* its caller has loaded into the ORM session before, which the locking    *)
(* SELECT does not refresh; and the lock ends with the first commit, while *)
(* a handler commits several times.  A commit writes the attributes that   *)
(* differ from the copy.  Reverse swaps are those of SwapPromise.          *)
(***************************************************************************)
EXTENDS Naturals, FiniteSets, SwapPromise

CONSTANTS
    Drivers,      \* callers of advance()
    Operators,    \* requests of the user that may run at a time
    Nobody,
    Sources,      \* the source kinds and strategies considered: see SourceKinds
    Subs,         \* submarine swaps that may exist
    MaxEvents     \* bound: requests of the user, crashes and overlapping handlers

SourceKinds == {"lightning", "onchain", "onchain_channel", "ext_lightning", "ext_onchain",
                "ext_onchain_channel"}

Workers == Drivers \cup Operators

ASSUME DepositAssumption ==
    /\ Swaps \subseteq Nat \ {0} /\ Subs \subseteq Nat \ {0}
    /\ Nobody \notin Workers
    /\ Drivers \cap Operators = {}
    /\ Sources \subseteq SourceKinds
    /\ MaxEvents \in Nat

VARIABLES
    kind,     \* source_kind, with funding_strategy
    row,      \* the session's row
    lock,     \* the worker that holds the row FOR UPDATE
    task,     \* task[w]: where w is, and its copy of the row
    use,      \* use[i]: what the coin of swap i was spent on
    paid,     \* paid[i]: the invoice of swap i was paid, by whoever it was
    subs,     \* submarine swaps: the row, Boltz's state, the lockups sent
    intake,   \* what has been deposited at the intake address, and its refund
    channel,  \* the channel opened for the session
    overlap,  \* two workers were in a handler at a time, or one had a stale copy
    lost,     \* a lockup or an opening went out, and the row will not tell
    events    \* so far

World == <<swaps, use, paid, subs, intake, channel>>
Past == <<overlap, lost, events>>
vars == <<kind, row, lock, task, World, Past>>

Terminal == {"completed", "refunded", "failed", "cancelled"}
Statuses ==
    {"created", "awaiting_ln_funds", "awaiting_onchain_funds", "submarine_swapping",
     "opening_channel", "swapping", "funded", "sending", "awaiting_fee_reduction", "broadcast"}
    \cup Terminal

\* The entries of status_history that the dispatch looks for.
Remembered == {"awaiting_ln_funds", "awaiting_onchain_funds", "submarine_swapping"}

NewRow ==
    [status |-> "created", status_history |-> {}, submarine_payment_hash |-> 0,
     submarine_boltz_swap_id |-> 0, submarine_funding_txid |-> FALSE, channel_open_txid |-> FALSE,
     boltz_swap_id |-> 0, fresh_address |-> 0, fresh_utxo |-> 0, send_txid |-> 0,
     accept_underpay |-> FALSE, received |-> "none", refund_txid |-> FALSE]

Idle == [pc |-> "idle", copy |-> NewRow, made |-> 0, short |-> FALSE]

NoSub == [status |-> "none", boltz |-> "open", seen |-> "open", invoice |-> 0, lockups |-> 0]

\* create_session has committed the row.
Init ==
    /\ kind \in Sources
    /\ row = NewRow
    /\ lock = Nobody
    /\ task = [w \in Workers |-> Idle]
    /\ swaps = [i \in Swaps |-> NoSwap]
    /\ use = [i \in Swaps |-> "unspent"]
    /\ paid = [i \in Swaps |-> FALSE]
    /\ subs = [j \in Subs |-> NoSub]
    /\ intake = [deposit |-> "none", refunded |-> FALSE]
    /\ channel = [opened |-> 0, active |-> FALSE]
    /\ overlap = FALSE /\ lost = FALSE
    /\ events = 0

-----------------------------------------------------------------------------
(* Steps every handler is made of.                                         *)

InHandler(w) == task[w].pc \notin {"idle", "loaded"}

\* record_transition
Moved(r, status) ==
    [r EXCEPT !.status = status, !.status_history = @ \cup ({status} \cap Remembered)]

\* await db.commit(): waits for the row lock, writes what differs from the
\* copy and releases the lock.  The history is one value: a transition writes
\* all of it.
CommitTo(w, new, next) ==
    LET old == task[w].copy
        written(f) == IF f = "status_history" THEN new.status # old.status ELSE new[f] # old[f]
    IN /\ lock \in {Nobody, w}
       /\ row' = [f \in DOMAIN row |-> IF written(f) THEN new[f] ELSE row[f]]
       /\ lock' = Nobody
       /\ task' = [task EXCEPT ![w] = next]

Commit(w, new, pc) ==
    CommitTo(w, new, IF pc = "idle" THEN Idle ELSE [task[w] EXCEPT !.pc = pc, !.copy = new])

\* A BraiinsDepositError: the session is FAILED.
Fail(w, new) == Commit(w, Moved(new, "failed"), "idle")

\* Any other exception, or nothing to do: the attributes modelled here stay.
Leave(w) ==
    /\ lock' = IF lock = w THEN Nobody ELSE lock
    /\ task' = [task EXCEPT ![w] = Idle]
    /\ UNCHANGED row

Goto(w, pc) == task' = [task EXCEPT ![w].pc = pc]

At(w, pc) == task[w].pc = pc

\* The next row of boltz_swaps.
Unused(i) == swaps[i] = NoSwap /\ \A k \in Swaps : k < i => swaps[k] # NoSwap
UnusedSub(j) == subs[j] = NoSub /\ \A k \in Subs : k < j => subs[k] # NoSub

\* Two handlers at a time, or a copy that the row has moved away from.
Overlaps(w, copy) == copy # row \/ \E v \in Workers \ {w} : InHandler(v)

Happens == events < MaxEvents /\ events' = events + 1

-----------------------------------------------------------------------------
(* advance()                                                               *)

\* recover_pending_sessions and session_detail load the row before they call
\* advance(): a pass over many sessions comes to this one much later.
Load(w) ==
    /\ w \in Drivers
    /\ At(w, "idle")
    /\ row.status \notin {"completed", "refunded", "cancelled"}
    /\ Happens
    /\ task' = [task EXCEPT ![w].pc = "loaded", ![w].copy = row]
    /\ UNCHANGED <<kind, row, lock, World, overlap, lost>>

\* Where CREATED leads to.
CreatedHandler(r) ==
    LET has(s) == s \in r.status_history
        channelled == kind \in {"onchain_channel", "ext_onchain_channel"}
    IN IF kind = "ext_lightning" /\ ~has("awaiting_ln_funds") THEN "create"
       ELSE IF kind \in {"ext_onchain", "ext_onchain_channel"} /\ ~has("awaiting_onchain_funds")
       THEN "intake"
       ELSE IF channelled THEN (IF r.channel_open_txid THEN "create" ELSE "open")
       ELSE IF kind \in {"onchain", "ext_onchain"} /\ ~has("submarine_swapping") THEN "invoice"
       ELSE "create"

\* _advance_failed_self_heal retries refunds of the wallet's own swaps only.
Heals(r) ==
    /\ kind \in {"lightning", "onchain", "onchain_channel"}
    /\ r.submarine_boltz_swap_id # 0 /\ ~r.refund_txid
    /\ subs[r.submarine_boltz_swap_id].status # "refunded"
    /\ subs[r.submarine_boltz_swap_id].seen = "failed"

Handler(r) ==
    CASE r.status = "created" -> CreatedHandler(r)
      [] r.status = "failed" -> IF Heals(r) THEN "heal" ELSE "idle"
      [] r.status \in {"completed", "refunded", "cancelled"} -> "idle"
      [] OTHER -> r.status

\* A row that has been CREATED or SUBMARINE_SWAPPING for long is marked, once,
\* by a commit that ends the lock before the handler starts.
Enter(w, copy) ==
    /\ lock = Nobody
    /\ Handler(copy) # "idle"
    /\ task' = [task EXCEPT ![w].pc = Handler(copy), ![w].copy = copy]
    /\ overlap' = (overlap \/ Overlaps(w, copy))
    /\ lock' = w \/ (copy.status \in {"created", "submarine_swapping"} /\ lock' = Nobody)

\* advance() with the copy the caller has.  SKIP LOCKED: a caller that does not
\* get the lock gives up.
Advance(w) ==
    /\ At(w, "loaded")
    /\ Enter(w, task[w].copy) \/ (Leave(w) /\ UNCHANGED overlap)
    /\ UNCHANGED <<kind, row, World, lost, events>>

\* advance() right after the row was loaded.
AdvanceNow(w) ==
    /\ w \in Drivers
    /\ At(w, "idle")
    /\ Enter(w, row)
    /\ IF \E v \in Workers : InHandler(v) THEN Happens ELSE UNCHANGED events
    /\ UNCHANGED <<kind, row, World, lost>>

\* _advance_created and _advance_created_ext_lightning: a fresh address, and a
\* reverse swap to it, whose creation commits.  Without a quote, an address or
\* a swap the session fails.
CreateSwap(w) ==
    /\ At(w, "create")
    /\ \/ \E i \in Swaps :
             /\ Unused(i)
             /\ swaps' = [swaps EXCEPT ![i] = NewSwap]
             /\ lock \in {Nobody, w} /\ lock' = Nobody
             /\ row' = [row EXCEPT !.fresh_address = i]
             /\ task' = [task EXCEPT ![w].pc = "link", ![w].copy.fresh_address = i, ![w].made = i]
       \/ \E fresh \in {task[w].copy.fresh_address, 0} :
             /\ Fail(w, [task[w].copy EXCEPT !.fresh_address = fresh])
             /\ UNCHANGED swaps
    /\ UNCHANGED <<kind, use, paid, subs, intake, channel, Past>>

\* The session is linked to the swap it made.
LinkSwap(w) ==
    /\ At(w, "link")
    /\ LET to == IF kind = "ext_lightning" THEN "awaiting_ln_funds" ELSE "swapping"
       IN Commit(w, Moved([task[w].copy EXCEPT !.boltz_swap_id = task[w].made], to), "idle")
    /\ UNCHANGED <<kind, World, Past>>

\* _advance_created_ext_onchain
IssueAddress(w) ==
    /\ At(w, "intake")
    /\ \/ Commit(w, Moved(task[w].copy, "awaiting_onchain_funds"), "idle")
       \/ Fail(w, task[w].copy)
    /\ UNCHANGED <<kind, World, Past>>

-----------------------------------------------------------------------------
(* On-chain funds to Lightning: a submarine swap, or a channel.            *)

Settled(invoice) == \E j \in Subs : subs[j].invoice = invoice /\ subs[j].boltz = "paid"

\* Invoices nothing refers to yet.
NewInvoices ==
    Subs \ ({row.submarine_payment_hash} \cup {task[w].copy.submarine_payment_hash : w \in Workers}
             \cup {subs[j].invoice : j \in Subs})

\* As if a recorded funding were not looked at.
MakeInvoiceForgetful(w) ==
    LET r == task[w].copy
    IN /\ At(w, "invoice")
       /\ \/ /\ r.submarine_payment_hash = 0
             /\ \E n \in NewInvoices : Commit(w, [r EXCEPT !.submarine_payment_hash = n], "subswap")
          \/ /\ r.submarine_payment_hash # 0
             /\ Goto(w, IF r.submarine_boltz_swap_id = 0 THEN "subswap" ELSE "fund")
             /\ UNCHANGED <<row, lock>>
       /\ UNCHANGED <<kind, World, Past>>

\* _advance_created_onchain goes on where an earlier pass left off.
MakeInvoice(w) ==
    LET r == task[w].copy
    IN /\ At(w, "invoice")
       /\ \/ /\ r.submarine_payment_hash = 0
             /\ \E n \in NewInvoices :
                   /\ \A m \in NewInvoices : n <= m
                   /\ Commit(w, [r EXCEPT !.submarine_payment_hash = n], "subswap")
          \/ /\ r.submarine_payment_hash # 0
             /\ Goto(w, IF r.submarine_boltz_swap_id = 0 THEN "subswap"
                        ELSE IF r.submarine_funding_txid THEN "locked_up" ELSE "fund")
             /\ UNCHANGED <<row, lock>>
          \/ Fail(w, r)
       /\ UNCHANGED <<kind, World, Past>>

\* create_submarine_swap commits the swap's row, before the session knows it.
CreateSubmarine(w) ==
    /\ At(w, "subswap")
    /\ \/ \E j \in Subs :
             /\ UnusedSub(j)
             /\ subs' = [subs EXCEPT ![j].status = "created",
                                     ![j].invoice = task[w].copy.submarine_payment_hash]
             /\ lock \in {Nobody, w} /\ lock' = Nobody
             /\ task' = [task EXCEPT ![w].pc = "sublink", ![w].made = j]
             /\ UNCHANGED row
       \/ Fail(w, task[w].copy) /\ UNCHANGED subs
    /\ UNCHANGED <<kind, swaps, use, paid, intake, channel, Past>>

LinkSubmarine(w) ==
    /\ At(w, "sublink")
    /\ Commit(w, [task[w].copy EXCEPT !.submarine_boltz_swap_id = task[w].made], "fund")
    /\ UNCHANGED <<kind, World, Past>>

\* The lockup is funded, unless the inbound checks refuse: then the swap is
\* cancelled.  An error of send_coins does not say that nothing was sent.
FundLockup(w) ==
    LET j == task[w].copy.submarine_boltz_swap_id
        sent == subs' = [subs EXCEPT ![j].lockups = @ + 1]
    IN /\ At(w, "fund")
       /\ subs[j].lockups < 2
       /\ \/ sent /\ Goto(w, "funding_sent") /\ UNCHANGED <<row, lock>>
          \/ (sent \/ UNCHANGED subs) /\ Fail(w, task[w].copy)
          \/ /\ subs' = [subs EXCEPT ![j].status = IF @ = "created" THEN "cancelled" ELSE @]
             /\ lock \in {Nobody, w} /\ lock' = Nobody
             /\ Goto(w, "refused")
             /\ UNCHANGED row
       /\ UNCHANGED <<kind, swaps, use, paid, intake, channel, Past>>

Refused(w) ==
    /\ At(w, "refused")
    /\ Fail(w, task[w].copy)
    /\ UNCHANGED <<kind, World, Past>>

RecordFunding(w) ==
    /\ At(w, "funding_sent")
    /\ Commit(w, [task[w].copy EXCEPT !.submarine_funding_txid = TRUE], "locked_up")
    /\ UNCHANGED <<kind, World, Past>>

StartSubmarine(w) ==
    /\ At(w, "locked_up")
    /\ Commit(w, Moved(task[w].copy, "submarine_swapping"), "idle")
    /\ UNCHANGED <<kind, World, Past>>

\* _advance_submarine_swapping: the wallet's invoice is settled, and the
\* reverse swap follows; or Boltz is asked.  _update_submarine_boltz_status
\* commits, whatever the answer, unless there is none; when Boltz has given up
\* it first asks for the lockup back, and the commit after that may fail.  A
\* session gets there with its submarine_payment_hash.
PollSubmarine(w) ==
    LET r == task[w].copy
        j == r.submarine_boltz_swap_id
        answered(status, seen, boltz) ==
            /\ subs' = [subs EXCEPT ![j].status = status, ![j].seen = seen, ![j].boltz = boltz]
            /\ lock \in {Nobody, w} /\ lock' = Nobody
            /\ Goto(w, "ended")
            /\ UNCHANGED row
    IN /\ At(w, "submarine_swapping")
       /\ \/ /\ Settled(r.submarine_payment_hash)
             /\ Commit(w, Moved(r, "created"), "create")
             /\ UNCHANGED subs
          \/ /\ r.submarine_boltz_swap_id = 0
             /\ Leave(w)
             /\ UNCHANGED subs
          \/ /\ r.submarine_boltz_swap_id # 0
             /\ \/ Goto(w, "ended") /\ UNCHANGED <<row, lock, subs>>
                \/ /\ subs[j].boltz \in {"open", "paid"}
                   /\ answered(subs[j].status, subs[j].seen, subs[j].boltz)
                \/ /\ subs[j].boltz = "refunded"
                   /\ answered("refunded", "refunded", "refunded")
                \/ /\ subs[j].boltz \in {"failed", "returned"} /\ subs[j].status = "refunded"
                   /\ answered("refunded", "failed", subs[j].boltz)
                \/ /\ subs[j].boltz \in {"failed", "returned"} /\ subs[j].status # "refunded"
                   /\ answered("failed", "failed", subs[j].boltz)
                \/ /\ subs[j].boltz = "failed" /\ subs[j].lockups > 0
                   /\ subs[j].status # "refunded"
                   /\ \/ answered("refunded", "failed", "returned")
                      \/ subs' = [subs EXCEPT ![j].boltz = "returned"] /\ Leave(w)
       /\ UNCHANGED <<kind, swaps, use, paid, intake, channel, Past>>

SubmarineEnded(w) ==
    LET r == task[w].copy
        status == subs[r.submarine_boltz_swap_id].status
    IN /\ At(w, "ended")
       /\ \/ /\ status = "refunded"
             /\ LET ours == subs[r.submarine_boltz_swap_id].boltz = "returned"
                IN Commit(w, [Moved(r, "refunded") EXCEPT !.refund_txid = @ \/ ours], "idle")
          \/ status \in {"failed", "cancelled"} /\ Fail(w, r)
          \/ status \notin {"refunded", "failed", "cancelled"} /\ Leave(w)
       /\ UNCHANGED <<kind, World, Past>>

\* _advance_created_onchain_via_channel tries one peer after another until a
\* channel opens.  An attempt that errs is taken to have opened nothing, and
\* the next peer is tried ("reopen"), or the session fails when there is none;
\* the error may hide an opening.  A session none of whose peers can be reached
\* stays as it is.
OpenChannel(w) ==
    LET opened == channel.opened < 2 /\ channel' = [channel EXCEPT !.opened = @ + 1]
        erred == opened \/ UNCHANGED channel
    IN /\ task[w].pc \in {"open", "reopen"}
       /\ \/ opened /\ Goto(w, "opened") /\ UNCHANGED <<row, lock, lost>>
          \/ erred /\ Goto(w, "reopen") /\ lost' = (lost \/ channel' # channel) /\ UNCHANGED <<row, lock>>
          \/ erred /\ Fail(w, task[w].copy) /\ UNCHANGED lost
          \/ At(w, "open") /\ Leave(w) /\ UNCHANGED <<channel, lost>>
       /\ UNCHANGED <<kind, swaps, use, paid, subs, intake, overlap, events>>

RecordChannel(w) ==
    /\ At(w, "opened")
    /\ Commit(w, Moved([task[w].copy EXCEPT !.channel_open_txid = TRUE], "opening_channel"), "idle")
    /\ UNCHANGED <<kind, World, Past>>

\* _advance_opening_channel; a session gets there with its channel_open_txid.
PollChannel(w) ==
    /\ At(w, "opening_channel")
    /\ \/ channel.active /\ Commit(w, Moved(task[w].copy, "created"), "create")
       \/ Leave(w)
    /\ UNCHANGED <<kind, World, Past>>

-----------------------------------------------------------------------------
(* Funds from outside.                                                     *)

\* _advance_awaiting_ln_funds advances the swap itself, which commits; then it
\* reads the result.
PollInvoice(w) ==
    LET r == task[w].copy
    IN /\ At(w, "awaiting_ln_funds")
       /\ \/ r.boltz_swap_id = 0 /\ Fail(w, r)
          \/ r.boltz_swap_id # 0 /\ Leave(w)
          \/ /\ r.boltz_swap_id # 0
             /\ lock \in {Nobody, w} /\ lock' = Nobody
             /\ Goto(w, "paid")
             /\ UNCHANGED row
       /\ UNCHANGED <<kind, World, Past>>

\* An invoice that expired unpaid cancels the session.
InvoiceRead(w) ==
    LET r == task[w].copy
        s == swaps[r.boltz_swap_id]
    IN /\ At(w, "paid")
       /\ \/ s.status = "refunded" /\ Commit(w, Moved(r, "refunded"), "idle")
          \/ s.status \in {"failed", "cancelled"} /\ Commit(w, Moved(r, "cancelled"), "idle")
          \/ s.status = "failed" /\ Fail(w, r)
          \/ /\ s.status \notin {"refunded", "failed", "cancelled"} /\ s.claim_txid
             /\ Commit(w, Moved(r, "swapping"), "idle")
          \/ /\ s.status \notin {"refunded", "failed", "cancelled"} /\ ~s.claim_txid
             /\ Leave(w)
       /\ UNCHANGED <<kind, World, Past>>

\* _advance_awaiting_onchain_funds: what the wallet lists as confirmed at the
\* intake address; it may not list all of it.
Listed ==
    CASE intake.refunded \/ intake.deposit = "none" -> {"none"}
      [] intake.deposit = "part" -> {"none", "part"}
      [] OTHER -> {"none", "part", "full"}

PollIntake(w) ==
    /\ At(w, "awaiting_onchain_funds")
    /\ \/ \E sum \in Listed :
             Commit(w, [task[w].copy EXCEPT !.received = sum], IF sum = "full" THEN "received" ELSE "idle")
       \/ Leave(w)
    /\ UNCHANGED <<kind, World, Past>>

IntakeReceived(w) ==
    /\ At(w, "received")
    /\ Commit(w, Moved(task[w].copy, "created"), "idle")
    /\ UNCHANGED <<kind, World, Past>>

-----------------------------------------------------------------------------
(* From the reverse swap's coin to the deposit.                            *)

Unspent(i) == i # 0 /\ swaps[i].coin = "claimed" /\ use[i] = "unspent"

\* The coin _project_funded_utxo finds: at the session's address and, when the
\* swap knows its claim, made by it.
Found(r) ==
    /\ Unspent(r.fresh_address)
    /\ swaps[r.boltz_swap_id].claim_txid => r.fresh_address = r.boltz_swap_id

\* _advance_swapping.  An outpoint with too few confirmations is recorded, and
\* the session waits.  A missing claim_txid is filled in with the coin just
\* found, which is the one later passes find without it.
PollSwap(w) ==
    LET r == task[w].copy
        s == swaps[r.boltz_swap_id]
        funded == [r EXCEPT !.fresh_utxo = r.fresh_address]
    IN /\ At(w, "swapping")
       /\ \/ r.boltz_swap_id = 0 /\ Fail(w, r)
          \/ /\ r.boltz_swap_id # 0
             /\ \/ /\ s.status = "completed" /\ Found(r)
                   /\ Commit(w, funded, "idle") \/ Commit(w, Moved(funded, "funded"), "idle")
                \/ s.status = "refunded" /\ Commit(w, Moved(r, "refunded"), "idle")
                \/ s.status \in {"failed", "cancelled"} /\ Fail(w, r)
                \/ s.status \notin {"refunded", "failed", "cancelled"} /\ Leave(w)
       /\ UNCHANGED <<kind, World, Past>>

\* _park_for_fee_reduction
Park(w) ==
    Commit(w, [Moved(task[w].copy, "awaiting_fee_reduction") EXCEPT !.accept_underpay = FALSE], "idle")

\* _advance_funded, up to the commit of SENDING: at today's fee the coin does
\* not cover a send at all, arrives short of the amount, or suffices.
PrepareSend(w) ==
    LET r == task[w].copy
        sending == [Moved(r, "sending") EXCEPT !.accept_underpay = FALSE]
    IN /\ At(w, "funded")
       /\ \/ r.fresh_utxo = 0 /\ Fail(w, r)
          \/ r.fresh_utxo # 0 /\ Park(w)
          \/ /\ r.fresh_utxo # 0
             /\ \E short \in {FALSE, r.accept_underpay} :
                   CommitTo(w, sending, [task[w] EXCEPT !.pc = "send", !.copy = sending, !.short = short])
       /\ UNCHANGED <<kind, World, Past>>

\* send_coins with the outpoint pinned.  A transient error says nothing about
\* the broadcast and leaves SENDING; any other one fails the session.
Send(w) ==
    LET i == task[w].copy.fresh_utxo
        broadcast == Unspent(i) /\ use' = [use EXCEPT ![i] = IF task[w].short THEN "short" ELSE "deposit"]
    IN /\ At(w, "send")
       /\ \/ broadcast /\ Goto(w, "sent") /\ UNCHANGED <<row, lock>>
          \/ (broadcast \/ UNCHANGED use) /\ Leave(w)
          \/ UNCHANGED use /\ (Park(w) \/ Fail(w, task[w].copy))
       /\ UNCHANGED <<kind, swaps, paid, subs, intake, channel, Past>>

RecordSend(w) ==
    /\ At(w, "sent")
    /\ Commit(w, Moved([task[w].copy EXCEPT !.send_txid = task[w].copy.fresh_utxo], "broadcast"), "idle")
    /\ UNCHANGED <<kind, World, Past>>

\* As if an outpoint that is gone were taken for sent.
ReconcileBelieving(w) ==
    LET r == task[w].copy
        i == r.fresh_utxo
    IN /\ At(w, "sending")
       /\ \/ i = 0 /\ Fail(w, r)
          \/ i # 0 /\ Unspent(i) /\ Commit(w, Moved(r, "funded"), "idle")
          \/ i # 0 /\ ~Unspent(i) /\ Commit(w, Moved([r EXCEPT !.send_txid = i], "broadcast"), "idle")
       /\ UNCHANGED <<kind, World, Past>>

\* As if an outpoint that is gone made the session start over.
ReconcileRestarting(w) ==
    LET r == task[w].copy
        i == r.fresh_utxo
    IN /\ At(w, "sending")
       /\ \/ i = 0 /\ Fail(w, r)
          \/ i # 0 /\ Unspent(i) /\ Commit(w, Moved(r, "funded"), "idle")
          \/ i # 0 /\ ~Unspent(i) /\ Commit(w, Moved([r EXCEPT !.fresh_utxo = 0], "created"), "idle")
       /\ UNCHANGED <<kind, World, Past>>

\* _reconcile_after_send_crash: an outpoint that is still there is sent again;
\* one that is gone must have gone to the destination, in full.  The list of
\* transactions may be unavailable.
Reconcile(w) ==
    LET r == task[w].copy
        i == r.fresh_utxo
    IN /\ At(w, "sending")
       /\ \/ i = 0 /\ Fail(w, r)
          \/ i # 0 /\ Leave(w)
          \/ i # 0 /\ Unspent(i) /\ Commit(w, Moved(r, "funded"), "idle")
          \/ /\ i # 0 /\ use[i] = "deposit"
             /\ Commit(w, Moved([r EXCEPT !.send_txid = i], "broadcast"), "idle")
          \/ i # 0 /\ ~Unspent(i) /\ Fail(w, r)
       /\ UNCHANGED <<kind, World, Past>>

\* _advance_awaiting_fee_reduction: fees have dropped, or have not.
CheckFees(w) ==
    /\ At(w, "awaiting_fee_reduction")
    /\ \/ /\ task[w].copy.fresh_utxo # 0
          /\ Commit(w, [Moved(task[w].copy, "funded") EXCEPT !.accept_underpay = FALSE], "idle")
       \/ Leave(w)
    /\ UNCHANGED <<kind, World, Past>>

\* As if the send were recorded under a status the row does not know.
PollConfirmationsUnknown(w) ==
    /\ At(w, "broadcast")
    /\ Commit(w, Moved(task[w].copy, "confirmed"), "idle")
    /\ UNCHANGED <<kind, World, Past>>

\* _advance_broadcast
PollConfirmations(w) ==
    /\ At(w, "broadcast")
    /\ \/ task[w].copy.send_txid = 0 /\ Fail(w, task[w].copy)
       \/ task[w].copy.send_txid # 0 /\ Commit(w, Moved(task[w].copy, "completed"), "idle")
       \/ task[w].copy.send_txid # 0 /\ Leave(w)
    /\ UNCHANGED <<kind, World, Past>>

-----------------------------------------------------------------------------
(* Refunds of a submarine lockup, and the user's requests.                 *)

\* Boltz co-signs, or the timeout has passed; only for a swap it has not paid.
Refundable(j) == subs[j].boltz = "failed" /\ subs[j].lockups > 0

\* _advance_failed_self_heal and recover_submarine_refund: broadcast, then
\* record the refund on both rows.
RefundLockup(w) ==
    LET j == task[w].copy.submarine_boltz_swap_id
    IN /\ At(w, "heal")
       /\ \/ /\ Refundable(j)
             /\ subs' = [subs EXCEPT ![j].boltz = "returned"]
             /\ Goto(w, "lockup_refunded")
             /\ UNCHANGED <<row, lock>>
          \/ Leave(w) /\ UNCHANGED subs
       /\ UNCHANGED <<kind, swaps, use, paid, intake, channel, Past>>

RecordRefund(w) ==
    LET r == task[w].copy
    IN /\ At(w, "lockup_refunded")
       /\ subs' = [subs EXCEPT ![r.submarine_boltz_swap_id].status = "refunded"]
       /\ Commit(w, [Moved(r, "refunded") EXCEPT !.refund_txid = TRUE], "idle")
       /\ UNCHANGED <<kind, swaps, use, paid, intake, channel, Past>>

\* A request reads the row under the lock.
Asked(w, pc) ==
    /\ w \in Operators
    /\ At(w, "idle")
    /\ lock = Nobody
    /\ Happens
    /\ overlap' = (overlap \/ Overlaps(w, row))
    /\ lock' = w
    /\ task' = [task EXCEPT ![w].pc = pc, ![w].copy = row]
    /\ UNCHANGED <<kind, row, World, lost>>

\* As if any session could be cancelled.
AskCancelAny(w) == Asked(w, "cancel")

\* cancel_session: what may be cancelled, and what becomes of the session.
AskCancel(w) ==
    /\ \/ row.status \in {"created", "awaiting_ln_funds", "awaiting_onchain_funds"}
       \/ row.status = "swapping" /\ row.boltz_swap_id # 0 /\ swaps[row.boltz_swap_id].status = "created"
    /\ Asked(w, IF row.boltz_swap_id # 0 /\ row.status \in {"awaiting_ln_funds", "swapping"}
                   /\ swaps[row.boltz_swap_id].status = "created"
                THEN "cancel_swap" ELSE "cancel")

\* cancel_swap commits, which ends the lock.
CancelSwap(w) ==
    LET i == task[w].copy.boltz_swap_id
    IN /\ At(w, "cancel_swap")
       /\ swaps' = [swaps EXCEPT ![i].status = "cancelled"]
       /\ lock \in {Nobody, w} /\ lock' = Nobody
       /\ Goto(w, "cancel")
       /\ UNCHANGED <<kind, row, use, paid, subs, intake, channel, Past>>

Cancel(w) ==
    /\ At(w, "cancel")
    /\ LET r == task[w].copy
           kept == r.status = "awaiting_onchain_funds" /\ r.received # "none"
       IN Commit(w, Moved(r, IF kept THEN "failed" ELSE "cancelled"), "idle")
    /\ UNCHANGED <<kind, World, Past>>

\* regenerate_ext_lightning_invoice: a new swap to a new address in place of
\* the unpaid one, which is cancelled first.
AskRegenerate(w) ==
    /\ kind = "ext_lightning"
    /\ row.status = "awaiting_ln_funds" /\ row.boltz_swap_id # 0
    /\ swaps[row.boltz_swap_id].status = "created"
    /\ Asked(w, "regenerate")

Regenerate(w) ==
    LET i == task[w].copy.boltz_swap_id
    IN /\ At(w, "regenerate")
       /\ swaps' = [swaps EXCEPT ![i].status = "cancelled"]
       /\ lock \in {Nobody, w} /\ lock' = Nobody
       /\ Goto(w, "recreate")
       /\ UNCHANGED <<kind, row, use, paid, subs, intake, channel, Past>>

RecreateSwap(w) ==
    /\ At(w, "recreate")
    /\ \/ \E i \in Swaps :
             /\ Unused(i)
             /\ swaps' = [swaps EXCEPT ![i] = NewSwap]
             /\ lock \in {Nobody, w} /\ lock' = Nobody
             /\ task' = [task EXCEPT ![w].pc = "relink", ![w].made = i]
             /\ UNCHANGED row
       \/ Leave(w) /\ UNCHANGED swaps
    /\ UNCHANGED <<kind, use, paid, subs, intake, channel, Past>>

RelinkSwap(w) ==
    /\ At(w, "relink")
    /\ LET i == task[w].made
       IN Commit(w, [task[w].copy EXCEPT !.boltz_swap_id = i, !.fresh_address = i], "idle")
    /\ UNCHANGED <<kind, World, Past>>

\* retry_send, with or without accepting to arrive short; the endpoint then
\* calls advance() with the copy it has.
AskRetry(w) ==
    /\ row.status \in {"failed", "awaiting_fee_reduction"} /\ row.fresh_utxo # 0
    /\ Asked(w, "retry")

Retry(w) ==
    /\ At(w, "retry")
    /\ \E accept \in BOOLEAN :
          Commit(w, [Moved(task[w].copy, "funded") EXCEPT !.accept_underpay = accept], "loaded")
    /\ UNCHANGED <<kind, World, Past>>

\* As if a deposit that has gone on could be refunded.
AskRefundAny(w) ==
    /\ kind \in {"ext_onchain", "ext_onchain_channel"}
    /\ row.status = "failed" /\ row.received # "none" /\ ~row.refund_txid
    /\ Asked(w, "refund")

\* submit_refund_address sends the deposited coins back, outpoint by outpoint.
AskRefund(w) ==
    /\ kind \in {"ext_onchain", "ext_onchain_channel"}
    /\ row.status = "failed" /\ row.received # "none"
    /\ ~row.refund_txid /\ row.fresh_utxo = 0
    /\ Asked(w, "refund")

RefundIntake(w) ==
    /\ At(w, "refund")
    /\ LET sent == ~intake.refunded /\ intake' = [intake EXCEPT !.refunded = TRUE]
       IN \/ sent /\ Goto(w, "intake_refunded") /\ UNCHANGED <<row, lock>>
          \/ (sent \/ UNCHANGED intake) /\ Leave(w)
    /\ UNCHANGED <<kind, swaps, use, paid, subs, channel, Past>>

RecordIntakeRefund(w) ==
    /\ At(w, "intake_refunded")
    /\ Commit(w, [task[w].copy EXCEPT !.refund_txid = TRUE], "idle")
    /\ UNCHANGED <<kind, World, Past>>

\* recover_submarine_refund
AskLockupRefund(w) ==
    /\ kind \in {"lightning", "onchain", "onchain_channel"}
    /\ row.submarine_boltz_swap_id # 0 /\ subs[row.submarine_boltz_swap_id].status # "refunded"
    /\ Asked(w, "heal")

\* The process dies, or startup recovery runs out of its 30 seconds.  A lockup
\* or a channel that is not recorded yet is not known to the next pass, nor are
\* a swap that is not linked and a refund; only the send is looked up.
Crash(w) ==
    /\ InHandler(w)
    /\ Happens
    /\ lost' = (lost \/ task[w].pc \in {"funding_sent", "opened"})
    /\ lock' = IF lock = w THEN Nobody ELSE lock
    /\ task' = [task EXCEPT ![w] = Idle]
    /\ UNCHANGED <<kind, row, World, overlap>>

-----------------------------------------------------------------------------
(* The world: the swaps, the payer, LND and the chain.                     *)

Others == <<kind, row, lock, task, Past>>

\* The session waits for the swap, or a worker takes it to be waiting.
Watched(i) ==
    \E r \in {row} \cup {task[w].copy : w \in Workers} :
        /\ r.status \in {"created", "awaiting_ln_funds", "swapping"}
        /\ i \in {r.boltz_swap_id, r.fresh_address}

\* The swap's tasks go on, as SwapPromise allows; a coin needs a payment.
\* What becomes of a swap nobody waits for makes no difference to the session.
SwapMoves(i) ==
    /\ Watched(i)
    /\ Move(i)
    /\ swaps'[i].coin # "none" =>
          IF kind = "ext_lightning" THEN paid[i] ELSE swaps[i].status # "created"
    /\ UNCHANGED <<Others, use, paid, subs, intake, channel>>

\* process_boltz_swap pays the invoice of a swap that is CREATED, whoever was
\* meant to pay it: recover_pending_swaps sends the message.
SwapTaskPays(i) ==
    /\ kind = "ext_lightning" /\ swaps[i].status = "created" /\ ~paid[i]
    /\ paid' = [paid EXCEPT ![i] = TRUE]
    /\ swaps' = [swaps EXCEPT ![i].status = "busy"]
    /\ UNCHANGED <<Others, use, subs, intake, channel>>

UserPays(i) ==
    /\ kind = "ext_lightning" /\ swaps[i].status = "created" /\ ~paid[i]
    /\ paid' = [paid EXCEPT ![i] = TRUE]
    /\ UNCHANGED <<Others, swaps, use, subs, intake, channel>>

\* Another spend of the wallet selects the coin.
CoinTaken(i) ==
    /\ Unspent(i)
    /\ use' = [use EXCEPT ![i] = "other"]
    /\ UNCHANGED <<Others, swaps, paid, subs, intake, channel>>

\* Boltz pays the invoice of a funded submarine swap, gives the swap up, or
\* returns the lockup.  The tasks of reverse swaps take its row for one of
\* theirs, and fail it in the end.
SubmarineMoves(j) ==
    /\ subs[j] # NoSub
    /\ \E r \in {row} \cup {task[w].copy : w \in Workers} :
          /\ r.status \in {"created", "submarine_swapping", "failed"}
          /\ j = r.submarine_boltz_swap_id
    /\ \/ /\ subs[j].boltz = "open" /\ subs[j].lockups > 0
          /\ \E b \in {"paid", "refunded"} : subs' = [subs EXCEPT ![j].boltz = b]
       \/ subs[j].boltz = "open" /\ subs' = [subs EXCEPT ![j].boltz = "failed"]
       \/ subs[j].status = "created" /\ subs' = [subs EXCEPT ![j].status = "busy"]
       \/ subs[j].status = "busy" /\ subs' = [subs EXCEPT ![j].status = "failed"]
    /\ UNCHANGED <<Others, swaps, use, paid, intake, channel>>

\* The depositor pays the intake address, in one payment or more.
Deposit ==
    /\ "awaiting_onchain_funds" \in row.status_history
    /\ \E d \in {"part", "full"} :
          /\ intake.deposit \notin {d, "full"}
          /\ intake' = [intake EXCEPT !.deposit = d]
    /\ UNCHANGED <<Others, swaps, use, paid, subs, channel>>

ChannelActive ==
    /\ channel.opened > 0 /\ ~channel.active
    /\ channel' = [channel EXCEPT !.active = TRUE]
    /\ UNCHANGED <<Others, swaps, use, paid, subs, intake>>

-----------------------------------------------------------------------------
\* What a worker does by itself once it runs.
Step(w) ==
    \/ Load(w) \/ Advance(w) \/ AdvanceNow(w)
    \/ CreateSwap(w) \/ LinkSwap(w) \/ IssueAddress(w)
    \/ MakeInvoice(w) \/ CreateSubmarine(w) \/ LinkSubmarine(w) \/ FundLockup(w) \/ Refused(w)
    \/ RecordFunding(w) \/ StartSubmarine(w) \/ PollSubmarine(w) \/ SubmarineEnded(w)
    \/ OpenChannel(w) \/ RecordChannel(w) \/ PollChannel(w)
    \/ PollInvoice(w) \/ InvoiceRead(w) \/ PollIntake(w) \/ IntakeReceived(w)
    \/ PollSwap(w) \/ PrepareSend(w) \/ Send(w) \/ RecordSend(w) \/ Reconcile(w)
    \/ CheckFees(w) \/ PollConfirmations(w) \/ RefundLockup(w) \/ RecordRefund(w)
    \/ CancelSwap(w) \/ Cancel(w) \/ Regenerate(w) \/ RecreateSwap(w) \/ RelinkSwap(w)
    \/ Retry(w) \/ RefundIntake(w) \/ RecordIntakeRefund(w)

Request(w) ==
    AskCancel(w) \/ AskRegenerate(w) \/ AskRetry(w) \/ AskRefund(w) \/ AskLockupRefund(w)

Environment ==
    \/ \E i \in Swaps : SwapMoves(i) \/ SwapTaskPays(i) \/ UserPays(i) \/ CoinTaken(i)
    \/ \E j \in Subs : SubmarineMoves(j)
    \/ Deposit \/ ChannelActive

Next == (\E w \in Workers : Step(w) \/ Request(w) \/ Crash(w)) \/ Environment

Spec == Init /\ [][Next]_vars

-----------------------------------------------------------------------------
(* Properties.                                                             *)

RowTypes ==
    [status : Statuses, status_history : SUBSET Remembered, submarine_payment_hash : Subs \cup {0},
     submarine_boltz_swap_id : Subs \cup {0}, submarine_funding_txid : BOOLEAN,
     channel_open_txid : BOOLEAN, boltz_swap_id : Swaps \cup {0}, fresh_address : Swaps \cup {0},
     fresh_utxo : Swaps \cup {0}, send_txid : Swaps \cup {0}, accept_underpay : BOOLEAN,
     received : {"none", "part", "full"}, refund_txid : BOOLEAN]

\* Every variable has its type: in particular the row's status and its links,
\* and the copies the workers have of them.
TypeOK ==
    /\ kind \in Sources
    /\ row \in RowTypes
    /\ lock \in Workers \cup {Nobody}
    /\ \A w \in Workers : task[w].copy \in RowTypes /\ task[w].made \in Swaps \cup Subs \cup {0}
    /\ swaps \in [Swaps -> SwapRows]
    /\ use \in [Swaps -> {"unspent", "deposit", "short", "other"}]
    /\ paid \in [Swaps -> BOOLEAN]
    /\ subs \in [Subs -> [status : {"none", "created", "busy", "failed", "cancelled", "refunded"},
                          boltz : {"open", "paid", "failed", "returned", "refunded"},
                          seen : {"open", "failed", "refunded"}, invoice : Subs \cup {0},
                          lockups : 0..2]]
    /\ intake \in [deposit : {"none", "part", "full"}, refunded : BOOLEAN]
    /\ channel \in [opened : 0..2, active : BOOLEAN]
    /\ overlap \in BOOLEAN /\ lost \in BOOLEAN
    /\ events \in 0..MaxEvents

PaidOut(i) == use[i] \in {"deposit", "short"}

\* What the row says did happen, whoever wrote it and however stale the copy
\* was: a BROADCAST or COMPLETED session has a send, which paid the
\* destination; a recorded outpoint is a coin that a swap claimed; a recorded
\* refund was broadcast (RecordSend, Reconcile, PollSwap, RecordRefund).
RowIsTrue ==
    /\ row.status \in {"broadcast", "completed"} => row.send_txid # 0
    /\ row.send_txid # 0 => PaidOut(row.send_txid)
    /\ row.fresh_utxo # 0 => swaps[row.fresh_utxo].coin = "claimed"
    /\ row.refund_txid => intake.refunded \/ \E j \in Subs : subs[j].boltz = "returned"

\* The destination is paid at most once, through crashes around the send,
\* transient errors that hide a broadcast, parking and retries, as long as no
\* two handlers work on the session at a time.
PaidOnce == ~overlap => Cardinality({i \in Swaps : PaidOut(i)}) <= 1

Lockups == [j \in Subs |-> subs[j].lockups]

\* There are three ways to commit the wallet's on-chain funds twice, and no
\* other: two handlers overlap; the process dies between send_coins or
\* open_channel and the commit of the txid; or open_channel errs for a channel
\* that it did open, and the loop goes on to the next peer.  Otherwise there is
\* one lockup or one channel, although _advance_created_onchain starts over at
\* every pass, and any other call may fail or be cut off by a crash.
FundedOnce ==
    ~overlap /\ ~lost =>
        /\ channel.opened <= 1
        /\ \A j, k \in Subs : Lockups[j] > 0 /\ Lockups[k] > 0 => j = k
        /\ \A j \in Subs : Lockups[j] <= 1

\* A payer is never refunded for a deposit that was also made: the intake or
\* the lockup goes back, or the destination is paid, whatever record was lost
\* on the way, as long as no two handlers overlap.
NotBoth ==
    ~overlap => ~ /\ \E i \in Swaps : PaidOut(i)
                  /\ intake.refunded \/ \E j \in Subs : subs[j].boltz \in {"returned", "refunded"}

\* A session that has ended stays as it ended, and what it spent or refunded
\* is not forgotten, unless two handlers overlap; a cancelled session whose
\* lockup was on its way may still become REFUNDED (recover_submarine_refund
\* takes any status).  FAILED is not an end: a retry or a refund may follow.
EndIsFinal ==
    [][~overlap' => /\ row.status \in {"completed", "refunded"} => row'.status = row.status
                    /\ row.status = "cancelled" => row'.status \in {"cancelled", "refunded"}
                    /\ row.send_txid # 0 => row'.send_txid = row.send_txid
                    /\ row.refund_txid => row'.refund_txid]_vars
=============================================================================
