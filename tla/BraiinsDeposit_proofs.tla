----------------------- MODULE BraiinsDeposit_proofs -----------------------
(***************************************************************************)
(* What a deposit session guarantees for any number of callers, requests,  *)
(* swaps and crashes.                                                      *)
(***************************************************************************)
EXTENDS BraiinsDeposit, TLAPS

(***************************************************************************)
(* The inductive invariant.                                                *)
(***************************************************************************)

\* What has happened outside the row, once and for all.
PaidCoins == {i \in Swaps : PaidOut(i)}
ClaimedCoins == {i \in Swaps : swaps[i].coin = "claimed"}
ReturnedSubs == {j \in Subs : subs[j].boltz = "returned"}
PaidSubs == {j \in Subs : subs[j].boltz = "paid"}
FundedSubs == {j \in Subs : subs[j].lockups > 0}

OnchainKinds == {"onchain", "ext_onchain"}
ChannelKinds == {"onchain_channel", "ext_onchain_channel"}

\* Before the reverse swap is linked; and when it has ended or delivered.
Early == {"created", "awaiting_ln_funds", "awaiting_onchain_funds", "submarine_swapping",
          "opening_channel"}
Late == Statuses \ (Early \cup {"swapping"})
Sent == {"broadcast", "completed", "refunded"}

\* What the row, or a copy of it, says of the world is so.
RowTruth(r, coins, claimed, returned, refunded) ==
    /\ r.send_txid # 0 => r.send_txid \in coins
    /\ r.fresh_utxo # 0 => r.fresh_utxo \in claimed
    /\ r.refund_txid => refunded \/ returned # {}

\* Where a row can be, for the kind of session it is.
RowPath(r, k) ==
    /\ r.status \in {"broadcast", "completed"} => r.send_txid # 0
    /\ r.submarine_funding_txid => r.submarine_boltz_swap_id # 0
    /\ r.submarine_boltz_swap_id # 0 => k \in OnchainKinds /\ r.submarine_payment_hash # 0
    /\ r.status = "submarine_swapping" => "submarine_swapping" \in r.status_history
    /\ r.status = "awaiting_onchain_funds" => "submarine_swapping" \notin r.status_history
    /\ "submarine_swapping" \in r.status_history =>
          /\ k \in OnchainKinds
          /\ k = "ext_onchain" => "awaiting_onchain_funds" \in r.status_history
    /\ r.status = "awaiting_ln_funds" => k = "ext_lightning"
    /\ r.status = "opening_channel" => k \in ChannelKinds

\* The places of the handlers, by the status they are for.
SubmarinePcs == {"invoice", "subswap", "sublink", "fund", "funding_sent", "refused", "locked_up"}
CreatedPcs == SubmarinePcs \cup {"create", "link", "intake", "open", "reopen", "opened"}
InvoicePcs == {"awaiting_ln_funds", "paid", "regenerate", "recreate", "relink"}
SamePcs == {"opening_channel", "swapping", "funded", "awaiting_fee_reduction", "broadcast"}
Pcs == {"idle", "loaded"} \cup CreatedPcs \cup InvoicePcs \cup SamePcs
       \cup {"submarine_swapping", "ended", "awaiting_onchain_funds", "received", "sending", "send",
             "sent", "cancel_swap", "cancel", "retry", "refund", "intake_refunded", "heal",
             "lockup_refunded"}

Cancellable == {"created", "awaiting_ln_funds", "awaiting_onchain_funds", "swapping"}

\* The status of the copy tells where the worker is.
PcStatus(p, status) ==
    /\ p \in CreatedPcs => status = "created"
    /\ p \in InvoicePcs => status = "awaiting_ln_funds"
    /\ p \in SamePcs => status = p
    /\ p \in {"submarine_swapping", "ended"} => status = "submarine_swapping"
    /\ p \in {"awaiting_onchain_funds", "received"} => status = "awaiting_onchain_funds"
    /\ p \in {"sending", "send", "sent"} => status = "sending"
    /\ p \in {"cancel_swap", "cancel"} => status \in Cancellable
    /\ p = "retry" => status \in {"failed", "awaiting_fee_reduction"}
    /\ p \in {"refund", "intake_refunded"} => status = "failed"

\* What the worker has found out, or done, on its way there.
PcPath(p, r, made, k) ==
    /\ p \in {"create", "link"} /\ k \in OnchainKinds => "submarine_swapping" \in r.status_history
    /\ p \in SubmarinePcs => /\ k \in OnchainKinds
                             /\ "submarine_swapping" \notin r.status_history
                             /\ k = "ext_onchain" => "awaiting_onchain_funds" \in r.status_history
    /\ p = "intake" => /\ k \in {"ext_onchain", "ext_onchain_channel"}
                       /\ "awaiting_onchain_funds" \notin r.status_history
    /\ p \in {"subswap", "sublink"} => r.submarine_boltz_swap_id = 0 /\ r.submarine_payment_hash # 0
    /\ p \in {"fund", "funding_sent", "refused", "locked_up", "ended", "heal", "lockup_refunded"} =>
          r.submarine_boltz_swap_id # 0
    /\ p \in {"fund", "funding_sent"} => ~r.submarine_funding_txid
    /\ p \in {"open", "reopen", "opened"} => k \in ChannelKinds /\ ~r.channel_open_txid
    /\ p \in {"send", "sent", "retry"} => r.fresh_utxo # 0
    /\ p \in {"refund", "intake_refunded"} => r.fresh_utxo = 0
    /\ p \in {"link", "relink"} => made \in Swaps
    /\ p = "sublink" => made \in Subs

\* What the worker has just done and not recorded.
PcTruth(p, r, coins, returned, refunded) ==
    /\ p = "sent" => r.fresh_utxo \in coins
    /\ p = "lockup_refunded" => r.submarine_boltz_swap_id \in returned
    /\ p = "intake_refunded" => refunded

Tasks == [pc : Pcs, copy : RowTypes, made : Swaps \cup Subs \cup {0}, short : BOOLEAN]

\* What is once in the row stays there: a copy has no more than the row.
Remains(r, m) ==
    /\ r.send_txid # 0 => m.send_txid # 0
    /\ r.submarine_payment_hash # 0 => m.submarine_payment_hash # 0
    /\ r.submarine_boltz_swap_id # 0 => m.submarine_boltz_swap_id # 0

\* A row and a task that fit a session of kind k, whose row is m, and what has
\* happened outside.
RowFits(r, k, coins, claimed, returned, refunded) ==
    /\ r \in RowTypes
    /\ RowTruth(r, coins, claimed, returned, refunded)
    /\ RowPath(r, k)

TaskFits(t, m, k, coins, claimed, returned, refunded) ==
    /\ t \in Tasks
    /\ RowFits(t.copy, k, coins, claimed, returned, refunded)
    /\ Remains(t.copy, m)
    /\ PcStatus(t.pc, t.copy.status)
    /\ PcPath(t.pc, t.copy, t.made, k)
    /\ PcTruth(t.pc, t.copy, coins, returned, refunded)

SubRows == [status : {"none", "created", "busy", "failed", "cancelled", "refunded"},
            boltz : {"open", "paid", "failed", "returned", "refunded"},
            seen : {"open", "failed", "refunded"}, invoice : Subs \cup {0}, lockups : 0..2]

\* The rest of the state; Boltz settles nothing that was not funded.
WorldOK ==
    /\ kind \in Sources
    /\ lock \in Workers \cup {Nobody}
    /\ swaps \in [Swaps -> SwapRows]
    /\ use \in [Swaps -> {"unspent", "deposit", "short", "other"}]
    /\ paid \in [Swaps -> BOOLEAN]
    /\ subs \in [Subs -> SubRows]
    /\ intake \in [deposit : {"none", "part", "full"}, refunded : BOOLEAN]
    /\ channel \in [opened : 0..2, active : BOOLEAN]
    /\ overlap \in BOOLEAN /\ lost \in BOOLEAN
    /\ events \in 0..MaxEvents
    /\ \A j \in Subs : subs[j].boltz \in {"paid", "returned", "refunded"} => subs[j].lockups > 0

RowOK == RowFits(row, kind, PaidCoins, ClaimedCoins, ReturnedSubs, intake.refunded)

TasksOK ==
    /\ task \in [Workers -> Tasks]
    /\ \A w \in Workers :
          TaskFits(task[w], row, kind, PaidCoins, ClaimedCoins, ReturnedSubs, intake.refunded)

BaseInv == WorldOK /\ RowOK /\ TasksOK

\* The on-chain funds of the session have gone through the submarine swap.
Passed(r) ==
    \/ r.fresh_utxo # 0
    \/ r.status \in {"swapping", "funded", "sending", "awaiting_fee_reduction", "broadcast", "completed"}
    \/ r.status = "created" /\ "submarine_swapping" \in r.status_history

\* The row of a session that one handler at a time has worked on.
SoleRow(r, k, coins, funded, settled, refunded) ==
    /\ \A i \in coins : r.fresh_utxo = i /\ r.status \in Late
    /\ refunded => r.fresh_utxo = 0 /\ r.status \in Late
    /\ r.send_txid # 0 => r.status \in Sent
    /\ r.status \in Early => r.fresh_utxo = 0
    /\ \A j \in funded : r.submarine_boltz_swap_id = j
    /\ k \in OnchainKinds /\ Passed(r) => r.submarine_boltz_swap_id \in settled

\* The one worker in a handler works on what the row is.
SoleWorker ==
    /\ \A v, w \in Workers : InHandler(v) /\ InHandler(w) => v = w
    /\ \A w \in Workers : InHandler(w) => task[w].copy = row

SoleInv ==
    ~overlap => /\ SoleWorker
                /\ SoleRow(row, kind, PaidCoins, FundedSubs, PaidSubs, intake.refunded)

\* What was opened or locked up is in the row, or about to be, or the session
\* has failed.
Known(recorded, p) == recorded \/ row.status \in Late \/ \E w \in Workers : At(w, p)

\* No two handlers overlapped, and the row tells of what went out, or will.
Alone == ~overlap /\ ~lost

KnownInv ==
    Alone => /\ channel.opened <= 1
             /\ channel.opened > 0 => Known(row.channel_open_txid, "opened")
             /\ \A j \in Subs : subs[j].lockups <= 1
             /\ \A j \in Subs : subs[j].lockups > 0 => Known(row.submarine_funding_txid, "funding_sent")

DepositInv == BaseInv /\ SoleInv /\ KnownInv

(***************************************************************************)
(* What a step of a worker amounts to.  It turns the row into another one, *)
(* or it leaves the row alone; and it may do something outside.            *)
(***************************************************************************)

\* What a commit makes of a copy r of the row, at p.
TurnOK(p, r, n, k, settled) ==
    /\ n.status = r.status => n.status_history = r.status_history
    /\ r.status \in Late => n.status \in Late
    /\ n.status \in Early => r.status \in Early
    /\ n.fresh_utxo = r.fresh_utxo \/ (r.status = "swapping" /\ n.fresh_utxo # 0)
    /\ n.send_txid = r.send_txid \/ (r.status = "sending" /\ n.status = "broadcast" /\ n.send_txid # 0)
    /\ r.status \in Sent /\ r.send_txid # 0 => n.status \in Sent
    /\ r.status \in {"completed", "refunded", "cancelled"} =>
          p = "lockup_refunded" /\ n.status = "refunded"
    /\ r.refund_txid => n.refund_txid
    /\ n.submarine_payment_hash = r.submarine_payment_hash \/ n.submarine_payment_hash # 0
    /\ \/ n.submarine_boltz_swap_id = r.submarine_boltz_swap_id
       \/ p = "sublink" /\ n.submarine_boltz_swap_id # 0
    /\ r.channel_open_txid \/ p = "opened" => n.channel_open_txid
    /\ r.submarine_funding_txid \/ p = "funding_sent" => n.submarine_funding_txid
    /\ k \in OnchainKinds /\ Passed(n) => Passed(r) \/ settled # {}

\* Where the worker goes on after a commit.
GoesOn(t, n, k) ==
    \/ t = Idle
    \/ /\ t.copy = n
       /\ t.pc \in Pcs \ {"sent", "lockup_refunded", "intake_refunded"}
       /\ PcStatus(t.pc, n.status)
       /\ PcPath(t.pc, n, t.made, k)

TurnsTo(w, n, t) ==
    /\ CommitTo(w, n, t)
    /\ InHandler(w)
    /\ UNCHANGED Past
    /\ t \in Tasks
    /\ RowFits(n, kind', PaidCoins', ClaimedCoins', ReturnedSubs', intake'.refunded)
    /\ TurnOK(task[w].pc, task[w].copy, n, kind, PaidSubs)
    /\ GoesOn(t, n, kind)

Turns(w) == \E n \in RowTypes, t \in Tasks : TurnsTo(w, n, t)

Running(p) == p \notin {"idle", "loaded"}

StaysAt(w, t) ==
    /\ UNCHANGED row
    /\ task' = [task EXCEPT ![w] = t]
    /\ TaskFits(t, row, kind', PaidCoins', ClaimedCoins', ReturnedSubs', intake'.refunded)
    /\ \/ ~Running(t.pc) /\ overlap' = overlap
       \/ InHandler(w) /\ t.copy = task[w].copy /\ overlap' = overlap
       \/ overlap' = (overlap \/ Overlaps(w, t.copy))
    /\ lost => lost'
    /\ task[w].pc \in {"opened", "funding_sent"} => lost'

Stays(w) == \E t \in Tasks : StaysAt(w, t)

\* A fresh address goes to the row with the commit of its swap.
Addressed(w) ==
    \E i \in Swaps :
        /\ At(w, "create")
        /\ row' = [row EXCEPT !.fresh_address = i]
        /\ task' = [task EXCEPT ![w].pc = "link", ![w].copy.fresh_address = i, ![w].made = i]
        /\ UNCHANGED Past

\* What has happened stays so.
Grows ==
    /\ kind' = kind
    /\ PaidCoins \subseteq PaidCoins'
    /\ ClaimedCoins \subseteq ClaimedCoins'
    /\ ReturnedSubs \subseteq ReturnedSubs'
    /\ PaidSubs \subseteq PaidSubs'
    /\ intake.refunded => intake'.refunded

\* The coin is spent at "send", the intake goes back at "refund", and a channel
\* or a lockup that is made is recorded next, or the session fails.
Does(w) ==
    /\ \A i \in PaidCoins' : i \in PaidCoins \/ (At(w, "send") /\ i = task[w].copy.fresh_utxo)
    /\ intake'.refunded => intake.refunded \/ At(w, "refund")
    /\ \/ channel'.opened = channel.opened
       \/ /\ At(w, "open") \/ At(w, "reopen")
          /\ channel'.opened = channel.opened + 1
          /\ task'[w].pc = "opened" \/ row'.status \in Late \/ lost'
    /\ \A j \in Subs :
          \/ subs'[j].lockups = subs[j].lockups
          \/ /\ At(w, "fund") /\ j = task[w].copy.submarine_boltz_swap_id
             /\ subs'[j].lockups = subs[j].lockups + 1
             /\ task'[w].pc = "funding_sent" \/ row'.status \in Late

\* A commit comes with no send and no refund of the intake.
Acts(w) ==
    /\ Grows
    /\ Does(w)
    /\ \/ Turns(w) /\ PaidCoins' = PaidCoins /\ (intake'.refunded => intake.refunded)
       \/ Stays(w)
       \/ Addressed(w) /\ UNCHANGED <<use, subs, intake, channel>>

(***************************************************************************)
(* A fact for all proofs.                                                  *)
(***************************************************************************)

\* Writing a field keeps the fields of a record. The fact is in sight of every proof below, for what
\* it contains: before an update of a record the SMT backend gives up its type synthesis, the cost
\* of which grows with every obligation, and takes the untyped encoding.
LEMMA FieldsStay == DOMAIN [row EXCEPT !.status = "created"] = DOMAIN row
  OBVIOUS

USE FieldsStay

(***************************************************************************)
(* The session uses its swaps as SwapPromise allows.                       *)
(***************************************************************************)

\* Where a request is about to cancel the swap it read as CREATED.
Cancelling == {"cancel_swap", "regenerate"}

\* A swap that exists tells the truth, and a swap that is about to be cancelled
\* exists.
LinkInv ==
    /\ \A i \in Swaps : swaps[i] = NoSwap \/ swaps[i] \in TruthfulRows
    /\ \A w \in Workers : task[w].pc \in Cancelling =>
          /\ task[w].copy.boltz_swap_id \in Swaps
          /\ swaps[task[w].copy.boltz_swap_id] # NoSwap

\* The step does not take worker w to such a place, nor anybody else anywhere.
Lands(w) ==
    \A v \in Workers : task'[v].pc \in Cancelling => v # w /\ task'[v] = task[v]

\* What a step of a worker does to the swaps.
SwapStep(w) == Lands(w) /\ (SwapsNext \/ UNCHANGED swaps)

\* A status that promises nothing may follow any other.
LEMMA StatusFollows ==
    ASSUME WorldOK, LinkInv, NEW i \in Swaps, swaps[i] # NoSwap,
           NEW status \in {"busy", "failed", "cancelled"},
           swaps' = [swaps EXCEPT ![i].status = status]
    PROVE  SwapsNext
<1> DEFINE t == [swaps[i] EXCEPT !.status = status]
<1>1. swaps[i] \in TruthfulRows
  BY DEF LinkInv
<1>2. t \in TruthfulRows
  BY <1>1 DEF TruthfulRows, SwapRows, SwapStatuses, SwapEnded, Truthful
<1>3. Follows(swaps[i], t)
  BY <1>1, <1>2 DEF Follows, TruthfulRows, SwapRows
<1>4. swaps' = [swaps EXCEPT ![i] = t]
  BY DEF WorldOK
<1> QED
  BY Zenon, <1>2, <1>3, <1>4 DEF SwapsNext, Move

\* Every step of a handler: most leave the swaps alone; a swap is created in a
\* row of boltz_swaps that was not used; and the swap cancelled is the one the
\* request read, which exists.
LEMMA StepSwaps ==
    ASSUME BaseInv, LinkInv, NEW w \in Workers, Step(w)
    PROVE  SwapStep(w)
<1>1. TasksOK /\ row \in RowTypes /\ task[w].copy \in RowTypes
  BY DEF BaseInv, RowOK, RowFits, TasksOK, Tasks
<1>2. \A n, pc : Commit(w, n, pc) /\ pc \notin Cancelling => Lands(w)
  BY <1>1 DEF TasksOK, Tasks, Commit, CommitTo, Idle, Lands, Cancelling
<1>3. \A n : Fail(w, n) => Lands(w)
  BY <1>2 DEF Fail, Cancelling
<1>4. Leave(w) => Lands(w)
  BY <1>1 DEF TasksOK, Tasks, Leave, Idle, Lands, Cancelling
<1>5. \A pc : Goto(w, pc) /\ pc \notin Cancelling => Lands(w)
  BY <1>1 DEF TasksOK, Tasks, Goto, Lands, Cancelling
<1>6. ASSUME NEW copy \in RowTypes, Enter(w, copy)
      PROVE  Lands(w)
  <2>1. Handler(copy) \notin Cancelling
    <3>1. CreatedHandler(copy) \notin Cancelling
      BY DEF CreatedHandler, Cancelling
    <3>2. copy.status \in Statuses \ Cancelling
      BY DEF RowTypes, Statuses, Terminal, Cancelling
    <3> QED
      BY <3>1, <3>2 DEF Handler, Statuses, Cancelling
  <2> QED
    BY <1>1, <1>6, <2>1 DEF Enter, Lands, TasksOK, Tasks
<1>7. Load(w) => Lands(w) /\ UNCHANGED swaps
  BY <1>1 DEF Load, World, Lands, Cancelling, TasksOK, Tasks
<1>8. Advance(w) \/ AdvanceNow(w) => Lands(w) /\ UNCHANGED swaps
  BY <1>1, <1>4, <1>6 DEF Advance, AdvanceNow, World
<1>9. CreateSwap(w) => Lands(w)
  <2>1. ASSUME NEW i \in Swaps,
               task' = [task EXCEPT ![w].pc = "link", ![w].copy.fresh_address = i, ![w].made = i]
        PROVE  Lands(w)
    BY <1>1, <2>1 DEF Lands, Cancelling, TasksOK, Tasks
  <2> QED
    BY Zenon, <1>3, <2>1 DEF CreateSwap
<1>10. RecreateSwap(w) => Lands(w)
  <2>1. ASSUME NEW i \in Swaps, task' = [task EXCEPT ![w].pc = "relink", ![w].made = i]
        PROVE  Lands(w)
    BY <1>1, <2>1 DEF Lands, Cancelling, TasksOK, Tasks
  <2> QED
    BY Zenon, <1>4, <2>1 DEF RecreateSwap
<1>11. CreateSwap(w) \/ RecreateSwap(w) => SwapsNext \/ UNCHANGED swaps
  BY Zenon DEF CreateSwap, RecreateSwap, Unused, SwapsNext, Create
<1>12. CASE CancelSwap(w) \/ Regenerate(w)
  <2> DEFINE i == task[w].copy.boltz_swap_id
  <2>1. Lands(w)
    BY <1>5, <1>12 DEF CancelSwap, Regenerate, Cancelling
  <2>2. i \in Swaps /\ swaps[i] # NoSwap
    BY <1>12 DEF LinkInv, Cancelling, CancelSwap, Regenerate, At
  <2>3. swaps' = [swaps EXCEPT ![i].status = "cancelled"]
    BY <1>12 DEF CancelSwap, Regenerate
  <2>4. SwapsNext
    BY Zenon, <2>2, <2>3, StatusFollows DEF BaseInv
  <2> QED
    BY <2>1, <2>4 DEF SwapStep
<1>13. CASE MakeInvoice(w)
  <2>1. UNCHANGED swaps
    BY <1>13 DEF MakeInvoice, World
  <2>2. \/ \E n : Commit(w, n, "subswap")
        \/ \E pc \in {"subswap", "locked_up", "fund"} : Goto(w, pc)
        \/ Fail(w, task[w].copy)
    BY Zenon, <1>13 DEF MakeInvoice
  <2> QED
    BY <1>2, <1>3, <1>5, <2>1, <2>2 DEF SwapStep, Cancelling
<1>14. CASE CreateSubmarine(w)
  <2>1. UNCHANGED swaps
    BY <1>14 DEF CreateSubmarine
  <2>2. ASSUME NEW j \in Subs, task' = [task EXCEPT ![w].pc = "sublink", ![w].made = j]
        PROVE  Lands(w)
    BY <1>1, <2>2 DEF Lands, Cancelling, TasksOK, Tasks
  <2> QED
    BY Zenon, <1>3, <1>14, <2>1, <2>2 DEF CreateSubmarine, SwapStep
<1>15. CASE PollSubmarine(w)
  <2>1. UNCHANGED swaps
    BY Zenon, <1>15 DEF PollSubmarine, World
  <2>2. (\E n : Commit(w, n, "create")) \/ Leave(w) \/ Goto(w, "ended")
    BY Zenon, <1>15 DEF PollSubmarine
  <2> QED
    BY <1>2, <1>4, <1>5, <2>1, <2>2 DEF SwapStep, Cancelling
<1>16. CASE PollInvoice(w)
  <2>1. UNCHANGED swaps
    BY Zenon, <1>16 DEF PollInvoice, World
  <2>2. Fail(w, task[w].copy) \/ Leave(w) \/ Goto(w, "paid")
    BY Zenon, <1>16 DEF PollInvoice
  <2> QED
    BY <1>3, <1>4, <1>5, <2>1, <2>2 DEF SwapStep, Cancelling
<1>17. CASE InvoiceRead(w)
  <2>1. UNCHANGED swaps
    BY Zenon, <1>17 DEF InvoiceRead, World
  <2>2. (\E n : Commit(w, n, "idle")) \/ Fail(w, task[w].copy) \/ Leave(w)
    BY Zenon, <1>17 DEF InvoiceRead
  <2> QED
    BY <1>2, <1>3, <1>4, <2>1, <2>2 DEF SwapStep, Cancelling
<1>18. CASE PollIntake(w)
  <2>1. UNCHANGED swaps
    BY <1>18 DEF PollIntake, World
  <2>2. (\E n : \E pc \in {"received", "idle"} : Commit(w, n, pc)) \/ Leave(w)
    BY Zenon, <1>18 DEF PollIntake
  <2> QED
    BY <1>2, <1>4, <2>1, <2>2 DEF SwapStep, Cancelling
<1>19. CASE PrepareSend(w)
  <2> DEFINE sending == [Moved(task[w].copy, "sending") EXCEPT !.accept_underpay = FALSE]
             to(short) == [task[w] EXCEPT !.pc = "send", !.copy = sending, !.short = short]
  <2>1. UNCHANGED swaps
    BY <1>19 DEF PrepareSend, World
  <2>2. \/ \E n : Fail(w, n) \/ Commit(w, n, "idle")
        \/ \E short \in {FALSE, task[w].copy.accept_underpay} : CommitTo(w, sending, to(short))
    BY Zenon, <1>19 DEF PrepareSend, Park
  <2>3. ASSUME NEW short, CommitTo(w, sending, to(short))
        PROVE  Lands(w)
    <3>1. task' = [task EXCEPT ![w] = to(short)] /\ to(short).pc = "send"
      BY <1>1, <2>3 DEF CommitTo, TasksOK, Tasks
    <3> QED
      BY <1>1, <3>1 DEF Lands, Cancelling, TasksOK
  <2> QED
    BY Zenon, <1>2, <1>3, <2>1, <2>2, <2>3 DEF SwapStep, Cancelling
<1>20. CASE Send(w)
  <2>1. UNCHANGED swaps
    BY <1>20 DEF Send, World
  <2>2. (\E n : Commit(w, n, "idle")) \/ Fail(w, task[w].copy) \/ Leave(w) \/ Goto(w, "sent")
    BY Zenon, <1>20 DEF Send, Park
  <2> QED
    BY <1>2, <1>3, <1>4, <1>5, <2>1, <2>2 DEF SwapStep, Cancelling
<1>21. LinkSwap(w) => Lands(w) /\ UNCHANGED swaps
  BY <1>2 DEF LinkSwap, Cancelling, World
<1>22. IssueAddress(w) => Lands(w) /\ UNCHANGED swaps
  BY <1>2, <1>3 DEF IssueAddress, Cancelling, World
<1>23. LinkSubmarine(w) => Lands(w) /\ UNCHANGED swaps
  BY <1>2 DEF LinkSubmarine, Cancelling, World
<1>24. FundLockup(w) => Lands(w) /\ UNCHANGED swaps
  BY Zenon, <1>3, <1>5 DEF FundLockup, Cancelling, World
<1>25. Refused(w) => Lands(w) /\ UNCHANGED swaps
  BY <1>3 DEF Refused, Cancelling, World
<1>26. RecordFunding(w) => Lands(w) /\ UNCHANGED swaps
  BY <1>2 DEF RecordFunding, Cancelling, World
<1>27. StartSubmarine(w) => Lands(w) /\ UNCHANGED swaps
  BY <1>2 DEF StartSubmarine, Cancelling, World
<1>28. SubmarineEnded(w) => Lands(w) /\ UNCHANGED swaps
  BY <1>2, <1>3, <1>4 DEF SubmarineEnded, Cancelling, World
<1>29. OpenChannel(w) => Lands(w) /\ UNCHANGED swaps
  BY Zenon, <1>3, <1>4, <1>5 DEF OpenChannel, Cancelling, World
<1>30. RecordChannel(w) => Lands(w) /\ UNCHANGED swaps
  BY <1>2 DEF RecordChannel, Cancelling, World
<1>31. PollChannel(w) => Lands(w) /\ UNCHANGED swaps
  BY <1>2, <1>4 DEF PollChannel, Cancelling, World
<1>32. IntakeReceived(w) => Lands(w) /\ UNCHANGED swaps
  BY <1>2 DEF IntakeReceived, Cancelling, World
<1>33. PollSwap(w) => Lands(w) /\ UNCHANGED swaps
  BY <1>2, <1>3, <1>4 DEF PollSwap, Cancelling, World
<1>34. RecordSend(w) => Lands(w) /\ UNCHANGED swaps
  BY <1>2 DEF RecordSend, Cancelling, World
<1>35. Reconcile(w) => Lands(w) /\ UNCHANGED swaps
  BY <1>2, <1>3, <1>4 DEF Reconcile, Cancelling, World
<1>36. CheckFees(w) => Lands(w) /\ UNCHANGED swaps
  BY <1>2, <1>4 DEF CheckFees, Cancelling, World
<1>37. PollConfirmations(w) => Lands(w) /\ UNCHANGED swaps
  BY <1>2, <1>3, <1>4 DEF PollConfirmations, Cancelling, World
<1>38. RefundLockup(w) => Lands(w) /\ UNCHANGED swaps
  BY <1>4, <1>5 DEF RefundLockup, Cancelling, World
<1>39. RecordRefund(w) => Lands(w) /\ UNCHANGED swaps
  BY <1>2 DEF RecordRefund, Cancelling, World
<1>40. Cancel(w) => Lands(w) /\ UNCHANGED swaps
  BY <1>2 DEF Cancel, Cancelling, World
<1>41. RelinkSwap(w) => Lands(w) /\ UNCHANGED swaps
  BY <1>2 DEF RelinkSwap, Cancelling, World
<1>42. Retry(w) => Lands(w) /\ UNCHANGED swaps
  BY <1>2 DEF Retry, Cancelling, World
<1>43. RefundIntake(w) => Lands(w) /\ UNCHANGED swaps
  BY <1>4, <1>5 DEF RefundIntake, Cancelling, World
<1>44. RecordIntakeRefund(w) => Lands(w) /\ UNCHANGED swaps
  BY <1>2 DEF RecordIntakeRefund, Cancelling, World
<1> QED
  BY Zenon, <1>7, <1>8, <1>9, <1>10, <1>11, <1>12, <1>13, <1>14, <1>15, <1>16, <1>17, <1>18,
     <1>19, <1>20, <1>21, <1>22, <1>23, <1>24, <1>25, <1>26, <1>27, <1>28, <1>29, <1>30, <1>31,
     <1>32, <1>33, <1>34, <1>35, <1>36, <1>37, <1>38, <1>39, <1>40, <1>41, <1>42, <1>43, <1>44
     DEF Step, SwapStep

\* A swap that exists does so for good, so the invariant stays unless a worker
\* comes to a cancellation.
LEMMA LinkStays ==
    ASSUME WorldOK, TasksOK, LinkInv, SwapsNext \/ UNCHANGED swaps,
           \A v \in Workers : task'[v].pc \in Cancelling =>
              \/ task'[v] = task[v]
              \/ /\ task'[v].copy.boltz_swap_id \in Swaps
                 /\ swaps[task'[v].copy.boltz_swap_id] # NoSwap
    PROVE  LinkInv'
<1>1. \A i \in Swaps : /\ swaps'[i] = NoSwap \/ swaps'[i] \in TruthfulRows
                       /\ swaps[i] # NoSwap => swaps'[i] # NoSwap
  <2>1. NewSwap \in TruthfulRows /\ NoSwap \notin TruthfulRows
    BY DEF NewSwap, NoSwap, TruthfulRows, SwapRows, SwapStatuses, SwapEnded, Truthful
  <2>2. CASE SwapsNext
    <3>1. PICK i \in Swaps : Create(i) \/ Move(i)
      BY <2>2 DEF SwapsNext
    <3>2. PICK t \in TruthfulRows : swaps' = [swaps EXCEPT ![i] = t]
      BY <2>1, <3>1 DEF Create, Move
    <3> QED
      BY <2>1, <3>2 DEF LinkInv, WorldOK
  <2>3. CASE UNCHANGED swaps
    BY <2>3 DEF LinkInv
  <2> QED
    BY <2>2, <2>3
<1>2. ASSUME NEW v \in Workers, task'[v].pc \in Cancelling
      PROVE  task'[v].copy.boltz_swap_id \in Swaps /\ swaps'[task'[v].copy.boltz_swap_id] # NoSwap
  <2>1. task'[v].copy.boltz_swap_id \in Swaps /\ swaps[task'[v].copy.boltz_swap_id] # NoSwap
    BY <1>2 DEF LinkInv
  <2> QED
    BY <1>1, <2>1
<1> QED
  BY <1>1, <1>2 DEF LinkInv

\* Every step.  A request goes on to cancel only a swap it has read as CREATED;
\* the swap's own tasks keep to the promise.
LEMMA LinkNext ==
    ASSUME BaseInv, LinkInv, [Next]_vars
    PROVE  LinkInv' /\ (SwapsNext \/ UNCHANGED swaps)
<1>1. WorldOK /\ TasksOK
  BY DEF BaseInv
<1>2. CASE \E w \in Workers : Step(w)
  BY <1>1, <1>2, StepSwaps, LinkStays DEF SwapStep, Lands
<1>3. CASE \E w \in Workers : Request(w)
  <2>0. PICK w \in Workers : Request(w)
    BY <1>3
  <2>1. PICK pc \in {"cancel", "cancel_swap", "regenerate", "retry", "refund", "heal"} :
           /\ Asked(w, pc)
           /\ pc \in Cancelling => row.boltz_swap_id # 0 /\ swaps[row.boltz_swap_id].status = "created"
    BY <2>0 DEF Request, AskCancel, AskRegenerate, AskRetry, AskRefund, AskLockupRefund, Cancelling
  <2>2. task' = [task EXCEPT ![w].pc = pc, ![w].copy = row] /\ UNCHANGED swaps
    BY <2>1 DEF Asked, World
  <2>3. row.boltz_swap_id \in Swaps \cup {0}
    BY DEF BaseInv, RowOK, RowFits, RowTypes
  <2>4. pc \in Cancelling => row.boltz_swap_id \in Swaps /\ swaps[row.boltz_swap_id] # NoSwap
    BY <2>1, <2>3 DEF NoSwap
  <2>5. \A v \in Workers : task'[v].pc \in Cancelling =>
           \/ task'[v] = task[v]
           \/ /\ task'[v].copy.boltz_swap_id \in Swaps
              /\ swaps[task'[v].copy.boltz_swap_id] # NoSwap
    BY <2>2, <2>4 DEF BaseInv, TasksOK, Tasks
  <2> QED
    BY Zenon, <2>2, <2>5, LinkStays DEF BaseInv
<1>4. CASE \E w \in Workers : Crash(w)
  <2>1. UNCHANGED swaps /\ \E w \in Workers : task' = [task EXCEPT ![w] = Idle]
    BY Zenon, <1>4 DEF Crash, World
  <2>2. \A v \in Workers : task'[v].pc \in Cancelling => task'[v] = task[v]
    BY <1>1, <2>1 DEF TasksOK, Idle, Cancelling
  <2> QED
    BY <1>1, <2>1, <2>2, LinkStays
<1>5. CASE Environment
  <2>1. UNCHANGED task
    BY <1>5 DEF Environment, SwapMoves, SwapTaskPays, UserPays, CoinTaken, SubmarineMoves, Deposit,
           ChannelActive, Others
  <2>2. ASSUME NEW i \in Swaps, SwapTaskPays(i)
        PROVE  SwapsNext
    <3>1. swaps[i] # NoSwap /\ swaps' = [swaps EXCEPT ![i].status = "busy"]
      BY <2>2 DEF SwapTaskPays, NoSwap
    <3> QED
      BY Zenon, <3>1, StatusFollows DEF BaseInv
  <2>3. ASSUME NEW i \in Swaps, SwapMoves(i) \/ UserPays(i) \/ CoinTaken(i)
        PROVE  SwapsNext \/ UNCHANGED swaps
    BY <2>3 DEF SwapMoves, UserPays, CoinTaken, SwapsNext
  <2>4. ASSUME (\E j \in Subs : SubmarineMoves(j)) \/ Deposit \/ ChannelActive
        PROVE  UNCHANGED swaps
    BY <2>4 DEF SubmarineMoves, Deposit, ChannelActive
  <2>5. SwapsNext \/ UNCHANGED swaps
    BY <1>5, <2>2, <2>3, <2>4 DEF Environment
  <2> QED
    BY <1>1, <2>1, <2>5, LinkStays
<1>6. CASE UNCHANGED vars
  BY <1>1, <1>6, LinkStays DEF vars, World
<1> QED
  BY <1>2, <1>3, <1>4, <1>5, <1>6 DEF Next

(***************************************************************************)
(* A step of a worker preserves the invariant.                             *)
(***************************************************************************)

\* An idle worker fits any session.
LEMMA IdleFits ==
    ASSUME NEW m, NEW k, NEW coins, NEW claimed, NEW returned, NEW refunded
    PROVE  Idle \in Tasks /\ TaskFits(Idle, m, k, coins, claimed, returned, refunded)
<1>1. NewRow \in RowTypes
  BY DEF NewRow, RowTypes, Statuses, Terminal
<1>2. Idle \in Tasks /\ Idle.copy = NewRow /\ Idle.pc = "idle"
  BY <1>1 DEF Idle, Tasks, Pcs
<1>3. RowFits(NewRow, k, coins, claimed, returned, refunded)
  <2>1. RowTruth(NewRow, coins, claimed, returned, refunded)
    BY DEF RowTruth, NewRow
  <2>2. RowPath(NewRow, k)
    BY DEF RowPath, NewRow
  <2> QED
    BY <1>1, <2>1, <2>2 DEF RowFits
<1>4. Remains(NewRow, m)
  BY DEF Remains, NewRow
<1>5. /\ PcStatus("idle", NewRow.status)
      /\ PcPath("idle", NewRow, Idle.made, k)
      /\ PcTruth("idle", NewRow, coins, returned, refunded)
  BY DEF PcStatus, PcPath, PcTruth, CreatedPcs, SubmarinePcs, InvoicePcs, SamePcs
<1> QED
  BY <1>2, <1>3, <1>4, <1>5 DEF TaskFits

\* What is so of the world stays so.
LEMMA TruthGrows ==
    ASSUME NEW r, NEW p, NEW coins, NEW claimed, NEW returned, NEW refunded,
           NEW coins2, NEW claimed2, NEW returned2, NEW refunded2,
           coins \subseteq coins2, claimed \subseteq claimed2, returned \subseteq returned2,
           refunded => refunded2
    PROVE  /\ RowTruth(r, coins, claimed, returned, refunded) =>
                 RowTruth(r, coins2, claimed2, returned2, refunded2)
           /\ PcTruth(p, r, coins, returned, refunded) => PcTruth(p, r, coins2, returned2, refunded2)
BY DEF RowTruth, PcTruth

\* A commit field by field.
MergedRow(m, r, o, n) ==
    /\ m \in RowTypes
    /\ m.status = IF n.status # o.status THEN n.status ELSE r.status
    /\ m.status_history = IF n.status # o.status THEN n.status_history ELSE r.status_history
    /\ m.submarine_payment_hash = IF n.submarine_payment_hash # o.submarine_payment_hash
                                  THEN n.submarine_payment_hash ELSE r.submarine_payment_hash
    /\ m.submarine_boltz_swap_id = IF n.submarine_boltz_swap_id # o.submarine_boltz_swap_id
                                   THEN n.submarine_boltz_swap_id ELSE r.submarine_boltz_swap_id
    /\ m.submarine_funding_txid = IF n.submarine_funding_txid # o.submarine_funding_txid
                                  THEN n.submarine_funding_txid ELSE r.submarine_funding_txid
    /\ m.channel_open_txid = IF n.channel_open_txid # o.channel_open_txid
                             THEN n.channel_open_txid ELSE r.channel_open_txid
    /\ m.fresh_utxo = IF n.fresh_utxo # o.fresh_utxo THEN n.fresh_utxo ELSE r.fresh_utxo
    /\ m.send_txid = IF n.send_txid # o.send_txid THEN n.send_txid ELSE r.send_txid
    /\ m.refund_txid = IF n.refund_txid # o.refund_txid THEN n.refund_txid ELSE r.refund_txid

\* A commit writes what differs from the copy, and nothing else.
LEMMA Merging ==
    ASSUME NEW w \in Workers, NEW n \in RowTypes, NEW t, CommitTo(w, n, t),
           row \in RowTypes, task[w].copy \in RowTypes
    PROVE  MergedRow(row', row, task[w].copy, n)
<1> DEFINE o == task[w].copy
           m == [f \in DOMAIN row |->
                   IF (IF f = "status_history" THEN n.status # o.status ELSE n[f] # o[f])
                   THEN n[f] ELSE row[f]]
<1>1. row' = m
  BY DEF CommitTo
<1>2. DOMAIN row = {"status", "status_history", "submarine_payment_hash", "submarine_boltz_swap_id",
                    "submarine_funding_txid", "channel_open_txid", "boltz_swap_id", "fresh_address",
                    "fresh_utxo", "send_txid", "accept_underpay", "received", "refund_txid"}
  BY DEF RowTypes
<1>3. m \in RowTypes
  BY <1>2 DEF RowTypes
<1>4. MergedRow(m, row, o, n)
  BY <1>2, <1>3 DEF MergedRow
<1> QED
  BY <1>1, <1>4

\* The workers that do not act fit the session as before, as long as the row
\* loses nothing.
LEMMA OthersFit ==
    ASSUME TasksOK, Grows, NEW w \in Workers, NEW v \in Workers, v # w,
           task'[v] = task[v],
           row.send_txid # 0 => row'.send_txid # 0,
           row.submarine_payment_hash # 0 => row'.submarine_payment_hash # 0,
           row.submarine_boltz_swap_id # 0 => row'.submarine_boltz_swap_id # 0
    PROVE  TaskFits(task'[v], row', kind', PaidCoins', ClaimedCoins', ReturnedSubs', intake'.refunded)
<1> DEFINE t == task[v]
<1>1. TaskFits(t, row, kind, PaidCoins, ClaimedCoins, ReturnedSubs, intake.refunded)
  BY DEF TasksOK
<1>2. /\ RowTruth(t.copy, PaidCoins', ClaimedCoins', ReturnedSubs', intake'.refunded)
      /\ PcTruth(t.pc, t.copy, PaidCoins', ReturnedSubs', intake'.refunded)
  BY <1>1, TruthGrows DEF TaskFits, RowFits, Grows
<1>3. Remains(t.copy, row')
  BY <1>1 DEF TaskFits, Remains
<1> QED
  BY <1>1, <1>2, <1>3 DEF TaskFits, RowFits, Grows

\* After a commit.
LEMMA TurnBase ==
    ASSUME BaseInv, Grows, NEW w \in Workers, NEW n \in RowTypes, NEW t \in Tasks, TurnsTo(w, n, t)
    PROVE  RowOK' /\ TasksOK'
<1> DEFINE o == task[w].copy
<1>1. /\ o \in RowTypes /\ row \in RowTypes
      /\ TaskFits(task[w], row, kind, PaidCoins, ClaimedCoins, ReturnedSubs, intake.refunded)
      /\ RowFits(row, kind, PaidCoins, ClaimedCoins, ReturnedSubs, intake.refunded)
  BY DEF BaseInv, TasksOK, RowOK, TaskFits, RowFits
<1>2. CommitTo(w, n, t) /\ task' = [task EXCEPT ![w] = t]
  BY DEF TurnsTo, CommitTo
<1>3. MergedRow(row', row, o, n)
  BY <1>1, <1>2, Merging
<1>4. Remains(o, row)
  BY <1>1 DEF TaskFits
<1>5. /\ n.send_txid = o.send_txid \/ n.send_txid # 0
      /\ n.submarine_payment_hash = o.submarine_payment_hash \/ n.submarine_payment_hash # 0
      /\ \/ n.submarine_boltz_swap_id = o.submarine_boltz_swap_id
         \/ n.submarine_boltz_swap_id # 0
      /\ o.submarine_funding_txid => n.submarine_funding_txid
      /\ n.status = o.status => n.status_history = o.status_history
  BY DEF TurnsTo, TurnOK
<1>6. /\ Remains(n, row')
      /\ row.send_txid # 0 => row'.send_txid # 0
      /\ row.submarine_payment_hash # 0 => row'.submarine_payment_hash # 0
      /\ row.submarine_boltz_swap_id # 0 => row'.submarine_boltz_swap_id # 0
  BY <1>3, <1>4, <1>5 DEF Remains, MergedRow
<1>7. RowTruth(row', PaidCoins', ClaimedCoins', ReturnedSubs', intake'.refunded)
  <2>1. /\ RowTruth(row, PaidCoins', ClaimedCoins', ReturnedSubs', intake'.refunded)
        /\ RowTruth(n, PaidCoins', ClaimedCoins', ReturnedSubs', intake'.refunded)
    BY <1>1, TruthGrows DEF TurnsTo, RowFits, Grows
  <2>2. /\ row'.send_txid \in {n.send_txid, row.send_txid}
        /\ row'.fresh_utxo \in {n.fresh_utxo, row.fresh_utxo}
        /\ row'.refund_txid = n.refund_txid \/ row'.refund_txid = row.refund_txid
    BY <1>3 DEF MergedRow
  <2> QED
    BY <2>1, <2>2 DEF RowTruth
<1>8. RowPath(row', kind')
  <2>1. RowPath(n, kind) /\ RowPath(row, kind) /\ kind' = kind
    BY <1>1 DEF TurnsTo, RowFits, Grows
  <2>2. \/ row'.status = n.status /\ row'.status_history = n.status_history
        \/ row'.status = row.status /\ row'.status_history = row.status_history
    BY <1>3 DEF MergedRow
  <2>3. row'.status \in {"broadcast", "completed"} => row'.send_txid # 0
    BY <1>6, <2>1, <2>2 DEF RowPath, Remains
  <2>4. row'.submarine_funding_txid => row'.submarine_boltz_swap_id # 0
    <3>1. row'.submarine_funding_txid = n.submarine_funding_txid
          \/ row'.submarine_funding_txid = row.submarine_funding_txid
      BY <1>3 DEF MergedRow
    <3> QED
      BY Zenon, <1>6, <2>1, <3>1 DEF RowPath, Remains
  <2>5. row'.submarine_boltz_swap_id # 0 => kind \in OnchainKinds /\ row'.submarine_payment_hash # 0
    BY <1>3, <1>6, <2>1 DEF RowPath, MergedRow, Remains
  <2> QED
    BY <2>1, <2>2, <2>3, <2>4, <2>5 DEF RowPath
<1>9. RowOK'
  BY <1>3, <1>7, <1>8 DEF RowOK, RowFits, MergedRow
<1>10. TaskFits(t, row', kind', PaidCoins', ClaimedCoins', ReturnedSubs', intake'.refunded)
  <2>1. CASE t = Idle
    BY <2>1, IdleFits
  <2>2. CASE t # Idle
    <3>1. /\ t.copy = n
          /\ t.pc \notin {"sent", "lockup_refunded", "intake_refunded"}
          /\ PcStatus(t.pc, n.status)
          /\ PcPath(t.pc, n, t.made, kind)
      BY <2>2 DEF TurnsTo, GoesOn
    <3>2. PcTruth(t.pc, n, PaidCoins', ReturnedSubs', intake'.refunded)
      BY <3>1 DEF PcTruth
    <3>3. RowFits(n, kind', PaidCoins', ClaimedCoins', ReturnedSubs', intake'.refunded) /\ kind' = kind
      BY DEF TurnsTo, Grows
    <3> QED
      BY <1>6, <3>1, <3>2, <3>3 DEF TaskFits
  <2> QED
    BY <2>1, <2>2
<1>11. TasksOK'
  <2>1. task' \in [Workers -> Tasks] /\ task'[w] = t
    BY <1>2 DEF BaseInv, TasksOK
  <2>2. ASSUME NEW v \in Workers, v # w
        PROVE  TaskFits(task'[v], row', kind', PaidCoins', ClaimedCoins', ReturnedSubs', intake'.refunded)
    <3>1. task'[v] = task[v]
      BY <1>2, <2>2 DEF BaseInv, TasksOK
    <3> QED
      BY <1>6, <2>2, <3>1, OthersFit DEF BaseInv
  <2> QED
    BY <1>10, <2>1, <2>2 DEF TasksOK
<1> QED
  BY <1>9, <1>11

\* After a step that leaves the row alone.
LEMMA StayBase ==
    ASSUME BaseInv, Grows, NEW w \in Workers, NEW t \in Tasks, StaysAt(w, t)
    PROVE  RowOK' /\ TasksOK'
<1>1. /\ row' = row
      /\ task' = [task EXCEPT ![w] = t]
      /\ TaskFits(t, row, kind', PaidCoins', ClaimedCoins', ReturnedSubs', intake'.refunded)
  BY DEF StaysAt
<1>2. RowOK'
  <2>1. RowTruth(row, PaidCoins', ClaimedCoins', ReturnedSubs', intake'.refunded)
    BY TruthGrows DEF BaseInv, RowOK, RowFits, Grows
  <2> QED
    BY <1>1, <2>1 DEF BaseInv, RowOK, RowFits, Grows
<1>3. TasksOK'
  <2>1. task' \in [Workers -> Tasks] /\ task'[w] = t
    BY <1>1 DEF BaseInv, TasksOK
  <2>2. ASSUME NEW v \in Workers, v # w
        PROVE  TaskFits(task'[v], row', kind', PaidCoins', ClaimedCoins', ReturnedSubs', intake'.refunded)
    <3>1. task'[v] = task[v]
      BY <1>1, <2>2 DEF BaseInv, TasksOK
    <3> QED
      BY <1>1, <2>2, <3>1, OthersFit DEF BaseInv
  <2> QED
    BY <1>1, <2>1, <2>2 DEF TasksOK
<1> QED
  BY <1>2, <1>3

\* A row with a new address: everything else is as it was.
NewAddress(n, r, i) ==
    /\ n \in RowTypes /\ n = [r EXCEPT !.fresh_address = i]
    /\ n.status = r.status /\ n.status_history = r.status_history
    /\ n.submarine_payment_hash = r.submarine_payment_hash
    /\ n.submarine_boltz_swap_id = r.submarine_boltz_swap_id
    /\ n.submarine_funding_txid = r.submarine_funding_txid
    /\ n.channel_open_txid = r.channel_open_txid
    /\ n.fresh_utxo = r.fresh_utxo /\ n.send_txid = r.send_txid /\ n.refund_txid = r.refund_txid

\* A fresh address is all that changes.
LEMMA Addressing ==
    ASSUME NEW r \in RowTypes, NEW i \in Swaps
    PROVE  NewAddress([r EXCEPT !.fresh_address = i], r, i)
BY DEF NewAddress, RowTypes

\* A row with a fresh address fits as it did before.
LEMMA AddressedFits ==
    ASSUME NEW n, NEW r, NEW i, NewAddress(n, r, i), NEW k, NEW coins, NEW claimed, NEW returned,
           NEW refunded, RowFits(r, k, coins, claimed, returned, refunded)
    PROVE  RowFits(n, k, coins, claimed, returned, refunded)
<1>1. RowTruth(n, coins, claimed, returned, refunded)
  BY DEF RowFits, RowTruth, NewAddress
<1>2. RowPath(n, k)
  BY DEF RowFits, RowPath, NewAddress
<1> QED
  BY <1>1, <1>2 DEF RowFits, NewAddress

\* How a task is updated.
Placed(t, p, c, i) ==
    /\ [t EXCEPT !.pc = p].copy = t.copy
    /\ [[[t EXCEPT !.pc = p] EXCEPT !.copy = c] EXCEPT !.made = i]
       = [pc |-> p, copy |-> c, made |-> i, short |-> t.short]

\* A task whose place, copy and result are replaced, one after the other.
LEMMA Placing ==
    ASSUME NEW t \in Tasks, NEW p, NEW c, NEW i
    PROVE  Placed(t, p, c, i)
<1> DEFINE Place(pc, copy, made, short) == [pc |-> pc, copy |-> copy, made |-> made, short |-> short]
<1>1. t = Place(t.pc, t.copy, t.made, t.short)
  BY DEF Tasks
<1>2. ASSUME NEW a, NEW b, NEW m, NEW e
      PROVE  /\ [Place(a, b, m, e) EXCEPT !.pc = p] = Place(p, b, m, e)
             /\ [Place(a, b, m, e) EXCEPT !.copy = c] = Place(a, c, m, e)
             /\ [Place(a, b, m, e) EXCEPT !.made = i] = Place(a, b, i, e)
             /\ Place(a, b, m, e).copy = b
  OBVIOUS
<1> HIDE DEF Place
<1> DEFINE u == [t EXCEPT !.pc = p]
           v == [u EXCEPT !.copy = c]
<1>3. u = Place(p, t.copy, t.made, t.short)
  BY <1>1, <1>2
<1> HIDE DEF u
<1>4. v = Place(p, c, t.made, t.short)
  BY <1>2, <1>3
<1> HIDE DEF v
<1>5. [v EXCEPT !.made = i] = Place(p, c, i, t.short)
  BY <1>2, <1>4
<1>6. u.copy = t.copy
  BY <1>2, <1>3
<1> QED
  BY <1>5, <1>6 DEF Place, Placed, u, v

\* After the commit of a new swap with a new address.
LEMMA AddressBase ==
    ASSUME BaseInv, Grows, NEW w \in Workers, Addressed(w), UNCHANGED <<use, subs, intake>>
    PROVE  RowOK' /\ TasksOK'
<1>1. PICK i \in Swaps :
        /\ At(w, "create")
        /\ row' = [row EXCEPT !.fresh_address = i]
        /\ task' = [task EXCEPT ![w].pc = "link", ![w].copy.fresh_address = i, ![w].made = i]
  BY Zenon DEF Addressed
<1> DEFINE r == task[w].copy
           n == [r EXCEPT !.fresh_address = i]
           t == [pc |-> "link", copy |-> n, made |-> i, short |-> task[w].short]
<1>2. /\ row \in RowTypes /\ r \in RowTypes /\ task[w] \in Tasks
      /\ RowFits(row, kind, PaidCoins, ClaimedCoins, ReturnedSubs, intake.refunded)
      /\ TaskFits(task[w], row, kind, PaidCoins, ClaimedCoins, ReturnedSubs, intake.refunded)
  BY DEF BaseInv, RowOK, TasksOK, RowFits, TaskFits
<1>3. NewAddress(row', row, i) /\ NewAddress(n, r, i)
  BY <1>1, <1>2, Addressing
<1>4. task' = [task EXCEPT ![w] = t]
  <2>1. [task[w] EXCEPT !.pc = "link", !.copy.fresh_address = i, !.made = i] = t
    <3> DEFINE c == [[task[w] EXCEPT !.pc = "link"].copy EXCEPT !.fresh_address = i]
    <3>1. [[[task[w] EXCEPT !.pc = "link"] EXCEPT !.copy = c] EXCEPT !.made = i]
          = [pc |-> "link", copy |-> c, made |-> i, short |-> task[w].short]
      <4> HIDE DEF c
      <4>1. Placed(task[w], "link", c, i)
        BY <1>2, Placing
      <4> QED
        BY <4>1, Zenon DEF Placed
    <3>2. [task[w] EXCEPT !.pc = "link"].copy = r
      <4>1. Placed(task[w], "link", c, i)
        BY <1>2, Placing
      <4> QED
        BY <4>1, Zenon DEF Placed
    <3> QED
      BY <3>1, <3>2
  <2> QED
    BY Zenon, <1>1, <2>1 DEF BaseInv, TasksOK
<1> HIDE DEF n
<1>5. /\ RowFits(row, kind', PaidCoins', ClaimedCoins', ReturnedSubs', intake'.refunded)
      /\ RowFits(r, kind', PaidCoins', ClaimedCoins', ReturnedSubs', intake'.refunded)
  BY Zenon, <1>2, TruthGrows DEF TaskFits, RowFits, Grows
<1>6. /\ RowFits(row', kind', PaidCoins', ClaimedCoins', ReturnedSubs', intake'.refunded)
      /\ RowFits(n, kind', PaidCoins', ClaimedCoins', ReturnedSubs', intake'.refunded)
  BY <1>3, <1>5, AddressedFits
<1>7. TaskFits(t, row', kind', PaidCoins', ClaimedCoins', ReturnedSubs', intake'.refunded)
  <2>1. t \in Tasks
    BY <1>2, <1>3 DEF Tasks, NewAddress, Pcs, CreatedPcs
  <2>2. Remains(n, row')
    BY <1>2, <1>3 DEF TaskFits, Remains, NewAddress
  <2>3. /\ r.status = "created"
        /\ kind \in OnchainKinds => "submarine_swapping" \in r.status_history
    BY <1>1, <1>2 DEF TaskFits, PcStatus, PcPath, At, CreatedPcs
  <2>4. PcStatus("link", n.status) /\ PcPath("link", n, i, kind')
    BY <1>3, <2>3 DEF PcStatus, PcPath, NewAddress, CreatedPcs, InvoicePcs, SamePcs, SubmarinePcs, Grows
  <2>5. PcTruth("link", n, PaidCoins', ReturnedSubs', intake'.refunded)
    BY DEF PcTruth
  <2> QED
    BY <1>6, <2>1, <2>2, <2>4, <2>5 DEF TaskFits
<1>8. TasksOK'
  <2>1. task' \in [Workers -> Tasks] /\ task'[w] = t
    BY <1>4, <1>7 DEF BaseInv, TasksOK, TaskFits
  <2>2. ASSUME NEW v \in Workers, v # w
        PROVE  TaskFits(task'[v], row', kind', PaidCoins', ClaimedCoins', ReturnedSubs', intake'.refunded)
    <3>1. task'[v] = task[v]
      BY <1>4, <2>2 DEF BaseInv, TasksOK
    <3> QED
      BY <1>3, <2>2, <3>1, OthersFit DEF BaseInv, NewAddress
  <2> QED
    BY <1>7, <2>1, <2>2 DEF TasksOK
<1> QED
  BY <1>6, <1>8 DEF RowOK

\* A worker that works on what the row is writes what it has.
LEMMA BecomesNew ==
    ASSUME BaseInv, SoleWorker, NEW w \in Workers, NEW n \in RowTypes, NEW t \in Tasks,
           TurnsTo(w, n, t)
    PROVE  row' = n /\ task[w].copy = row
<1>1. InHandler(w) /\ task[w].copy = row /\ row \in RowTypes
  BY DEF TurnsTo, SoleWorker, BaseInv, RowOK, RowFits
<1>2. row' = [f \in DOMAIN row |->
                 IF (IF f = "status_history" THEN n.status # row.status ELSE n[f] # row[f])
                 THEN n[f] ELSE row[f]]
  BY <1>1 DEF TurnsTo, CommitTo
<1>3. n.status = row.status => n.status_history = row.status_history
  BY <1>1 DEF TurnsTo, TurnOK
<1>4. DOMAIN row = DOMAIN n /\ n = [f \in DOMAIN n |-> n[f]]
  BY <1>1 DEF RowTypes
<1>5. row' = [f \in DOMAIN n |-> n[f]]
  BY <1>2, <1>3, <1>4
<1> QED
  BY <1>1, <1>4, <1>5

\* Only a fund step funds.
LEMMA FundedBy ==
    ASSUME BaseInv, NEW w \in Workers, Does(w), WorldOK'
    PROVE  /\ \A j \in FundedSubs' :
                 j \in FundedSubs \/ (At(w, "fund") /\ j = task[w].copy.submarine_boltz_swap_id)
           /\ PaidSubs \subseteq FundedSubs /\ FundedSubs \subseteq Subs
BY DEF BaseInv, WorldOK, Does, FundedSubs, PaidSubs

\* Where the one worker is after a commit.
LEMMA TurnWorker ==
    ASSUME BaseInv, SoleWorker, NEW w \in Workers, NEW n \in RowTypes, NEW t \in Tasks,
           TurnsTo(w, n, t)
    PROVE  SoleWorker'
<1>1. InHandler(w) /\ task' = [task EXCEPT ![w] = t] /\ row' = n
  BY Zenon, BecomesNew DEF TurnsTo, CommitTo
<1>2. \A v \in Workers : v # w => ~InHandler(v)
  BY <1>1 DEF SoleWorker
<1>3. /\ \A v \in Workers : v # w => task'[v] = task[v]
      /\ task'[w] = t
  BY <1>1 DEF BaseInv, TasksOK
<1>4. t = Idle \/ t.copy = n
  BY DEF TurnsTo, GoesOn
<1>5. InHandler(w)' => t.copy = row'
  BY <1>1, <1>3, <1>4 DEF InHandler, Idle
<1>6. \A v \in Workers : v # w => ~InHandler(v)'
  BY <1>2, <1>3 DEF InHandler
<1> QED
  BY <1>3, <1>5, <1>6 DEF SoleWorker

\* The row after a commit of the one worker.
LEMMA TurnSole ==
    ASSUME BaseInv, WorldOK', SoleInv, ~overlap, NEW w \in Workers, NEW n \in RowTypes,
           NEW t \in Tasks, TurnsTo(w, n, t), Grows, Does(w),
           PaidCoins' = PaidCoins, intake'.refunded => intake.refunded
    PROVE  SoleRow(row', kind', PaidCoins', FundedSubs', PaidSubs', intake'.refunded)
<1> DEFINE r == task[w].copy
           p == task[w].pc
<1>1. /\ SoleWorker
      /\ SoleRow(row, kind, PaidCoins, FundedSubs, PaidSubs, intake.refunded)
  BY DEF SoleInv
<1>2. row' = n /\ r = row
  BY <1>1, BecomesNew
<1>3. TurnOK(p, r, n, kind, PaidSubs)
  BY DEF TurnsTo
<1>4. SoleRow(r, kind, PaidCoins, FundedSubs, PaidSubs, intake.refunded)
  BY <1>1, <1>2
<1>5. /\ PcStatus(p, r.status)
      /\ PcPath(p, r, task[w].made, kind)
  BY DEF BaseInv, TasksOK, TaskFits
<1>6. /\ \A j \in FundedSubs' : j \in FundedSubs \/ (p = "fund" /\ j = r.submarine_boltz_swap_id)
      /\ PaidSubs \subseteq FundedSubs /\ FundedSubs \subseteq Subs
  BY FundedBy DEF At
<1> HIDE DEF r, p
<1>7. /\ \A i \in PaidCoins : n.fresh_utxo = i /\ n.status \in Late
      /\ intake.refunded => n.fresh_utxo = 0 /\ n.status \in Late
  BY <1>3, <1>4 DEF TurnOK, SoleRow, Late
<1>8. n.send_txid # 0 => n.status \in Sent
  BY <1>3, <1>4 DEF TurnOK, SoleRow, Sent
<1>9. n.status \in Early => n.fresh_utxo = 0
  BY <1>3, <1>4 DEF TurnOK, SoleRow, Early
<1>10. p = "sublink" => FundedSubs = {} /\ PaidSubs = {}
  BY <1>4, <1>5, <1>6, DepositAssumption DEF PcPath, SoleRow
<1>11. \A j \in FundedSubs' : n.submarine_boltz_swap_id = j
  BY <1>3, <1>4, <1>6, <1>10 DEF TurnOK, SoleRow
<1>12. kind \in OnchainKinds /\ Passed(n) => n.submarine_boltz_swap_id \in PaidSubs
  <2> SUFFICES ASSUME kind \in OnchainKinds, Passed(n)
               PROVE  n.submarine_boltz_swap_id \in PaidSubs
    OBVIOUS
  <2>1. Passed(r) \/ PaidSubs # {}
    BY <1>3 DEF TurnOK
  <2>2. r.submarine_boltz_swap_id \in PaidSubs
    BY <1>4, <1>6, <2>1 DEF SoleRow
  <2> QED
    BY <1>3, <1>10, <2>2 DEF TurnOK
<1> QED
  BY <1>2, <1>7, <1>8, <1>9, <1>11, <1>12 DEF SoleRow, Grows

\* After a step of a worker that leaves the row alone.
LEMMA StaySole ==
    ASSUME BaseInv, WorldOK', SoleInv, ~overlap', NEW w \in Workers, NEW t \in Tasks,
           StaysAt(w, t), Grows, Does(w)
    PROVE  SoleInv'
<1> DEFINE r == task[w].copy
           p == task[w].pc
<1>1. /\ row' = row /\ task' = [task EXCEPT ![w] = t]
      /\ \/ ~Running(t.pc) /\ overlap' = overlap
         \/ InHandler(w) /\ t.copy = r /\ overlap' = overlap
         \/ overlap' = (overlap \/ Overlaps(w, t.copy))
  BY DEF StaysAt
<1>2. ~overlap
  BY <1>1 DEF BaseInv, WorldOK
<1>3. /\ SoleWorker
      /\ SoleRow(row, kind, PaidCoins, FundedSubs, PaidSubs, intake.refunded)
  BY <1>2 DEF SoleInv
<1>4. /\ \A v \in Workers : v # w => task'[v] = task[v]
      /\ task'[w] = t
  BY <1>1 DEF BaseInv, TasksOK
<1>5. SoleWorker'
  <2>1. Running(t.pc) => t.copy = row /\ \A v \in Workers : v # w => ~InHandler(v)
    BY Zenon, <1>1, <1>3 DEF SoleWorker, Overlaps
  <2>2. \A v \in Workers : v # w => (InHandler(v)' <=> InHandler(v))
    BY <1>4 DEF InHandler
  <2>3. InHandler(w)' <=> Running(t.pc)
    BY <1>4 DEF InHandler, Running
  <2> QED
    BY <1>1, <1>3, <1>4, <2>1, <2>2, <2>3 DEF SoleWorker
<1>6. /\ \A j \in FundedSubs' : j \in FundedSubs \/ (p = "fund" /\ j = r.submarine_boltz_swap_id)
      /\ \A i \in PaidCoins' : i \in PaidCoins \/ (p = "send" /\ i = r.fresh_utxo)
      /\ intake'.refunded => intake.refunded \/ p = "refund"
  BY FundedBy DEF At, Does
<1>7. p \in {"fund", "send", "refund"} =>
         /\ r = row
         /\ PcStatus(p, row.status)
         /\ PcPath(p, row, task[w].made, kind)
  BY <1>3 DEF SoleWorker, InHandler, BaseInv, TasksOK, TaskFits
<1> HIDE DEF r, p
<1>8. p = "send" => row.status \in Late
  BY <1>7 DEF PcStatus, Late, Early, Statuses
<1>9. p = "refund" => row.fresh_utxo = 0 /\ row.status \in Late
  BY <1>7 DEF PcStatus, PcPath, Late, Early, Statuses, Terminal
<1>10. SoleRow(row, kind, PaidCoins', FundedSubs', PaidSubs', intake'.refunded)
  BY <1>3, <1>6, <1>7, <1>8, <1>9 DEF SoleRow, Grows
<1> QED
  BY <1>1, <1>5, <1>10 DEF SoleInv, Grows

\* After the commit of a new swap with a new address.
LEMMA AddressSole ==
    ASSUME BaseInv, SoleInv, ~overlap', NEW w \in Workers, Addressed(w), Grows,
           UNCHANGED <<use, subs, intake>>
    PROVE  SoleInv'
<1>1. PICK i \in Swaps :
        /\ At(w, "create")
        /\ row' = [row EXCEPT !.fresh_address = i]
        /\ task' = [task EXCEPT ![w].pc = "link", ![w].copy.fresh_address = i, ![w].made = i]
        /\ overlap' = overlap
  BY Zenon DEF Addressed, Past
<1>2. /\ SoleWorker
      /\ SoleRow(row, kind, PaidCoins, FundedSubs, PaidSubs, intake.refunded)
  BY <1>1 DEF SoleInv
<1>3. InHandler(w) /\ task[w].copy = row /\ row \in RowTypes /\ task[w] \in Tasks
  BY <1>1, <1>2 DEF At, InHandler, SoleWorker, BaseInv, RowOK, RowFits, TasksOK
<1>4. /\ \A v \in Workers : v # w => task'[v] = task[v]
      /\ task'[w].copy = [task[w].copy EXCEPT !.fresh_address = i]
  BY <1>1, <1>3 DEF BaseInv, TasksOK, Tasks
<1>5. SoleWorker'
  BY Zenon, <1>1, <1>2, <1>3, <1>4 DEF SoleWorker, InHandler
<1>6. NewAddress(row', row, i)
  BY <1>1, <1>3, Addressing
<1>7. SoleRow(row', kind', PaidCoins, FundedSubs, PaidSubs, intake.refunded)
  BY <1>2, <1>6 DEF SoleRow, NewAddress, Passed, Grows
<1>8. PaidCoins' = PaidCoins /\ FundedSubs' = FundedSubs /\ PaidSubs' = PaidSubs /\ intake' = intake
  BY DEF PaidCoins, FundedSubs, PaidSubs, PaidOut
<1> QED
  BY <1>5, <1>7, <1>8 DEF SoleInv

\* What is known of a channel, and of a lockup, stays known.
KnownChannel == Known(row.channel_open_txid, "opened")
KnownLockup == Known(row.submarine_funding_txid, "funding_sent")

\* What is known to have been opened or locked up stays known.
LEMMA StaysKnown ==
    ASSUME BaseInv, SoleInv, NEW w \in Workers, Acts(w), Alone, Alone'
    PROVE  /\ KnownChannel => KnownChannel'
           /\ KnownLockup => KnownLockup'
<1>1. SoleWorker /\ ~overlap /\ ~overlap' /\ ~lost'
  BY DEF SoleInv, Alone
<1>2. CASE Turns(w)
  <2>1. PICK n \in RowTypes, t \in Tasks : TurnsTo(w, n, t)
    BY <1>2 DEF Turns
  <2>2. row' = n /\ task[w].copy = row /\ InHandler(w)
    BY <1>1, <2>1, BecomesNew DEF TurnsTo
  <2>3. TurnOK(task[w].pc, row, n, kind, PaidSubs)
    BY <2>1, <2>2 DEF TurnsTo
  <2>4. ASSUME NEW v \in Workers, NEW p \in {"opened", "funding_sent"}, At(v, p)
        PROVE  task[w].pc = p
    BY <1>1, <2>2, <2>4 DEF SoleWorker, At, InHandler
  <2>5. KnownChannel => n.channel_open_txid \/ n.status \in Late
    BY <2>3, <2>4, Zenon DEF KnownChannel, Known, TurnOK
  <2>6. KnownLockup => n.submarine_funding_txid \/ n.status \in Late
    BY <2>3, <2>4, Zenon DEF KnownLockup, Known, TurnOK
  <2> QED
    BY <2>2, <2>5, <2>6, Zenon DEF KnownChannel, KnownLockup, Known
<1>3. CASE Stays(w)
  <2>1. PICK t \in Tasks : StaysAt(w, t)
    BY <1>3 DEF Stays
  <2>2. row' = row /\ task' = [task EXCEPT ![w] = t] /\ task[w].pc \notin {"opened", "funding_sent"}
    BY <1>1, <2>1 DEF StaysAt
  <2>3. ASSUME NEW v \in Workers, NEW p \in {"opened", "funding_sent"}, At(v, p)
        PROVE  At(v, p)'
    BY <2>2, <2>3 DEF At, BaseInv, TasksOK
  <2> QED
    BY <2>2, <2>3, Zenon DEF KnownChannel, KnownLockup, Known
<1>4. CASE Addressed(w)
  <2>1. PICK i \in Swaps :
        /\ At(w, "create")
        /\ row' = [row EXCEPT !.fresh_address = i]
        /\ task' = [task EXCEPT ![w].pc = "link", ![w].copy.fresh_address = i, ![w].made = i]
    BY Zenon, <1>4 DEF Addressed
  <2>2. NewAddress(row', row, i)
    BY <2>1, Addressing DEF BaseInv, RowOK, RowFits
  <2>3. ASSUME NEW v \in Workers, NEW p \in {"opened", "funding_sent"}, At(v, p)
        PROVE  At(v, p)'
    BY <2>1, <2>3 DEF At, BaseInv, TasksOK
  <2> QED
    BY <2>2, <2>3, Zenon DEF KnownChannel, KnownLockup, Known, NewAddress
<1> QED
  BY <1>2, <1>3, <1>4 DEF Acts

\* The one worker opens and funds only what it does not know of.
LEMMA NotKnown ==
    ASSUME BaseInv, SoleInv, ~overlap, NEW w \in Workers
    PROVE  /\ At(w, "open") \/ At(w, "reopen") => ~KnownChannel
           /\ At(w, "fund") => ~KnownLockup
<1>1. SoleWorker
  BY DEF SoleInv
<1>2. At(w, "open") \/ At(w, "reopen") \/ At(w, "fund") =>
         /\ \A v \in Workers : ~At(v, "opened") /\ ~At(v, "funding_sent")
         /\ task[w].copy = row
  BY <1>1 DEF SoleWorker, At, InHandler
<1>3. /\ PcStatus(task[w].pc, task[w].copy.status)
      /\ PcPath(task[w].pc, task[w].copy, task[w].made, kind)
  BY DEF BaseInv, TasksOK, TaskFits
<1>4. At(w, "open") \/ At(w, "reopen") \/ At(w, "fund") => row.status \notin Late
  BY <1>2, <1>3 DEF At, PcStatus, CreatedPcs, SubmarinePcs, Late, Early
<1>5. /\ At(w, "open") \/ At(w, "reopen") => ~row.channel_open_txid
      /\ At(w, "fund") => ~row.submarine_funding_txid
  BY <1>2, <1>3 DEF At, PcPath
<1> QED
  BY <1>2, <1>4, <1>5, Zenon DEF KnownChannel, KnownLockup, Known

\* A channel or a lockup is made only when none is known.
LEMMA KnownNext ==
    ASSUME BaseInv, WorldOK', SoleInv, KnownInv, NEW w \in Workers, Acts(w), Alone, Alone'
    PROVE  KnownInv'
<1>1. /\ channel.opened <= 1
      /\ channel.opened > 0 => KnownChannel
      /\ \A j \in Subs : subs[j].lockups <= 1
      /\ \A j \in Subs : subs[j].lockups > 0 => KnownLockup
  BY Zenon DEF KnownInv, KnownChannel, KnownLockup
<1>2. /\ KnownChannel => KnownChannel'
      /\ KnownLockup => KnownLockup'
  BY StaysKnown
<1>3. /\ At(w, "open") \/ At(w, "reopen") => ~KnownChannel
      /\ At(w, "fund") => ~KnownLockup
  BY NotKnown DEF Alone
<1>4. Does(w)
  BY DEF Acts
<1>5. /\ task'[w].pc = "opened" \/ row'.status \in Late => KnownChannel'
      /\ task'[w].pc = "funding_sent" \/ row'.status \in Late => KnownLockup'
  BY Zenon DEF KnownChannel, KnownLockup, Known, At
<1>6. /\ channel.opened \in 0..2
      /\ \A j \in Subs : subs[j].lockups \in 0..2
  BY DEF BaseInv, WorldOK, SubRows
<1>7. channel'.opened <= 1 /\ (channel'.opened > 0 => KnownChannel')
  <2>1. CASE channel'.opened = channel.opened
    BY <1>1, <1>2, <2>1
  <2>2. CASE channel'.opened # channel.opened
    <3>1. /\ At(w, "open") \/ At(w, "reopen")
          /\ channel'.opened = channel.opened + 1
          /\ task'[w].pc = "opened" \/ row'.status \in Late
      BY <1>4, <2>2 DEF Does, Alone
    <3>2. ~(channel.opened > 0)
      BY <1>1, <1>3, <3>1
    <3>3. KnownChannel'
      BY <1>5, <3>1
    <3> QED
      BY <1>6, <3>1, <3>2, <3>3
  <2> QED
    BY <2>1, <2>2
<1>8. ASSUME NEW j \in Subs
      PROVE  subs'[j].lockups <= 1 /\ (subs'[j].lockups > 0 => KnownLockup')
  <2>1. CASE subs'[j].lockups = subs[j].lockups
    BY <1>1, <1>2, <2>1
  <2>2. CASE subs'[j].lockups # subs[j].lockups
    <3>1. /\ At(w, "fund") /\ subs'[j].lockups = subs[j].lockups + 1
          /\ task'[w].pc = "funding_sent" \/ row'.status \in Late
      BY <1>4, <2>2 DEF Does
    <3>2. ~(subs[j].lockups > 0)
      BY <1>1, <1>3, <3>1
    <3>3. KnownLockup'
      BY <1>5, <3>1
    <3> QED
      BY <1>6, <3>1, <3>2, <3>3
  <2> QED
    BY <2>1, <2>2
<1> QED
  BY <1>7, <1>8, Zenon DEF KnownInv, KnownChannel, KnownLockup

\* A step of a worker preserves the invariant.
LEMMA ActsHolds ==
    ASSUME DepositInv, WorldOK', NEW w \in Workers, Acts(w)
    PROVE  DepositInv'
<1> USE DEF DepositInv
<1>1. Grows /\ Does(w)
  BY DEF Acts
<1>2. RowOK' /\ TasksOK'
  <2>1. CASE Turns(w)
    BY <1>1, <2>1, TurnBase DEF Turns
  <2>2. CASE Stays(w)
    BY <1>1, <2>2, StayBase DEF Stays
  <2>3. CASE Addressed(w) /\ UNCHANGED <<use, subs, intake, channel>>
    BY <1>1, <2>3, AddressBase
  <2> QED
    BY <2>1, <2>2, <2>3 DEF Acts
<1>3. SoleInv'
  <2> SUFFICES ASSUME ~overlap' PROVE SoleInv'
    BY DEF SoleInv
  <2>1. CASE Turns(w) /\ PaidCoins' = PaidCoins /\ (intake'.refunded => intake.refunded)
    <3>1. PICK n \in RowTypes, t \in Tasks : TurnsTo(w, n, t)
      BY <2>1 DEF Turns
    <3>2. ~overlap /\ SoleWorker
      BY <3>1 DEF TurnsTo, Past, SoleInv
    <3>3. SoleWorker'
      BY <3>1, <3>2, TurnWorker
    <3>4. SoleRow(row', kind', PaidCoins', FundedSubs', PaidSubs', intake'.refunded)
      BY <1>1, <2>1, <3>1, <3>2, TurnSole
    <3> QED
      BY <3>3, <3>4 DEF SoleInv
  <2>2. CASE Stays(w)
    BY <1>1, <2>2, StaySole DEF Stays
  <2>3. CASE Addressed(w) /\ UNCHANGED <<use, subs, intake, channel>>
    BY <1>1, <2>3, AddressSole
  <2> QED
    BY <2>1, <2>2, <2>3 DEF Acts
<1>4. KnownInv'
  <2> SUFFICES ASSUME Alone' PROVE KnownInv'
    BY DEF KnownInv
  <2>1. Alone
    <3>1. CASE Turns(w)
      BY <3>1 DEF Turns, TurnsTo, Past, Alone
    <3>2. CASE Stays(w)
      BY <3>2 DEF Stays, StaysAt, Alone, BaseInv, WorldOK
    <3>3. CASE Addressed(w)
      BY <3>3 DEF Addressed, Past, Alone
    <3> QED
      BY <3>1, <3>2, <3>3 DEF Acts
  <2> QED
    BY <2>1, KnownNext
<1> QED
  BY <1>2, <1>3, <1>4 DEF BaseInv

\* What EndIsFinal says of one step.
FinalStep ==
    /\ row.status \in {"completed", "refunded"} => row'.status = row.status
    /\ row.status = "cancelled" => row'.status \in {"cancelled", "refunded"}
    /\ row.send_txid # 0 => row'.send_txid = row.send_txid
    /\ row.refund_txid => row'.refund_txid

\* A lockup that is returned was not paid for; so the session has not ended
\* with a deposit.
LEMMA ActsFinal ==
    ASSUME DepositInv, NEW w \in Workers, Acts(w), ~overlap'
    PROVE  FinalStep
<1>1. CASE Turns(w)
  <2>1. PICK n \in RowTypes, t \in Tasks : TurnsTo(w, n, t)
    BY <1>1 DEF Turns
  <2>2. /\ SoleWorker
        /\ SoleRow(row, kind, PaidCoins, FundedSubs, PaidSubs, intake.refunded)
    BY <2>1 DEF TurnsTo, Past, DepositInv, SoleInv
  <2>3. row' = n /\ task[w].copy = row
    BY <2>1, <2>2, BecomesNew DEF DepositInv
  <2>4. TurnOK(task[w].pc, row, n, kind, PaidSubs)
    BY <2>1, <2>3 DEF TurnsTo
  <2>5. /\ PcPath(task[w].pc, row, task[w].made, kind)
        /\ PcTruth(task[w].pc, row, PaidCoins, ReturnedSubs, intake.refunded)
        /\ RowPath(row, kind)
    BY <2>3 DEF DepositInv, BaseInv, TasksOK, TaskFits, RowFits
  <2>6. row.status # "completed"
    <3> SUFFICES ASSUME row.status = "completed" PROVE FALSE
      OBVIOUS
    <3>1. task[w].pc = "lockup_refunded"
      BY <2>4 DEF TurnOK
    <3>2. row.submarine_boltz_swap_id # 0 /\ row.submarine_boltz_swap_id \in ReturnedSubs
      BY <2>5, <3>1 DEF PcPath, PcTruth
    <3>3. kind \in OnchainKinds
      BY <2>5, <3>2 DEF RowPath
    <3>4. row.submarine_boltz_swap_id \in PaidSubs
      BY <2>2, <3>3 DEF SoleRow, Passed
    <3> QED
      BY <3>2, <3>4 DEF ReturnedSubs, PaidSubs
  <2>7. row.send_txid # 0 => row.status # "sending"
    BY <2>2 DEF SoleRow, Sent
  <2> QED
    BY <2>3, <2>4, <2>6, <2>7 DEF TurnOK, FinalStep
<1>2. CASE Stays(w)
  BY <1>2, Zenon DEF Stays, StaysAt, FinalStep
<1>3. CASE Addressed(w)
  <2>1. PICK i \in Swaps : row' = [row EXCEPT !.fresh_address = i]
    BY <1>3 DEF Addressed
  <2>2. NewAddress(row', row, i)
    BY <2>1, Addressing DEF DepositInv, BaseInv, RowOK, RowFits
  <2> QED
    BY <2>2 DEF NewAddress, FinalStep
<1> QED
  BY <1>1, <1>2, <1>3 DEF Acts

(***************************************************************************)
(* Every step of a worker amounts to one of these.                         *)
(***************************************************************************)

\* Nothing happens outside.
Quiet ==
    /\ kind' = kind /\ PaidCoins' = PaidCoins /\ ClaimedCoins' = ClaimedCoins
    /\ ReturnedSubs' = ReturnedSubs /\ PaidSubs' = PaidSubs /\ intake' = intake

\* A step that leaves the world alone.
LEMMA Quietly ==
    ASSUME UNCHANGED <<kind, World>>, NEW w \in Workers
    PROVE  Quiet /\ Grows /\ Does(w)
<1>1. Quiet
  BY DEF Quiet, World, PaidCoins, PaidOut, ClaimedCoins, ReturnedSubs, PaidSubs
<1>2. Grows
  BY <1>1 DEF Quiet, Grows
<1>3. Does(w)
  BY <1>1 DEF Quiet, Does, World
<1> QED
  BY <1>1, <1>2, <1>3

\* A row the worker w may commit.
Good(w, n) ==
    /\ n \in RowTypes
    /\ RowTruth(n, PaidCoins, ClaimedCoins, ReturnedSubs, intake.refunded)
    /\ RowPath(n, kind)
    /\ TurnOK(task[w].pc, task[w].copy, n, kind, PaidSubs)

\* The state of the rest after a step of the worker that leaves the world alone.
LEMMA WorldStays ==
    ASSUME WorldOK, UNCHANGED <<kind, World>>, lock' \in Workers \cup {Nobody},
           overlap' \in BOOLEAN, lost' \in BOOLEAN, events' \in 0..MaxEvents
    PROVE  WorldOK'
BY DEF WorldOK, World

\* The commit of a good row turns the row.
LEMMA Committing ==
    ASSUME BaseInv, NEW w \in Workers, InHandler(w), NEW n, NEW t \in Tasks, Good(w, n),
           CommitTo(w, n, t), GoesOn(t, n, kind), UNCHANGED Past, Grows
    PROVE  Turns(w)
<1>1. RowFits(n, kind', PaidCoins', ClaimedCoins', ReturnedSubs', intake'.refunded)
  BY TruthGrows DEF Good, RowFits, Grows
<1> QED
  BY <1>1, Zenon DEF Turns, TurnsTo, Good

\* A commit leaves the lock to nobody.
LEMMA CommitTyped ==
    ASSUME NEW w \in Workers, NEW n, NEW t, CommitTo(w, n, t)
    PROVE  lock' \in Workers \cup {Nobody}
BY DEF CommitTo

\* A commit after which the worker is done.
LEMMA CommitIdle ==
    ASSUME BaseInv, NEW w \in Workers, InHandler(w), NEW n, Good(w, n), Commit(w, n, "idle"),
           UNCHANGED <<kind, World, Past>>
    PROVE  Acts(w) /\ WorldOK'
<1>1. CommitTo(w, n, Idle) /\ Idle \in Tasks
  BY IdleFits DEF Commit
<1>2. Quiet /\ Grows /\ Does(w)
  BY Quietly
<1>3. Turns(w)
  BY <1>1, <1>2, Committing DEF GoesOn
<1>4. WorldOK'
  BY <1>1, CommitTyped, WorldStays DEF BaseInv, WorldOK, Past
<1> QED
  BY <1>2, <1>3, <1>4 DEF Acts, Quiet

\* A commit after which the worker goes on.
LEMMA CommitOn ==
    ASSUME BaseInv, NEW w \in Workers, InHandler(w), NEW n, Good(w, n),
           NEW p \in Pcs \ {"idle", "sent", "lockup_refunded", "intake_refunded"}, Commit(w, n, p),
           PcStatus(p, n.status), PcPath(p, n, task[w].made, kind), UNCHANGED <<kind, World, Past>>
    PROVE  Acts(w) /\ WorldOK'
<1> DEFINE t == [task[w] EXCEPT !.pc = p, !.copy = n]
<1>1. t \in Tasks /\ t.pc = p /\ t.copy = n /\ t.made = task[w].made
  <2>1. task[w] \in Tasks /\ n \in RowTypes
    BY DEF BaseInv, TasksOK, Good
  <2> QED
    BY Zenon, <2>1 DEF Tasks
<1>2. CommitTo(w, n, t)
  BY DEF Commit
<1> HIDE DEF t
<1>3. Quiet /\ Grows /\ Does(w)
  BY Quietly
<1>4. GoesOn(t, n, kind)
  BY <1>1 DEF GoesOn
<1>5. Turns(w)
  BY <1>1, <1>2, <1>3, <1>4, Committing
<1>6. WorldOK'
  BY <1>2, CommitTyped, WorldStays DEF BaseInv, WorldOK, Past
<1> QED
  BY <1>3, <1>5, <1>6 DEF Acts, Quiet

\* The worker goes on without a commit of the row.
LEMMA GoingOn ==
    ASSUME BaseInv, NEW w \in Workers, InHandler(w), NEW p \in Pcs, Goto(w, p),
           UNCHANGED <<row, overlap>>, lost => lost', Grows,
           PcStatus(p, task[w].copy.status), PcPath(p, task[w].copy, task[w].made, kind),
           PcTruth(p, task[w].copy, PaidCoins', ReturnedSubs', intake'.refunded),
           task[w].pc \notin {"opened", "funding_sent"}
    PROVE  Stays(w) /\ task'[w].pc = p
<1> DEFINE t == [task[w] EXCEPT !.pc = p]
           c == task[w].copy
<1>1. /\ task[w] \in Tasks
      /\ TaskFits(task[w], row, kind, PaidCoins, ClaimedCoins, ReturnedSubs, intake.refunded)
  BY DEF BaseInv, TasksOK
<1>2. t \in Tasks /\ t.pc = p /\ t.copy = c /\ t.made = task[w].made
  BY <1>1 DEF Tasks
<1>3. task' = [task EXCEPT ![w] = t] /\ task'[w] = t
  BY DEF Goto, BaseInv, TasksOK
<1> HIDE DEF t
<1>4. RowTruth(c, PaidCoins', ClaimedCoins', ReturnedSubs', intake'.refunded) /\ RowPath(c, kind')
  BY <1>1, TruthGrows DEF TaskFits, RowFits, Grows
<1>5. TaskFits(t, row, kind', PaidCoins', ClaimedCoins', ReturnedSubs', intake'.refunded)
  BY <1>1, <1>2, <1>4 DEF TaskFits, RowFits, Grows
<1>6. StaysAt(w, t)
  BY <1>2, <1>3, <1>5 DEF StaysAt
<1> QED
  BY <1>2, <1>3, <1>6 DEF Stays

LEMMA Going ==
    ASSUME BaseInv, NEW w \in Workers, InHandler(w), NEW p \in Pcs, Goto(w, p),
           UNCHANGED <<row, Past>>, Grows,
           PcStatus(p, task[w].copy.status), PcPath(p, task[w].copy, task[w].made, kind),
           PcTruth(p, task[w].copy, PaidCoins', ReturnedSubs', intake'.refunded),
           task[w].pc \notin {"opened", "funding_sent"}
    PROVE  Stays(w) /\ task'[w].pc = p
BY GoingOn DEF Past

\* The worker is done, or dies.
LEMMA Leaving ==
    ASSUME BaseInv, NEW w \in Workers, UNCHANGED row, task' = [task EXCEPT ![w] = Idle],
           overlap' = overlap, lost => lost', task[w].pc \in {"opened", "funding_sent"} => lost'
    PROVE  Stays(w)
<1>1. /\ Idle \in Tasks
      /\ TaskFits(Idle, row, kind', PaidCoins', ClaimedCoins', ReturnedSubs', intake'.refunded)
  BY IdleFits
<1>2. StaysAt(w, Idle)
  BY <1>1 DEF StaysAt, Running, Idle
<1> QED
  BY <1>1, <1>2 DEF Stays

\* A handler that has nothing to do leaves everything as it is.
LEMMA LeaveActs ==
    ASSUME BaseInv, NEW w \in Workers, Leave(w), UNCHANGED <<kind, World, Past>>,
           task[w].pc \notin {"opened", "funding_sent"}
    PROVE  Acts(w) /\ WorldOK'
<1>1. Stays(w)
  BY Zenon, Leaving DEF Leave, Past
<1>2. lock' \in Workers \cup {Nobody}
  BY DEF Leave, BaseInv, WorldOK
<1>3. WorldOK'
  BY <1>2, WorldStays DEF BaseInv, WorldOK, Past
<1> QED
  BY <1>1, <1>3, Quietly DEF Acts

\* A row n that is r but for its status, and for what the dispatch does not
\* look at.
MovedRow(n, r, s) ==
    /\ n \in RowTypes
    /\ n.status = s
    /\ n.status_history = r.status_history \cup ({s} \cap Remembered)
    /\ n.submarine_payment_hash = r.submarine_payment_hash
    /\ n.submarine_boltz_swap_id = r.submarine_boltz_swap_id
    /\ n.submarine_funding_txid = r.submarine_funding_txid
    /\ n.channel_open_txid = r.channel_open_txid
    /\ n.fresh_utxo = r.fresh_utxo /\ n.send_txid = r.send_txid /\ n.refund_txid = r.refund_txid

\* record_transition changes the status, and the history with it.
LEMMA Moving ==
    ASSUME NEW r \in RowTypes, NEW s \in Statuses
    PROVE  MovedRow(Moved(r, s), r, s)
<1>1. Moved(r, s) \in RowTypes
  BY Zenon DEF Moved, RowTypes, Remembered
<1> QED
  BY <1>1 DEF Moved, MovedRow, RowTypes

\* A transition together with a field the invariant does not look at.
LEMMA MovingMore ==
    ASSUME NEW r \in RowTypes, NEW s \in Statuses, NEW b \in BOOLEAN,
           NEW i \in Swaps \cup {0}
    PROVE  /\ MovedRow([Moved(r, s) EXCEPT !.accept_underpay = b], r, s)
           /\ MovedRow(Moved([r EXCEPT !.boltz_swap_id = i], s), r, s)
           /\ MovedRow(Moved([r EXCEPT !.fresh_address = i], s), r, s)
<1>1. MovedRow([Moved(r, s) EXCEPT !.accept_underpay = b], r, s)
  <2> DEFINE m == Moved(r, s)
  <2>1. MovedRow(m, r, s)
    BY Moving
  <2> HIDE DEF m
  <2>2. MovedRow([m EXCEPT !.accept_underpay = b], r, s)
    BY <2>1 DEF MovedRow, RowTypes
  <2> QED
    BY <2>2 DEF m
<1>2. ASSUME NEW q \in RowTypes,
             /\ q.status_history = r.status_history
             /\ q.submarine_payment_hash = r.submarine_payment_hash
             /\ q.submarine_boltz_swap_id = r.submarine_boltz_swap_id
             /\ q.submarine_funding_txid = r.submarine_funding_txid
             /\ q.channel_open_txid = r.channel_open_txid
             /\ q.fresh_utxo = r.fresh_utxo /\ q.send_txid = r.send_txid
             /\ q.refund_txid = r.refund_txid
      PROVE  MovedRow(Moved(q, s), r, s)
  BY <1>2, Moving DEF MovedRow
<1>3. MovedRow(Moved([r EXCEPT !.boltz_swap_id = i], s), r, s)
  <2> DEFINE q == [r EXCEPT !.boltz_swap_id = i]
  <2>1. /\ q \in RowTypes
        /\ q.status_history = r.status_history
        /\ q.submarine_payment_hash = r.submarine_payment_hash
        /\ q.submarine_boltz_swap_id = r.submarine_boltz_swap_id
        /\ q.submarine_funding_txid = r.submarine_funding_txid
        /\ q.channel_open_txid = r.channel_open_txid
        /\ q.fresh_utxo = r.fresh_utxo /\ q.send_txid = r.send_txid
        /\ q.refund_txid = r.refund_txid
    BY DEF RowTypes
  <2> HIDE DEF q
  <2>2. MovedRow(Moved(q, s), r, s)
    BY <1>2, <2>1
  <2> QED
    BY <2>2 DEF q
<1>4. MovedRow(Moved([r EXCEPT !.fresh_address = i], s), r, s)
  <2> DEFINE q == [r EXCEPT !.fresh_address = i]
  <2>1. /\ q \in RowTypes
        /\ q.status_history = r.status_history
        /\ q.submarine_payment_hash = r.submarine_payment_hash
        /\ q.submarine_boltz_swap_id = r.submarine_boltz_swap_id
        /\ q.submarine_funding_txid = r.submarine_funding_txid
        /\ q.channel_open_txid = r.channel_open_txid
        /\ q.fresh_utxo = r.fresh_utxo /\ q.send_txid = r.send_txid
        /\ q.refund_txid = r.refund_txid
    BY DEF RowTypes
  <2> HIDE DEF q
  <2>2. MovedRow(Moved(q, s), r, s)
    BY <1>2, <2>1
  <2> QED
    BY <2>2 DEF q
<1> QED
  BY <1>1, <1>3, <1>4

\* The status s may follow for a row r, at p, in a session of kind k.
MayFollow(p, r, s, k, settled) ==
    /\ s \in Statuses /\ r.status # s
    /\ r.status \in Late => s \in Late
    /\ s \in Early => r.status \in Early
    /\ r.status \in Sent /\ r.send_txid # 0 => s \in Sent
    /\ r.status \notin {"completed", "refunded", "cancelled"}
    /\ p \notin {"opened", "funding_sent"}
    /\ s \in {"broadcast", "completed"} => r.send_txid # 0
    /\ s = "submarine_swapping" =>
          k \in OnchainKinds /\ (k = "ext_onchain" => "awaiting_onchain_funds" \in r.status_history)
    /\ s = "awaiting_onchain_funds" => "submarine_swapping" \notin r.status_history
    /\ s = "awaiting_ln_funds" => k = "ext_lightning"
    /\ s = "opening_channel" => k \in ChannelKinds
    /\ k \in OnchainKinds =>
          /\ s \in {"swapping", "funded", "sending", "awaiting_fee_reduction", "broadcast", "completed"} =>
                Passed(r)
          /\ s = "created" /\ "submarine_swapping" \in r.status_history => settled # {}

\* A status that may follow makes a good row.
LEMMA Following ==
    ASSUME BaseInv, NEW w \in Workers, NEW n, NEW s, MovedRow(n, task[w].copy, s),
           MayFollow(task[w].pc, task[w].copy, s, kind, PaidSubs)
    PROVE  Good(w, n)
<1> DEFINE r == task[w].copy
           p == task[w].pc
<1>1. RowFits(r, kind, PaidCoins, ClaimedCoins, ReturnedSubs, intake.refunded)
  BY DEF BaseInv, TasksOK, TaskFits
<1>2. MovedRow(n, r, s) /\ MayFollow(p, r, s, kind, PaidSubs)
  OBVIOUS
<1>3. task[w].copy = r /\ task[w].pc = p
  OBVIOUS
<1> HIDE DEF r, p
<1>4. RowTruth(n, PaidCoins, ClaimedCoins, ReturnedSubs, intake.refunded)
  BY <1>1, <1>2 DEF RowFits, RowTruth, MovedRow
<1>5. RowPath(n, kind)
  <2>1. RowPath(r, kind)
    BY <1>1 DEF RowFits
  <2>2. /\ "submarine_swapping" \in n.status_history <=>
              "submarine_swapping" \in r.status_history \/ s = "submarine_swapping"
        /\ "awaiting_onchain_funds" \in r.status_history => "awaiting_onchain_funds" \in n.status_history
    BY Zenon, <1>2 DEF MovedRow, Remembered
  <2> QED
    BY <1>2, <2>1, <2>2 DEF RowPath, MovedRow, MayFollow
<1>6. TurnOK(p, r, n, kind, PaidSubs)
  <2>1. kind \in OnchainKinds /\ Passed(n) => Passed(r) \/ PaidSubs # {}
    BY <1>2 DEF MovedRow, MayFollow, Passed, Remembered
  <2> QED
    BY <1>2, <2>1 DEF TurnOK, MovedRow, MayFollow
<1> QED
  BY <1>2, <1>3, <1>4, <1>5, <1>6 DEF Good, MovedRow

\* What is known of the worker w where it is.
Sound(w) ==
    /\ task[w] \in Tasks
    /\ task[w].copy \in RowTypes
    /\ RowTruth(task[w].copy, PaidCoins, ClaimedCoins, ReturnedSubs, intake.refunded)
    /\ RowPath(task[w].copy, kind)
    /\ PcStatus(task[w].pc, task[w].copy.status)
    /\ PcPath(task[w].pc, task[w].copy, task[w].made, kind)
    /\ PcTruth(task[w].pc, task[w].copy, PaidCoins, ReturnedSubs, intake.refunded)

\* The invariant, as seen from one worker.
LEMMA Soundness ==
    ASSUME BaseInv, NEW w \in Workers
    PROVE  Sound(w)
BY DEF BaseInv, TasksOK, TaskFits, RowFits, Sound

\* A session that has not ended may fail.
LEMMA FailGood ==
    ASSUME BaseInv, NEW w \in Workers, task[w].copy.status \notin Terminal,
           task[w].copy.status = "broadcast" => task[w].copy.send_txid = 0,
           task[w].pc \notin {"opened", "funding_sent"}, NEW n, MovedRow(n, task[w].copy, "failed")
    PROVE  Good(w, n)
<1>1. MayFollow(task[w].pc, task[w].copy, "failed", kind, PaidSubs)
  BY DEF MayFollow, Statuses, Terminal, Late, Early, Sent
<1> QED
  BY <1>1, Following

\* A BraiinsDepositError, in a handler that did nothing outside.
LEMMA FailActs ==
    ASSUME BaseInv, NEW w \in Workers, InHandler(w), task[w].copy.status \notin Terminal,
           task[w].copy.status = "broadcast" => task[w].copy.send_txid = 0,
           task[w].pc \notin {"opened", "funding_sent"},
           Fail(w, task[w].copy), UNCHANGED <<kind, World, Past>>
    PROVE  Acts(w) /\ WorldOK'
<1>1. MovedRow(Moved(task[w].copy, "failed"), task[w].copy, "failed")
  BY Soundness, Moving DEF Sound, Statuses, Terminal
<1>2. Good(w, Moved(task[w].copy, "failed"))
  BY <1>1, FailGood
<1> QED
  BY <1>2, CommitIdle DEF Fail

\* A commit of another status.
LEMMA StatusActs ==
    ASSUME BaseInv, NEW w \in Workers, InHandler(w), NEW s,
           MayFollow(task[w].pc, task[w].copy, s, kind, PaidSubs),
           Commit(w, Moved(task[w].copy, s), "idle"), UNCHANGED <<kind, World, Past>>
    PROVE  Acts(w) /\ WorldOK'
<1>1. s \in Statuses
  BY DEF MayFollow
<1>2. MovedRow(Moved(task[w].copy, s), task[w].copy, s)
  BY <1>1, Soundness, Moving DEF Sound
<1>3. Good(w, Moved(task[w].copy, s))
  BY <1>2, Following
<1> QED
  BY <1>3, CommitIdle

\* The session is linked to its reverse swap.
LEMMA LinkSwapActs ==
    ASSUME BaseInv, NEW w \in Workers, LinkSwap(w)
    PROVE  Acts(w) /\ WorldOK'
<1> DEFINE r == task[w].copy
           to == IF kind = "ext_lightning" THEN "awaiting_ln_funds" ELSE "swapping"
           n == Moved([r EXCEPT !.boltz_swap_id = task[w].made], to)
<1>1. /\ InHandler(w) /\ task[w].pc = "link" /\ UNCHANGED <<kind, World, Past>>
      /\ Commit(w, n, "idle")
  BY DEF LinkSwap, At, InHandler
<1>2. /\ r \in RowTypes /\ r.status = "created" /\ task[w].made \in Swaps
      /\ kind \in OnchainKinds => "submarine_swapping" \in r.status_history
  BY <1>1, Soundness DEF Sound, PcStatus, PcPath, CreatedPcs
<1>3. to \in Statuses
  BY DEF Statuses
<1>4. MovedRow(n, r, to)
  <2> HIDE DEF to
  <2> QED
    BY <1>2, <1>3, MovingMore, Zenon
<1>5. MayFollow("link", r, to, kind, PaidSubs)
  BY <1>2, <1>3 DEF MayFollow, Late, Early, Sent, Passed, OnchainKinds
<1>6. Good(w, n)
  BY <1>1, <1>4, <1>5, Following
<1> QED
  BY <1>1, <1>6, CommitIdle

\* The intake address is issued.
LEMMA IssueAddressActs ==
    ASSUME BaseInv, NEW w \in Workers, IssueAddress(w)
    PROVE  Acts(w) /\ WorldOK'
<1>1. InHandler(w) /\ task[w].pc = "intake" /\ UNCHANGED <<kind, World, Past>>
  BY DEF IssueAddress, At, InHandler
<1>2. /\ task[w].copy.status = "created"
      /\ "submarine_swapping" \notin task[w].copy.status_history
  BY <1>1, Soundness DEF Sound, PcStatus, PcPath, RowPath, CreatedPcs, OnchainKinds
<1>3. MayFollow(task[w].pc, task[w].copy, "awaiting_onchain_funds", kind, PaidSubs)
  BY <1>1, <1>2 DEF MayFollow, Late, Early, Sent, Statuses
<1>4. CASE Commit(w, Moved(task[w].copy, "awaiting_onchain_funds"), "idle")
  BY <1>1, <1>3, <1>4, StatusActs
<1>5. CASE Fail(w, task[w].copy)
  BY <1>1, <1>2, <1>5, FailActs DEF Terminal
<1> QED
  BY <1>4, <1>5 DEF IssueAddress

\* A commit of what the invariant does not look at.
SameRow(n, r) ==
    /\ n \in RowTypes
    /\ n.status = r.status /\ n.status_history = r.status_history
    /\ n.submarine_payment_hash = r.submarine_payment_hash \/ n.submarine_payment_hash # 0
    /\ n.submarine_boltz_swap_id = r.submarine_boltz_swap_id
    /\ n.submarine_funding_txid = r.submarine_funding_txid
    /\ n.channel_open_txid = r.channel_open_txid
    /\ n.fresh_utxo = r.fresh_utxo /\ n.send_txid = r.send_txid /\ n.refund_txid = r.refund_txid

\* The commits that change nothing the invariant looks at.
LEMMA SameRows ==
    ASSUME NEW r \in RowTypes
    PROVE  /\ \A x \in Subs : SameRow([r EXCEPT !.submarine_payment_hash = x], r)
           /\ \A x \in {"none", "part", "full"} : SameRow([r EXCEPT !.received = x], r)
           /\ \A i \in Swaps : SameRow([r EXCEPT !.boltz_swap_id = i, !.fresh_address = i], r)
<1>1. ASSUME NEW x \in Subs PROVE SameRow([r EXCEPT !.submarine_payment_hash = x], r)
  BY DepositAssumption DEF SameRow, RowTypes
<1>2. ASSUME NEW x \in {"none", "part", "full"} PROVE SameRow([r EXCEPT !.received = x], r)
  BY DEF SameRow, RowTypes
<1>3. ASSUME NEW i \in Swaps PROVE SameRow([r EXCEPT !.boltz_swap_id = i, !.fresh_address = i], r)
  BY Zenon DEF SameRow, RowTypes
<1> QED
  BY Zenon, <1>1, <1>2, <1>3

\* They make a good row.
LEMMA SameGood ==
    ASSUME BaseInv, NEW w \in Workers, NEW n, SameRow(n, task[w].copy),
           task[w].copy.status \notin Terminal, task[w].pc \notin {"opened", "funding_sent"}
    PROVE  Good(w, n)
<1>1. RowTruth(n, PaidCoins, ClaimedCoins, ReturnedSubs, intake.refunded)
  BY Soundness DEF Sound, RowTruth, SameRow
<1>2. RowPath(n, kind)
  BY Soundness DEF Sound, RowPath, SameRow
<1>3. TurnOK(task[w].pc, task[w].copy, n, kind, PaidSubs)
  BY DEF TurnOK, SameRow, Terminal, Passed
<1> QED
  BY <1>1, <1>2, <1>3 DEF Good, SameRow

\* _advance_created_onchain takes up where the row says it left off.
LEMMA MakeInvoiceActs ==
    ASSUME BaseInv, NEW w \in Workers, MakeInvoice(w)
    PROVE  Acts(w) /\ WorldOK'
<1> DEFINE r == task[w].copy
<1>1. InHandler(w) /\ task[w].pc = "invoice" /\ UNCHANGED <<kind, World, Past>>
  BY DEF MakeInvoice, At, InHandler
<1>2. /\ r \in RowTypes /\ r.status = "created" /\ kind \in OnchainKinds
      /\ "submarine_swapping" \notin r.status_history
      /\ kind = "ext_onchain" => "awaiting_onchain_funds" \in r.status_history
      /\ r.submarine_funding_txid => r.submarine_boltz_swap_id # 0
      /\ r.submarine_boltz_swap_id # 0 => r.submarine_payment_hash # 0
  BY <1>1, Soundness DEF Sound, PcStatus, PcPath, RowPath, CreatedPcs, SubmarinePcs
<1>3. ASSUME NEW n \in NewInvoices, r.submarine_payment_hash = 0,
             Commit(w, [r EXCEPT !.submarine_payment_hash = n], "subswap")
      PROVE  Acts(w) /\ WorldOK'
  <2> DEFINE m == [r EXCEPT !.submarine_payment_hash = n]
  <2>1. n \in Subs
    BY DEF NewInvoices
  <2>2. SameRow(m, r) /\ m.submarine_payment_hash = n /\ n # 0
    BY Zenon, <1>2, <2>1, SameRows, DepositAssumption DEF RowTypes
  <2>3. Commit(w, m, "subswap")
    BY <1>3
  <2> HIDE DEF m
  <2>4. Good(w, m)
    BY <1>1, <1>2, <2>2, SameGood DEF Terminal
  <2>5. PcStatus("subswap", m.status)
    BY <1>2, <2>2 DEF SameRow, PcStatus, CreatedPcs, SubmarinePcs, InvoicePcs, SamePcs
  <2>6. PcPath("subswap", m, task[w].made, kind)
    BY <1>2, <1>3, <2>2 DEF SameRow, PcPath
  <2> QED
    BY <1>1, <2>3, <2>4, <2>5, <2>6, CommitOn DEF Pcs, CreatedPcs, SubmarinePcs
<1>4. ASSUME r.submarine_payment_hash # 0, UNCHANGED <<row, lock>>,
             Goto(w, IF r.submarine_boltz_swap_id = 0 THEN "subswap"
                     ELSE IF r.submarine_funding_txid THEN "locked_up" ELSE "fund")
      PROVE  Acts(w) /\ WorldOK'
  <2>1. PICK p \in {"subswap", "locked_up", "fund"} :
          /\ Goto(w, p)
          /\ p = "subswap" <=> r.submarine_boltz_swap_id = 0
          /\ p = "fund" => ~r.submarine_funding_txid
    BY <1>4
  <2>2. PcStatus(p, r.status)
    BY <1>2, <2>1 DEF PcStatus, CreatedPcs, SubmarinePcs, InvoicePcs, SamePcs
  <2>3. PcPath(p, r, task[w].made, kind)
    BY <1>2, <1>4, <2>1 DEF PcPath, SubmarinePcs
  <2>4. PcTruth(p, r, PaidCoins', ReturnedSubs', intake'.refunded) /\ p \in Pcs
    BY <2>1 DEF PcTruth, Pcs, CreatedPcs, SubmarinePcs
  <2>5. Quiet /\ Grows /\ Does(w)
    BY <1>1, Quietly
  <2>6. Stays(w)
    BY <1>1, <1>4, <2>1, <2>2, <2>3, <2>4, <2>5, Going
  <2>7. WorldOK'
    BY <1>1, <1>4, WorldStays DEF BaseInv, WorldOK, Past
  <2> QED
    BY <2>5, <2>6, <2>7 DEF Acts
<1>5. ASSUME Fail(w, r)
      PROVE  Acts(w) /\ WorldOK'
  BY <1>1, <1>2, <1>5, FailActs DEF Terminal
<1> QED
  BY Zenon, <1>3, <1>4, <1>5 DEF MakeInvoice

\* The submarine swap becomes known to the session.
LEMMA LinkSubmarineActs ==
    ASSUME BaseInv, NEW w \in Workers, LinkSubmarine(w)
    PROVE  Acts(w) /\ WorldOK'
<1> DEFINE r == task[w].copy
           n == [r EXCEPT !.submarine_boltz_swap_id = task[w].made]
<1>1. /\ InHandler(w) /\ task[w].pc = "sublink" /\ UNCHANGED <<kind, World, Past>>
      /\ Commit(w, n, "fund")
  BY DEF LinkSubmarine, At, InHandler
<1>2. /\ r \in RowTypes /\ r.status = "created" /\ kind \in OnchainKinds
      /\ "submarine_swapping" \notin r.status_history
      /\ kind = "ext_onchain" => "awaiting_onchain_funds" \in r.status_history
      /\ ~r.submarine_funding_txid /\ r.submarine_payment_hash # 0
      /\ task[w].made \in Subs /\ task[w].made # 0
  BY <1>1, Soundness, DepositAssumption DEF Sound, PcStatus, PcPath, RowPath, CreatedPcs, SubmarinePcs
<1>3. /\ n \in RowTypes
      /\ n.status = r.status /\ n.status_history = r.status_history
      /\ n.submarine_payment_hash = r.submarine_payment_hash
      /\ n.submarine_boltz_swap_id = task[w].made
      /\ n.submarine_funding_txid = r.submarine_funding_txid
      /\ n.channel_open_txid = r.channel_open_txid
      /\ n.fresh_utxo = r.fresh_utxo /\ n.send_txid = r.send_txid /\ n.refund_txid = r.refund_txid
  BY <1>2 DEF RowTypes
<1> HIDE DEF n
<1>4. RowTruth(n, PaidCoins, ClaimedCoins, ReturnedSubs, intake.refunded)
  BY <1>3, Soundness DEF Sound, RowTruth
<1>5. RowPath(n, kind)
  BY <1>2, <1>3, Soundness DEF Sound, RowPath
<1>6. TurnOK("sublink", r, n, kind, PaidSubs)
  BY <1>2, <1>3 DEF TurnOK, Passed
<1>7. Good(w, n)
  BY <1>1, <1>3, <1>4, <1>5, <1>6 DEF Good
<1>8. PcStatus("fund", n.status)
  BY <1>2, <1>3 DEF PcStatus, CreatedPcs, SubmarinePcs, InvoicePcs, SamePcs
<1>9. PcPath("fund", n, task[w].made, kind)
  BY <1>2, <1>3 DEF PcPath
<1> QED
  BY <1>1, <1>7, <1>8, <1>9, CommitOn DEF Pcs, CreatedPcs, SubmarinePcs

\* The inbound checks refused: the session fails.
LEMMA RefusedActs ==
    ASSUME BaseInv, NEW w \in Workers, Refused(w)
    PROVE  Acts(w) /\ WorldOK'
<1>1. InHandler(w) /\ task[w].pc = "refused" /\ UNCHANGED <<kind, World, Past>>
  BY DEF Refused, At, InHandler
<1>2. task[w].copy.status = "created"
  BY <1>1, Soundness DEF Sound, PcStatus, CreatedPcs, SubmarinePcs
<1> QED
  BY <1>1, <1>2, FailActs DEF Refused, Terminal

\* The funding of the lockup is recorded.
LEMMA RecordFundingActs ==
    ASSUME BaseInv, NEW w \in Workers, RecordFunding(w)
    PROVE  Acts(w) /\ WorldOK'
<1> DEFINE r == task[w].copy
           n == [r EXCEPT !.submarine_funding_txid = TRUE]
<1>1. /\ InHandler(w) /\ task[w].pc = "funding_sent" /\ UNCHANGED <<kind, World, Past>>
      /\ Commit(w, n, "locked_up")
  BY DEF RecordFunding, At, InHandler
<1>2. /\ r \in RowTypes /\ r.status = "created" /\ kind \in OnchainKinds
      /\ "submarine_swapping" \notin r.status_history
      /\ kind = "ext_onchain" => "awaiting_onchain_funds" \in r.status_history
      /\ r.submarine_boltz_swap_id # 0
  BY <1>1, Soundness DEF Sound, PcStatus, PcPath, CreatedPcs, SubmarinePcs
<1>3. /\ n \in RowTypes
      /\ n.status = r.status /\ n.status_history = r.status_history
      /\ n.submarine_payment_hash = r.submarine_payment_hash
      /\ n.submarine_boltz_swap_id = r.submarine_boltz_swap_id
      /\ n.submarine_funding_txid
      /\ n.channel_open_txid = r.channel_open_txid
      /\ n.fresh_utxo = r.fresh_utxo /\ n.send_txid = r.send_txid /\ n.refund_txid = r.refund_txid
  BY Zenon, <1>2 DEF RowTypes
<1> HIDE DEF n
<1>4. RowTruth(n, PaidCoins, ClaimedCoins, ReturnedSubs, intake.refunded)
  BY <1>3, Soundness DEF Sound, RowTruth
<1>5. RowPath(n, kind)
  BY <1>2, <1>3, Soundness DEF Sound, RowPath
<1>6. TurnOK("funding_sent", r, n, kind, PaidSubs)
  BY <1>2, <1>3 DEF TurnOK, Passed
<1>7. Good(w, n)
  BY <1>1, <1>3, <1>4, <1>5, <1>6 DEF Good
<1>8. PcStatus("locked_up", n.status)
  BY <1>2, <1>3 DEF PcStatus, CreatedPcs, SubmarinePcs, InvoicePcs, SamePcs
<1>9. PcPath("locked_up", n, task[w].made, kind)
  BY <1>2, <1>3 DEF PcPath
<1> QED
  BY <1>1, <1>7, <1>8, <1>9, CommitOn DEF Pcs, CreatedPcs, SubmarinePcs

\* The session waits for the submarine swap.
LEMMA StartSubmarineActs ==
    ASSUME BaseInv, NEW w \in Workers, StartSubmarine(w)
    PROVE  Acts(w) /\ WorldOK'
<1> DEFINE r == task[w].copy
<1>1. InHandler(w) /\ task[w].pc = "locked_up" /\ UNCHANGED <<kind, World, Past>>
  BY DEF StartSubmarine, At, InHandler
<1>2. /\ r.status = "created" /\ kind \in OnchainKinds
      /\ kind = "ext_onchain" => "awaiting_onchain_funds" \in r.status_history
  BY <1>1, Soundness DEF Sound, PcStatus, PcPath, CreatedPcs, SubmarinePcs
<1>3. MayFollow(task[w].pc, r, "submarine_swapping", kind, PaidSubs)
  BY <1>1, <1>2 DEF MayFollow, Late, Early, Sent, Statuses
<1> QED
  BY <1>1, <1>3, StatusActs DEF StartSubmarine

\* The deposit at the intake address sends the session on.
LEMMA IntakeReceivedActs ==
    ASSUME BaseInv, NEW w \in Workers, IntakeReceived(w)
    PROVE  Acts(w) /\ WorldOK'
<1> DEFINE r == task[w].copy
<1>1. InHandler(w) /\ task[w].pc = "received" /\ UNCHANGED <<kind, World, Past>>
  BY DEF IntakeReceived, At, InHandler
<1>2. /\ r.status = "awaiting_onchain_funds"
      /\ "submarine_swapping" \notin r.status_history
  BY <1>1, Soundness DEF Sound, PcStatus, RowPath
<1>3. MayFollow(task[w].pc, r, "created", kind, PaidSubs)
  BY <1>1, <1>2 DEF MayFollow, Late, Early, Sent, Statuses
<1> QED
  BY <1>1, <1>3, StatusActs DEF IntakeReceived

\* A row of a session that is refunded.
RefundedRow(n, r, b) ==
    /\ n \in RowTypes
    /\ n.status = "refunded" /\ n.status_history = r.status_history
    /\ n.submarine_payment_hash = r.submarine_payment_hash
    /\ n.submarine_boltz_swap_id = r.submarine_boltz_swap_id
    /\ n.submarine_funding_txid = r.submarine_funding_txid
    /\ n.channel_open_txid = r.channel_open_txid
    /\ n.fresh_utxo = r.fresh_utxo /\ n.send_txid = r.send_txid /\ n.refund_txid = b

\* A refund is recorded with the status.
LEMMA Refunding ==
    ASSUME NEW r \in RowTypes, NEW b \in BOOLEAN
    PROVE  RefundedRow([Moved(r, "refunded") EXCEPT !.refund_txid = b], r, b)
<1> DEFINE m == Moved(r, "refunded")
<1>1. MovedRow(m, r, "refunded")
  BY Moving DEF Statuses, Terminal
<1> HIDE DEF m
<1>2. r.status_history \cup ({"refunded"} \cap Remembered) = r.status_history
  BY DEF Remembered
<1>3. RefundedRow([m EXCEPT !.refund_txid = b], r, b)
  BY <1>1, <1>2 DEF MovedRow, RefundedRow, RowTypes
<1> QED
  BY <1>3 DEF m

\* A recorded refund was made.
LEMMA RefundGood ==
    ASSUME BaseInv, NEW w \in Workers, NEW n, NEW b, RefundedRow(n, task[w].copy, b),
           task[w].copy.refund_txid => b,
           b => task[w].copy.refund_txid \/ intake.refunded \/ ReturnedSubs # {},
           task[w].pc \notin {"opened", "funding_sent"},
           task[w].copy.status = "refunded" => task[w].pc = "lockup_refunded",
           task[w].copy.status \in {"completed", "cancelled"} => task[w].pc = "lockup_refunded"
    PROVE  Good(w, n)
<1>1. RowTruth(n, PaidCoins, ClaimedCoins, ReturnedSubs, intake.refunded)
  BY Soundness DEF Sound, RowTruth, RefundedRow
<1>2. RowPath(n, kind)
  BY Soundness DEF Sound, RowPath, RefundedRow
<1>3. TurnOK(task[w].pc, task[w].copy, n, kind, PaidSubs)
  BY DEF TurnOK, RefundedRow, Passed, Late, Early, Sent, Statuses, Terminal
<1> QED
  BY <1>1, <1>2, <1>3 DEF Good, RefundedRow

\* The submarine swap was refunded, failed, or goes on.
LEMMA SubmarineEndedActs ==
    ASSUME BaseInv, NEW w \in Workers, SubmarineEnded(w)
    PROVE  Acts(w) /\ WorldOK'
<1> DEFINE r == task[w].copy
           j == r.submarine_boltz_swap_id
           ours == subs[j].boltz = "returned"
<1>1. InHandler(w) /\ task[w].pc = "ended" /\ UNCHANGED <<kind, World, Past>>
  BY DEF SubmarineEnded, At, InHandler
<1>2. r \in RowTypes /\ r.status = "submarine_swapping" /\ j \in Subs
  BY <1>1, Soundness DEF Sound, PcStatus, PcPath, RowTypes
<1>3. CASE Commit(w, [Moved(r, "refunded") EXCEPT !.refund_txid = @ \/ ours], "idle")
  <2> DEFINE b == Moved(r, "refunded").refund_txid \/ ours
             n == [Moved(r, "refunded") EXCEPT !.refund_txid = b]
  <2>1. MovedRow(Moved(r, "refunded"), r, "refunded")
    BY <1>2, Moving DEF Statuses, Terminal
  <2>2. Moved(r, "refunded").refund_txid = r.refund_txid
    BY <2>1 DEF MovedRow
  <2>3. r.refund_txid => b
    BY Zenon, <2>2
  <2>4. b => r.refund_txid \/ intake.refunded \/ ReturnedSubs # {}
    BY <1>2, <2>2 DEF ReturnedSubs
  <2>5. b \in BOOLEAN
    OBVIOUS
  <2>6. Commit(w, n, "idle")
    BY <1>3
  <2> HIDE DEF b
  <2>7. RefundedRow(n, r, b)
    BY <1>2, <2>5, Refunding
  <2> HIDE DEF n
  <2>8. Good(w, n)
    BY <1>1, <1>2, <2>3, <2>4, <2>7, RefundGood
  <2> QED
    BY <1>1, <2>6, <2>8, CommitIdle
<1>4. CASE Fail(w, r)
  BY <1>1, <1>2, <1>4, FailActs DEF Terminal
<1>5. CASE Leave(w)
  BY <1>1, <1>5, LeaveActs
<1> QED
  BY <1>3, <1>4, <1>5 DEF SubmarineEnded

\* The opening of the channel is recorded.
LEMMA RecordChannelActs ==
    ASSUME BaseInv, NEW w \in Workers, RecordChannel(w)
    PROVE  Acts(w) /\ WorldOK'
<1> DEFINE r == task[w].copy
           q == [r EXCEPT !.channel_open_txid = TRUE]
           n == Moved(q, "opening_channel")
<1>1. /\ InHandler(w) /\ task[w].pc = "opened" /\ UNCHANGED <<kind, World, Past>>
      /\ Commit(w, n, "idle")
  BY DEF RecordChannel, At, InHandler
<1>2. r \in RowTypes /\ r.status = "created" /\ kind \in ChannelKinds
  BY <1>1, Soundness DEF Sound, PcStatus, PcPath, CreatedPcs
<1>3. /\ q \in RowTypes
      /\ q.status_history = r.status_history
      /\ q.submarine_payment_hash = r.submarine_payment_hash
      /\ q.submarine_boltz_swap_id = r.submarine_boltz_swap_id
      /\ q.submarine_funding_txid = r.submarine_funding_txid
      /\ q.channel_open_txid
      /\ q.fresh_utxo = r.fresh_utxo /\ q.send_txid = r.send_txid /\ q.refund_txid = r.refund_txid
  BY Zenon, <1>2 DEF RowTypes
<1> HIDE DEF q
<1>4. MovedRow(n, q, "opening_channel")
  BY <1>3, Moving DEF Statuses
<1> HIDE DEF n
<1>5. n.status_history = r.status_history
  BY <1>3, <1>4 DEF MovedRow, Remembered
<1>6. RowTruth(n, PaidCoins, ClaimedCoins, ReturnedSubs, intake.refunded)
  BY <1>3, <1>4, Soundness DEF Sound, RowTruth, MovedRow
<1>7. RowPath(n, kind)
  BY <1>2, <1>3, <1>4, <1>5, Soundness DEF Sound, RowPath, MovedRow
<1>8. TurnOK("opened", r, n, kind, PaidSubs)
  <2>1. kind \notin OnchainKinds
    BY <1>2 DEF OnchainKinds, ChannelKinds
  <2> QED
    BY <1>2, <1>3, <1>4, <1>5, <2>1 DEF TurnOK, MovedRow, Late, Early, Sent
<1>9. Good(w, n)
  BY <1>1, <1>4, <1>6, <1>7, <1>8 DEF Good, MovedRow
<1> QED
  BY <1>1, <1>9, CommitIdle

\* The channel is active, or not yet.
LEMMA PollChannelActs ==
    ASSUME BaseInv, NEW w \in Workers, PollChannel(w)
    PROVE  Acts(w) /\ WorldOK'
<1> DEFINE r == task[w].copy
           n == Moved(r, "created")
<1>1. InHandler(w) /\ task[w].pc = "opening_channel" /\ UNCHANGED <<kind, World, Past>>
  BY DEF PollChannel, At, InHandler
<1>2. r \in RowTypes /\ r.status = "opening_channel" /\ kind \in ChannelKinds
  BY <1>1, Soundness DEF Sound, PcStatus, RowPath, SamePcs
<1>3. CASE Commit(w, n, "create")
  <2>1. MayFollow("opening_channel", r, "created", kind, PaidSubs)
    BY <1>2 DEF MayFollow, Late, Early, Sent, Statuses, OnchainKinds, ChannelKinds
  <2>2. MovedRow(n, r, "created")
    BY <1>2, Moving DEF Statuses
  <2> HIDE DEF n
  <2>3. Good(w, n)
    BY <1>1, <2>1, <2>2, Following
  <2>4. PcStatus("create", n.status)
    BY <2>2 DEF MovedRow, PcStatus, CreatedPcs, SubmarinePcs, InvoicePcs, SamePcs
  <2>5. PcPath("create", n, task[w].made, kind)
    BY <1>2 DEF PcPath, OnchainKinds, ChannelKinds, SubmarinePcs
  <2> QED
    BY <1>1, <1>3, <2>3, <2>4, <2>5, CommitOn DEF Pcs, CreatedPcs
<1>4. CASE Leave(w)
  BY <1>1, <1>4, LeaveActs
<1> QED
  BY <1>3, <1>4 DEF PollChannel

\* The reverse swap of an external payer is polled.
LEMMA PollInvoiceActs ==
    ASSUME BaseInv, NEW w \in Workers, PollInvoice(w)
    PROVE  Acts(w) /\ WorldOK'
<1> DEFINE r == task[w].copy
<1>1. InHandler(w) /\ task[w].pc = "awaiting_ln_funds" /\ UNCHANGED <<kind, World, Past>>
  BY DEF PollInvoice, At, InHandler
<1>2. r.status = "awaiting_ln_funds"
  BY <1>1, Soundness DEF Sound, PcStatus, InvoicePcs
<1>3. CASE Fail(w, r)
  BY <1>1, <1>2, <1>3, FailActs DEF Terminal
<1>4. CASE Leave(w)
  BY <1>1, <1>4, LeaveActs
<1>5. CASE lock' = Nobody /\ Goto(w, "paid") /\ UNCHANGED row
  <2>1. PcStatus("paid", r.status)
    BY <1>2 DEF PcStatus, CreatedPcs, SubmarinePcs, InvoicePcs, SamePcs
  <2>2. PcPath("paid", r, task[w].made, kind)
    BY DEF PcPath, SubmarinePcs
  <2>3. PcTruth("paid", r, PaidCoins', ReturnedSubs', intake'.refunded) /\ "paid" \in Pcs
    BY DEF PcTruth, Pcs, InvoicePcs
  <2>4. Quiet /\ Grows /\ Does(w)
    BY <1>1, Quietly
  <2>5. Stays(w)
    BY <1>1, <1>5, <2>1, <2>2, <2>3, <2>4, Going
  <2>6. WorldOK'
    BY <1>1, <1>5, WorldStays DEF BaseInv, WorldOK, Past
  <2> QED
    BY <2>4, <2>5, <2>6 DEF Acts
<1> QED
  BY <1>3, <1>4, <1>5 DEF PollInvoice

\* What became of it is read.
LEMMA InvoiceReadActs ==
    ASSUME BaseInv, NEW w \in Workers, InvoiceRead(w)
    PROVE  Acts(w) /\ WorldOK'
<1> DEFINE r == task[w].copy
<1>1. InHandler(w) /\ task[w].pc = "paid" /\ UNCHANGED <<kind, World, Past>>
  BY DEF InvoiceRead, At, InHandler
<1>2. r.status = "awaiting_ln_funds" /\ kind = "ext_lightning"
  BY <1>1, Soundness DEF Sound, PcStatus, RowPath, InvoicePcs
<1>3. \A s \in {"refunded", "cancelled", "swapping"} : MayFollow(task[w].pc, r, s, kind, PaidSubs)
  BY <1>1, <1>2 DEF MayFollow, Late, Early, Sent, Statuses, Terminal, OnchainKinds
<1>4. CASE \E s \in {"refunded", "cancelled", "swapping"} : Commit(w, Moved(r, s), "idle")
  BY <1>1, <1>3, <1>4, StatusActs
<1>5. CASE Fail(w, r)
  BY <1>1, <1>2, <1>5, FailActs DEF Terminal
<1>6. CASE Leave(w)
  BY <1>1, <1>6, LeaveActs
<1> QED
  BY <1>4, <1>5, <1>6 DEF InvoiceRead

\* The intake address is polled.
LEMMA PollIntakeActs ==
    ASSUME BaseInv, NEW w \in Workers, PollIntake(w)
    PROVE  Acts(w) /\ WorldOK'
<1> DEFINE r == task[w].copy
<1>1. InHandler(w) /\ task[w].pc = "awaiting_onchain_funds" /\ UNCHANGED <<kind, World, Past>>
  BY DEF PollIntake, At, InHandler
<1>2. r \in RowTypes /\ r.status = "awaiting_onchain_funds"
  BY <1>1, Soundness DEF Sound, PcStatus
<1>3. ASSUME NEW sum \in Listed,
             Commit(w, [r EXCEPT !.received = sum], IF sum = "full" THEN "received" ELSE "idle")
      PROVE  Acts(w) /\ WorldOK'
  <2> DEFINE n == [r EXCEPT !.received = sum]
  <2>1. sum \in {"none", "part", "full"}
    BY DEF Listed
  <2>2. SameRow(n, r)
    BY Zenon, <1>2, <2>1, SameRows
  <2>3. Commit(w, n, IF sum = "full" THEN "received" ELSE "idle")
    BY <1>3
  <2> HIDE DEF n
  <2>4. Good(w, n)
    BY <1>1, <1>2, <2>2, SameGood DEF Terminal
  <2>5. CASE sum = "full"
    <3>1. PcStatus("received", n.status)
      BY <1>2, <2>2 DEF SameRow, PcStatus, CreatedPcs, SubmarinePcs, InvoicePcs, SamePcs
    <3>2. PcPath("received", n, task[w].made, kind)
      BY DEF PcPath, SubmarinePcs
    <3> QED
      BY <1>1, <2>3, <2>4, <2>5, <3>1, <3>2, CommitOn DEF Pcs
  <2>6. CASE sum # "full"
    BY <1>1, <2>3, <2>4, <2>6, CommitIdle
  <2> QED
    BY <2>5, <2>6
<1>4. CASE Leave(w)
  BY <1>1, <1>4, LeaveActs
<1> QED
  BY Zenon, <1>3, <1>4 DEF PollIntake

\* The coin that is found at the session's address is one that was claimed.
LEMMA FundedGood ==
    ASSUME BaseInv, NEW w \in Workers, task[w].pc = "swapping", Found(task[w].copy)
    PROVE  LET n == [task[w].copy EXCEPT !.fresh_utxo = task[w].copy.fresh_address]
           IN Good(w, n) /\ Good(w, Moved(n, "funded"))
<1> DEFINE r == task[w].copy
           i == r.fresh_address
           n == [r EXCEPT !.fresh_utxo = i]
           m == Moved(n, "funded")
<1>1. r \in RowTypes /\ r.status = "swapping"
  BY Soundness DEF Sound, PcStatus, SamePcs
<1>2. i \in ClaimedCoins /\ i # 0
  BY <1>1, DepositAssumption DEF Found, Unspent, ClaimedCoins, RowTypes
<1>3. /\ n \in RowTypes
      /\ n.status = r.status /\ n.status_history = r.status_history
      /\ n.submarine_payment_hash = r.submarine_payment_hash
      /\ n.submarine_boltz_swap_id = r.submarine_boltz_swap_id
      /\ n.submarine_funding_txid = r.submarine_funding_txid
      /\ n.channel_open_txid = r.channel_open_txid
      /\ n.fresh_utxo = i /\ n.send_txid = r.send_txid /\ n.refund_txid = r.refund_txid
  BY <1>1 DEF RowTypes
<1> HIDE DEF n, i
<1>4. MovedRow(m, n, "funded")
  BY <1>3, Moving DEF Statuses
<1>5. m.status_history = r.status_history
  BY <1>3, <1>4 DEF MovedRow, Remembered
<1> HIDE DEF m
<1>6. /\ RowTruth(n, PaidCoins, ClaimedCoins, ReturnedSubs, intake.refunded)
      /\ RowTruth(m, PaidCoins, ClaimedCoins, ReturnedSubs, intake.refunded)
  BY <1>2, <1>3, <1>4, Soundness DEF Sound, RowTruth, MovedRow
<1>7. RowPath(n, kind) /\ RowPath(m, kind)
  BY <1>1, <1>3, <1>4, <1>5, Soundness DEF Sound, RowPath, MovedRow
<1>8. TurnOK("swapping", r, n, kind, PaidSubs) /\ TurnOK("swapping", r, m, kind, PaidSubs)
  BY <1>1, <1>2, <1>3, <1>4, <1>5 DEF TurnOK, MovedRow, Late, Early, Sent, Passed
<1>9. Good(w, n) /\ Good(w, m)
  BY <1>3, <1>4, <1>6, <1>7, <1>8 DEF Good, MovedRow
<1> QED
  BY <1>9 DEF n, m, i

\* The reverse swap is polled, and its coin looked for.
LEMMA PollSwapActs ==
    ASSUME BaseInv, NEW w \in Workers, PollSwap(w)
    PROVE  Acts(w) /\ WorldOK'
<1> DEFINE r == task[w].copy
           n == [r EXCEPT !.fresh_utxo = r.fresh_address]
<1>1. InHandler(w) /\ task[w].pc = "swapping" /\ UNCHANGED <<kind, World, Past>>
  BY DEF PollSwap, At, InHandler
<1>2. r.status = "swapping"
  BY <1>1, Soundness DEF Sound, PcStatus, SamePcs
<1>3. CASE Fail(w, r)
  BY <1>1, <1>2, <1>3, FailActs DEF Terminal
<1>4. CASE Leave(w)
  BY <1>1, <1>4, LeaveActs
<1>5. CASE Found(r) /\ (Commit(w, n, "idle") \/ Commit(w, Moved(n, "funded"), "idle"))
  <2>1. Good(w, n) /\ Good(w, Moved(n, "funded"))
    BY <1>1, <1>5, FundedGood
  <2> HIDE DEF n
  <2> QED
    BY <1>1, <1>5, <2>1, CommitIdle
<1>6. CASE Commit(w, Moved(r, "refunded"), "idle")
  <2>1. MayFollow(task[w].pc, r, "refunded", kind, PaidSubs)
    BY <1>1, <1>2 DEF MayFollow, Late, Early, Sent, Statuses, Terminal
  <2> QED
    BY <1>1, <1>6, <2>1, StatusActs
<1> QED
  BY <1>3, <1>4, <1>5, <1>6 DEF PollSwap

\* A session that waits for lower fees, or sends, has its coin.
LEMMA ParkActs ==
    ASSUME BaseInv, NEW w \in Workers, InHandler(w), task[w].copy.status \in {"funded", "sending"},
           task[w].pc \notin {"opened", "funding_sent"}, Park(w), UNCHANGED <<kind, World, Past>>
    PROVE  Acts(w) /\ WorldOK'
<1> DEFINE r == task[w].copy
           n == [Moved(r, "awaiting_fee_reduction") EXCEPT !.accept_underpay = FALSE]
<1>1. MovedRow(n, r, "awaiting_fee_reduction")
  BY Zenon, Soundness, MovingMore DEF Sound, Statuses
<1>2. Commit(w, n, "idle")
  BY DEF Park
<1> HIDE DEF n
<1>3. MayFollow(task[w].pc, r, "awaiting_fee_reduction", kind, PaidSubs)
  BY DEF MayFollow, Late, Early, Sent, Statuses, Passed
<1>4. Good(w, n)
  BY <1>1, <1>3, Following
<1> QED
  BY <1>2, <1>4, CommitIdle

\* SENDING is committed before anything is sent.
LEMMA PrepareSendActs ==
    ASSUME BaseInv, NEW w \in Workers, PrepareSend(w)
    PROVE  Acts(w) /\ WorldOK'
<1> DEFINE r == task[w].copy
           n == [Moved(r, "sending") EXCEPT !.accept_underpay = FALSE]
<1>1. InHandler(w) /\ task[w].pc = "funded" /\ UNCHANGED <<kind, World, Past>>
  BY DEF PrepareSend, At, InHandler
<1>2. r \in RowTypes /\ r.status = "funded"
  BY <1>1, Soundness DEF Sound, PcStatus, SamePcs
<1>3. CASE Fail(w, r)
  BY <1>1, <1>2, <1>3, FailActs DEF Terminal
<1>4. CASE Park(w)
  BY <1>1, <1>2, <1>4, ParkActs
<1>5. ASSUME r.fresh_utxo # 0, NEW short \in {FALSE, r.accept_underpay},
             CommitTo(w, n, [task[w] EXCEPT !.pc = "send", !.copy = n, !.short = short])
      PROVE  Acts(w) /\ WorldOK'
  <2> DEFINE t == [task[w] EXCEPT !.pc = "send", !.copy = n, !.short = short]
  <2>1. MovedRow(n, r, "sending")
    BY Zenon, <1>2, MovingMore DEF Statuses
  <2>2. MayFollow(task[w].pc, r, "sending", kind, PaidSubs)
    BY <1>1, <1>2 DEF MayFollow, Late, Early, Sent, Statuses, Passed
  <2>3. CommitTo(w, n, t)
    BY <1>5
  <2> HIDE DEF n
  <2>4. Good(w, n) /\ n \in RowTypes
    BY <2>1, <2>2, Following DEF MovedRow
  <2>5. short \in BOOLEAN
    BY Zenon, <1>2 DEF RowTypes
  <2>6. t \in Tasks /\ t.pc = "send" /\ t.copy = n /\ t.made = task[w].made
    BY Zenon, <2>4, <2>5, Soundness DEF Sound, Tasks, Pcs
  <2> HIDE DEF t
  <2>7. PcStatus("send", n.status)
    BY <2>1 DEF MovedRow, PcStatus, CreatedPcs, SubmarinePcs, InvoicePcs, SamePcs
  <2>8. PcPath("send", n, t.made, kind)
    BY <1>5, <2>1 DEF MovedRow, PcPath, SubmarinePcs
  <2>9. GoesOn(t, n, kind)
    BY <2>6, <2>7, <2>8 DEF GoesOn, Pcs
  <2>10. Quiet /\ Grows /\ Does(w)
    BY <1>1, Quietly
  <2>11. Turns(w)
    BY <1>1, <2>3, <2>4, <2>6, <2>9, <2>10, Committing
  <2>12. lock' \in Workers \cup {Nobody}
    BY <2>3, CommitTyped
  <2>13. WorldOK'
    BY <1>1, <2>12, WorldStays DEF BaseInv, WorldOK, Past
  <2> QED
    BY <2>10, <2>11, <2>13 DEF Acts, Quiet
<1> QED
  BY Zenon, <1>3, <1>4, <1>5 DEF PrepareSend

\* A send that is recorded was made.
LEMMA SendGood ==
    ASSUME BaseInv, NEW w \in Workers, task[w].pc \in {"sent", "sending"},
           task[w].copy.fresh_utxo # 0, task[w].copy.fresh_utxo \in PaidCoins
    PROVE  Good(w, Moved([task[w].copy EXCEPT !.send_txid = task[w].copy.fresh_utxo], "broadcast"))
<1> DEFINE r == task[w].copy
           q == [r EXCEPT !.send_txid = r.fresh_utxo]
           n == Moved(q, "broadcast")
<1>1. r \in RowTypes /\ r.status = "sending"
  BY Soundness DEF Sound, PcStatus
<1>2. /\ q \in RowTypes
      /\ q.status_history = r.status_history
      /\ q.submarine_payment_hash = r.submarine_payment_hash
      /\ q.submarine_boltz_swap_id = r.submarine_boltz_swap_id
      /\ q.submarine_funding_txid = r.submarine_funding_txid
      /\ q.channel_open_txid = r.channel_open_txid
      /\ q.fresh_utxo = r.fresh_utxo /\ q.send_txid = r.fresh_utxo /\ q.refund_txid = r.refund_txid
  BY <1>1 DEF RowTypes
<1> HIDE DEF q
<1>3. MovedRow(n, q, "broadcast")
  BY <1>2, Moving DEF Statuses
<1> HIDE DEF n
<1>4. n.status_history = r.status_history
  BY <1>2, <1>3 DEF MovedRow, Remembered
<1>5. RowTruth(n, PaidCoins, ClaimedCoins, ReturnedSubs, intake.refunded)
  BY <1>2, <1>3, Soundness DEF Sound, RowTruth, MovedRow
<1>6. RowPath(n, kind)
  BY <1>1, <1>2, <1>3, <1>4, Soundness DEF Sound, RowPath, MovedRow
<1>7. TurnOK(task[w].pc, r, n, kind, PaidSubs)
  BY <1>1, <1>2, <1>3, <1>4 DEF TurnOK, MovedRow, Late, Early, Sent, Passed, Statuses
<1>8. Good(w, n)
  BY <1>3, <1>5, <1>6, <1>7 DEF Good, MovedRow
<1> QED
  BY <1>8 DEF n, q

\* The send is recorded once it was made.
LEMMA RecordSendActs ==
    ASSUME BaseInv, NEW w \in Workers, RecordSend(w)
    PROVE  Acts(w) /\ WorldOK'
<1> DEFINE n == Moved([task[w].copy EXCEPT !.send_txid = task[w].copy.fresh_utxo], "broadcast")
<1>1. /\ InHandler(w) /\ task[w].pc = "sent" /\ UNCHANGED <<kind, World, Past>>
      /\ Commit(w, n, "idle")
  BY DEF RecordSend, At, InHandler
<1>2. task[w].copy.fresh_utxo # 0 /\ task[w].copy.fresh_utxo \in PaidCoins
  BY <1>1, Soundness DEF Sound, PcPath, PcTruth
<1>3. Good(w, n)
  BY <1>1, <1>2, SendGood
<1> HIDE DEF n
<1> QED
  BY <1>1, <1>3, CommitIdle

\* After a crash around the send: sent again, found, or failed.
LEMMA ReconcileActs ==
    ASSUME BaseInv, NEW w \in Workers, Reconcile(w)
    PROVE  Acts(w) /\ WorldOK'
<1> DEFINE r == task[w].copy
           i == r.fresh_utxo
           n == Moved([r EXCEPT !.send_txid = i], "broadcast")
<1>1. InHandler(w) /\ task[w].pc = "sending" /\ UNCHANGED <<kind, World, Past>>
  BY DEF Reconcile, At, InHandler
<1>2. r \in RowTypes /\ r.status = "sending"
  BY <1>1, Soundness DEF Sound, PcStatus
<1>3. CASE Fail(w, r)
  BY <1>1, <1>2, <1>3, FailActs DEF Terminal
<1>4. CASE Leave(w)
  BY <1>1, <1>4, LeaveActs
<1>5. CASE Commit(w, Moved(r, "funded"), "idle")
  <2>1. MayFollow(task[w].pc, r, "funded", kind, PaidSubs)
    BY <1>1, <1>2 DEF MayFollow, Late, Early, Sent, Statuses, Passed
  <2> QED
    BY <1>1, <1>5, <2>1, StatusActs
<1>6. CASE i # 0 /\ use[i] = "deposit" /\ Commit(w, n, "idle")
  <2>1. i \in PaidCoins
    BY <1>2, <1>6 DEF RowTypes, PaidCoins, PaidOut
  <2>2. Good(w, n)
    BY <1>1, <1>6, <2>1, SendGood
  <2> HIDE DEF n
  <2> QED
    BY <1>1, <1>6, <2>2, CommitIdle
<1> QED
  BY <1>3, <1>4, <1>5, <1>6 DEF Reconcile

\* A parked session goes on when the fees have dropped.
LEMMA CheckFeesActs ==
    ASSUME BaseInv, NEW w \in Workers, CheckFees(w)
    PROVE  Acts(w) /\ WorldOK'
<1> DEFINE r == task[w].copy
           n == [Moved(r, "funded") EXCEPT !.accept_underpay = FALSE]
<1>1. InHandler(w) /\ task[w].pc = "awaiting_fee_reduction" /\ UNCHANGED <<kind, World, Past>>
  BY DEF CheckFees, At, InHandler
<1>2. r \in RowTypes /\ r.status = "awaiting_fee_reduction"
  BY <1>1, Soundness DEF Sound, PcStatus, SamePcs
<1>3. CASE Commit(w, n, "idle")
  <2>1. MovedRow(n, r, "funded")
    BY Zenon, <1>2, MovingMore DEF Statuses
  <2> HIDE DEF n
  <2>2. MayFollow(task[w].pc, r, "funded", kind, PaidSubs)
    BY <1>1, <1>2 DEF MayFollow, Late, Early, Sent, Statuses, Passed
  <2>3. Good(w, n)
    BY <2>1, <2>2, Following
  <2> QED
    BY <1>1, <1>3, <2>3, CommitIdle
<1>4. CASE Leave(w)
  BY <1>1, <1>4, LeaveActs
<1> QED
  BY <1>3, <1>4 DEF CheckFees

\* Only a session with a send completes.
LEMMA PollConfirmationsActs ==
    ASSUME BaseInv, NEW w \in Workers, PollConfirmations(w)
    PROVE  Acts(w) /\ WorldOK'
<1> DEFINE r == task[w].copy
<1>1. InHandler(w) /\ task[w].pc = "broadcast" /\ UNCHANGED <<kind, World, Past>>
  BY DEF PollConfirmations, At, InHandler
<1>2. r.status = "broadcast"
  BY <1>1, Soundness DEF Sound, PcStatus, SamePcs
<1>3. CASE r.send_txid = 0 /\ Fail(w, r)
  BY <1>1, <1>2, <1>3, FailActs DEF Terminal
<1>4. CASE r.send_txid # 0 /\ Commit(w, Moved(r, "completed"), "idle")
  <2>1. MayFollow(task[w].pc, r, "completed", kind, PaidSubs)
    BY <1>1, <1>2, <1>4 DEF MayFollow, Late, Early, Sent, Statuses, Terminal, Passed
  <2> QED
    BY <1>1, <1>4, <2>1, StatusActs
<1>5. CASE Leave(w)
  BY <1>1, <1>5, LeaveActs
<1> QED
  BY <1>3, <1>4, <1>5 DEF PollConfirmations

\* A cancelled session had nothing to lose, or fails.
LEMMA CancelActs ==
    ASSUME BaseInv, NEW w \in Workers, Cancel(w)
    PROVE  Acts(w) /\ WorldOK'
<1> DEFINE r == task[w].copy
<1>1. InHandler(w) /\ task[w].pc = "cancel" /\ UNCHANGED <<kind, World, Past>>
  BY DEF Cancel, At, InHandler
<1>2. r.status \in Cancellable
  BY <1>1, Soundness DEF Sound, PcStatus
<1>3. PICK s \in {"failed", "cancelled"} : Commit(w, Moved(r, s), "idle")
  BY Zenon DEF Cancel
<1>4. MayFollow(task[w].pc, r, s, kind, PaidSubs)
  BY <1>1, <1>2 DEF MayFollow, Late, Early, Sent, Statuses, Terminal, Cancellable
<1> QED
  BY <1>1, <1>3, <1>4, StatusActs

\* The new swap of a regenerated invoice replaces the old one.
LEMMA RelinkSwapActs ==
    ASSUME BaseInv, NEW w \in Workers, RelinkSwap(w)
    PROVE  Acts(w) /\ WorldOK'
<1> DEFINE i == task[w].made
           n == [task[w].copy EXCEPT !.boltz_swap_id = i, !.fresh_address = i]
<1>1. /\ InHandler(w) /\ task[w].pc = "relink" /\ UNCHANGED <<kind, World, Past>>
      /\ Commit(w, n, "idle")
  BY DEF RelinkSwap, At, InHandler
<1>2. /\ task[w].copy \in RowTypes /\ task[w].copy.status = "awaiting_ln_funds"
      /\ i \in Swaps
  BY <1>1, Soundness DEF Sound, PcStatus, PcPath, InvoicePcs
<1>3. SameRow(n, task[w].copy)
  BY Zenon, <1>2, SameRows
<1> HIDE DEF n
<1>4. Good(w, n)
  BY <1>1, <1>2, <1>3, SameGood DEF Terminal
<1> QED
  BY <1>1, <1>4, CommitIdle

\* A retry sends the coin the row has.
LEMMA RetryActs ==
    ASSUME BaseInv, NEW w \in Workers, Retry(w)
    PROVE  Acts(w) /\ WorldOK'
<1> DEFINE r == task[w].copy
           n(b) == [Moved(r, "funded") EXCEPT !.accept_underpay = b]
<1>1. InHandler(w) /\ task[w].pc = "retry" /\ UNCHANGED <<kind, World, Past>>
  BY DEF Retry, At, InHandler
<1>2. r \in RowTypes /\ r.status \in {"failed", "awaiting_fee_reduction"} /\ r.fresh_utxo # 0
  BY <1>1, Soundness DEF Sound, PcStatus, PcPath
<1>3. PICK b \in BOOLEAN : Commit(w, n(b), "loaded")
  BY Zenon DEF Retry
<1>4. MovedRow(n(b), r, "funded")
  BY Zenon, <1>2, MovingMore DEF Statuses
<1> HIDE DEF n
<1>5. MayFollow(task[w].pc, r, "funded", kind, PaidSubs)
  BY <1>1, <1>2 DEF MayFollow, Late, Early, Sent, Statuses, Passed, Terminal
<1>6. Good(w, n(b))
  BY <1>4, <1>5, Following
<1>7. PcStatus("loaded", n(b).status)
  BY DEF PcStatus, CreatedPcs, SubmarinePcs, InvoicePcs, SamePcs
<1>8. PcPath("loaded", n(b), task[w].made, kind)
  BY DEF PcPath, SubmarinePcs
<1> QED
  BY <1>1, <1>3, <1>6, <1>7, <1>8, CommitOn DEF Pcs

\* The refund of the intake is recorded.
LEMMA RecordIntakeRefundActs ==
    ASSUME BaseInv, NEW w \in Workers, RecordIntakeRefund(w)
    PROVE  Acts(w) /\ WorldOK'
<1> DEFINE r == task[w].copy
           n == [r EXCEPT !.refund_txid = TRUE]
<1>1. /\ InHandler(w) /\ task[w].pc = "intake_refunded" /\ UNCHANGED <<kind, World, Past>>
      /\ Commit(w, n, "idle")
  BY DEF RecordIntakeRefund, At, InHandler
<1>2. r \in RowTypes /\ r.status = "failed" /\ intake.refunded
  BY <1>1, Soundness DEF Sound, PcStatus, PcTruth
<1>3. /\ n \in RowTypes
      /\ n.status = r.status /\ n.status_history = r.status_history
      /\ n.submarine_payment_hash = r.submarine_payment_hash
      /\ n.submarine_boltz_swap_id = r.submarine_boltz_swap_id
      /\ n.submarine_funding_txid = r.submarine_funding_txid
      /\ n.channel_open_txid = r.channel_open_txid
      /\ n.fresh_utxo = r.fresh_utxo /\ n.send_txid = r.send_txid /\ n.refund_txid
  BY Zenon, <1>2 DEF RowTypes
<1> HIDE DEF n
<1>4. RowTruth(n, PaidCoins, ClaimedCoins, ReturnedSubs, intake.refunded)
  BY Zenon, <1>2, <1>3, Soundness DEF Sound, RowTruth
<1>5. RowPath(n, kind)
  BY <1>3, Soundness DEF Sound, RowPath
<1>6. TurnOK("intake_refunded", r, n, kind, PaidSubs)
  BY <1>2, <1>3 DEF TurnOK, Passed
<1>7. Good(w, n)
  BY <1>1, <1>3, <1>4, <1>5, <1>6 DEF Good
<1> QED
  BY <1>1, <1>7, CommitIdle

(***************************************************************************)
(* Steps with an effect outside.                                           *)
(***************************************************************************)

\* The rest of the state but for the swap rows, the submarine swaps, the
\* coins, the channel and the intake.
Kept ==
    /\ kind' = kind /\ paid' = paid
    /\ lock' \in Workers \cup {Nobody}
    /\ overlap' \in BOOLEAN /\ lost' \in BOOLEAN /\ events' \in 0..MaxEvents

\* The variables that no effect outside is about.
LEMMA Keeping ==
    ASSUME BaseInv, NEW w \in Workers, kind' = kind, paid' = paid, UNCHANGED Past,
           lock' = lock \/ Leave(w) \/ lock' = Nobody \/ \E n, t : CommitTo(w, n, t)
    PROVE  Kept
BY DEF BaseInv, WorldOK, Kept, Past, Leave, CommitTo

\* A step that changes the swap rows, but not what has been claimed.
LEMMA SwapsChange ==
    ASSUME BaseInv, NEW w \in Workers, Kept, swaps' \in [Swaps -> SwapRows],
           \A i \in Swaps : swaps[i].coin = "claimed" => swaps'[i].coin = "claimed",
           UNCHANGED <<use, subs, intake, channel>>
    PROVE  Grows /\ Does(w) /\ WorldOK' /\ PaidCoins' = PaidCoins
<1>1. PaidCoins' = PaidCoins /\ ReturnedSubs' = ReturnedSubs /\ PaidSubs' = PaidSubs
  BY DEF PaidCoins, PaidOut, ReturnedSubs, PaidSubs
<1>2. ClaimedCoins \subseteq ClaimedCoins'
  BY DEF ClaimedCoins
<1>3. Grows
  BY <1>1, <1>2 DEF Grows, Kept
<1>4. Does(w)
  BY <1>1 DEF Does
<1>5. WorldOK'
  BY DEF BaseInv, WorldOK, Kept
<1> QED
  BY <1>1, <1>3, <1>4, <1>5

\* A commit outside the row, whose result the worker has in hand.
LEMMA Making ==
    ASSUME BaseInv, NEW w \in Workers, InHandler(w), NEW p \in Pcs, NEW i \in Swaps \cup Subs,
           task' = [task EXCEPT ![w].pc = p, ![w].made = i],
           UNCHANGED <<row, Past>>, Grows,
           PcStatus(p, task[w].copy.status), PcPath(p, task[w].copy, i, kind),
           PcTruth(p, task[w].copy, PaidCoins', ReturnedSubs', intake'.refunded),
           task[w].pc \notin {"opened", "funding_sent"}
    PROVE  Stays(w)
<1> DEFINE u == [task[w] EXCEPT !.pc = p]
           t == [u EXCEPT !.made = i]
           c == task[w].copy
<1>1. /\ task[w] \in Tasks
      /\ TaskFits(task[w], row, kind, PaidCoins, ClaimedCoins, ReturnedSubs, intake.refunded)
  BY DEF BaseInv, TasksOK
<1>2. task' = [task EXCEPT ![w] = t]
  BY Zenon DEF BaseInv, TasksOK
<1>3. u \in Tasks /\ u.pc = p /\ u.copy = c
  BY <1>1 DEF Tasks
<1> HIDE DEF u
<1>4. t \in Tasks /\ t.pc = p /\ t.copy = c /\ t.made = i
  BY <1>3 DEF Tasks
<1> HIDE DEF t
<1>5. RowTruth(c, PaidCoins', ClaimedCoins', ReturnedSubs', intake'.refunded) /\ RowPath(c, kind')
  BY <1>1, TruthGrows DEF TaskFits, RowFits, Grows
<1>6. TaskFits(t, row, kind', PaidCoins', ClaimedCoins', ReturnedSubs', intake'.refunded)
  BY <1>1, <1>4, <1>5 DEF TaskFits, RowFits, Grows
<1>7. StaysAt(w, t)
  BY Zenon, <1>2, <1>4, <1>6 DEF StaysAt, Past
<1> QED
  BY <1>4, <1>7 DEF Stays

\* A new swap has claimed nothing, and takes nothing away.
LEMMA NewSwapsChange ==
    ASSUME BaseInv, NEW i \in Swaps, Unused(i), swaps' = [swaps EXCEPT ![i] = NewSwap]
    PROVE  /\ swaps' \in [Swaps -> SwapRows]
           /\ \A k \in Swaps : swaps[k].coin = "claimed" => swaps'[k].coin = "claimed"
<1>1. NewSwap \in SwapRows
  BY DEF NewSwap, SwapRows, SwapStatuses
<1>2. swaps[i].coin # "claimed"
  BY DEF Unused, NoSwap
<1> QED
  BY <1>1, <1>2 DEF BaseInv, WorldOK

\* A reverse swap to a fresh address, or a failure.
LEMMA CreateSwapActs ==
    ASSUME BaseInv, NEW w \in Workers, CreateSwap(w)
    PROVE  Acts(w) /\ WorldOK'
<1> DEFINE r == task[w].copy
<1>1. InHandler(w) /\ task[w].pc = "create" /\ UNCHANGED <<kind, use, paid, subs, intake, channel, Past>>
  BY Zenon DEF CreateSwap, At, InHandler
<1>2. r \in RowTypes /\ r.status = "created"
  BY <1>1, Soundness DEF Sound, PcStatus, CreatedPcs
<1>3. ASSUME NEW i \in Swaps, Unused(i), swaps' = [swaps EXCEPT ![i] = NewSwap], lock' = Nobody,
             row' = [row EXCEPT !.fresh_address = i],
             task' = [task EXCEPT ![w].pc = "link", ![w].copy.fresh_address = i, ![w].made = i]
      PROVE  Acts(w) /\ WorldOK'
  <2>1. Kept
    BY <1>1, <1>3, Keeping
  <2>2. Grows /\ Does(w) /\ WorldOK'
    BY Zenon, <1>1, <1>3, <2>1, NewSwapsChange, SwapsChange
  <2>3. Addressed(w)
    BY <1>1, <1>3, Zenon DEF Addressed, At
  <2> QED
    BY <1>1, <2>2, <2>3 DEF Acts
<1>4. ASSUME NEW fresh \in {r.fresh_address, 0}, Fail(w, [r EXCEPT !.fresh_address = fresh]),
             UNCHANGED swaps
      PROVE  Acts(w) /\ WorldOK'
  <2> DEFINE n == Moved([r EXCEPT !.fresh_address = fresh], "failed")
  <2>1. fresh \in Swaps \cup {0}
    BY <1>2 DEF RowTypes
  <2>2. MovedRow(n, r, "failed")
    BY Zenon, <1>2, <2>1, MovingMore DEF Statuses, Terminal
  <2>3. Commit(w, n, "idle")
    BY <1>4 DEF Fail
  <2> HIDE DEF n
  <2>4. Good(w, n)
    BY <1>1, <1>2, <2>2, FailGood DEF Terminal
  <2>5. UNCHANGED <<kind, World, Past>>
    BY <1>1, <1>4 DEF World
  <2> QED
    BY <1>1, <2>3, <2>4, <2>5, CommitIdle
<1> QED
  BY Zenon, <1>3, <1>4 DEF CreateSwap

\* A new reverse swap for a regenerated invoice.
LEMMA RecreateSwapActs ==
    ASSUME BaseInv, NEW w \in Workers, RecreateSwap(w)
    PROVE  Acts(w) /\ WorldOK'
<1> DEFINE r == task[w].copy
<1>1. InHandler(w) /\ task[w].pc = "recreate" /\ UNCHANGED <<kind, use, paid, subs, intake, channel, Past>>
  BY DEF RecreateSwap, At, InHandler
<1>2. r \in RowTypes /\ r.status = "awaiting_ln_funds"
  BY <1>1, Soundness DEF Sound, PcStatus, InvoicePcs
<1>3. ASSUME NEW i \in Swaps, Unused(i), swaps' = [swaps EXCEPT ![i] = NewSwap], lock' = Nobody,
             task' = [task EXCEPT ![w].pc = "relink", ![w].made = i], UNCHANGED row
      PROVE  Acts(w) /\ WorldOK'
  <2>1. Kept
    BY <1>1, <1>3, Keeping
  <2>2. Grows /\ Does(w) /\ WorldOK'
    BY Zenon, <1>1, <1>3, <2>1, NewSwapsChange, SwapsChange
  <2>3. PcStatus("relink", r.status)
    BY <1>2 DEF PcStatus, CreatedPcs, SubmarinePcs, InvoicePcs, SamePcs
  <2>4. PcPath("relink", r, i, kind)
    BY DEF PcPath, SubmarinePcs
  <2>5. PcTruth("relink", r, PaidCoins', ReturnedSubs', intake'.refunded) /\ "relink" \in Pcs
    BY DEF PcTruth, Pcs, InvoicePcs
  <2>6. Stays(w)
    BY Zenon, <1>1, <1>3, <2>2, <2>3, <2>4, <2>5, Making
  <2> QED
    BY <2>2, <2>6 DEF Acts
<1>4. CASE Leave(w) /\ UNCHANGED swaps
  BY <1>1, <1>4, LeaveActs DEF World
<1> QED
  BY Zenon, <1>3, <1>4 DEF RecreateSwap

\* A swap of the session is cancelled.
LEMMA CancelledChange ==
    ASSUME BaseInv, NEW i, swaps' = [swaps EXCEPT ![i].status = "cancelled"]
    PROVE  /\ swaps' \in [Swaps -> SwapRows]
           /\ \A k \in Swaps : swaps[k].coin = "claimed" => swaps'[k].coin = "claimed"
<1> DEFINE t == [swaps[i] EXCEPT !.status = "cancelled"]
<1>1. swaps \in [Swaps -> SwapRows]
  BY DEF BaseInv, WorldOK
<1>2. swaps' = [swaps EXCEPT ![i] = t]
  OBVIOUS
<1>3. i \in Swaps => t \in SwapRows /\ t.coin = swaps[i].coin
  BY <1>1 DEF SwapRows, SwapStatuses, SwapEnded
<1> HIDE DEF t
<1>4. CASE i \in Swaps
  BY <1>1, <1>2, <1>3, <1>4
<1>5. CASE i \notin Swaps
  BY Zenon, <1>1, <1>2, <1>5
<1> QED
  BY <1>4, <1>5

\* The swap is cancelled before the session is.
LEMMA CancelSwapActs ==
    ASSUME BaseInv, NEW w \in Workers, CancelSwap(w)
    PROVE  Acts(w) /\ WorldOK'
<1> DEFINE r == task[w].copy
<1>1. /\ InHandler(w) /\ task[w].pc = "cancel_swap" /\ lock' = Nobody /\ Goto(w, "cancel")
      /\ swaps' = [swaps EXCEPT ![r.boltz_swap_id].status = "cancelled"]
      /\ UNCHANGED <<kind, row, use, paid, subs, intake, channel, Past>>
  BY DEF CancelSwap, At, InHandler
<1>2. r.status \in Cancellable
  BY <1>1, Soundness DEF Sound, PcStatus
<1>3. Kept
  BY <1>1, Keeping
<1>4. Grows /\ Does(w) /\ WorldOK'
  BY Zenon, <1>1, <1>3, CancelledChange, SwapsChange
<1>5. PcStatus("cancel", r.status)
  BY <1>2 DEF PcStatus, CreatedPcs, SubmarinePcs, InvoicePcs, SamePcs
<1>6. PcPath("cancel", r, task[w].made, kind)
  BY DEF PcPath, SubmarinePcs
<1>7. PcTruth("cancel", r, PaidCoins', ReturnedSubs', intake'.refunded) /\ "cancel" \in Pcs
  BY DEF PcTruth, Pcs
<1>8. Stays(w)
  BY <1>1, <1>4, <1>5, <1>6, <1>7, Going
<1> QED
  BY <1>4, <1>8 DEF Acts

\* The unpaid swap is cancelled before a new one is made.
LEMMA RegenerateActs ==
    ASSUME BaseInv, NEW w \in Workers, Regenerate(w)
    PROVE  Acts(w) /\ WorldOK'
<1> DEFINE r == task[w].copy
<1>1. /\ InHandler(w) /\ task[w].pc = "regenerate" /\ lock' = Nobody /\ Goto(w, "recreate")
      /\ swaps' = [swaps EXCEPT ![r.boltz_swap_id].status = "cancelled"]
      /\ UNCHANGED <<kind, row, use, paid, subs, intake, channel, Past>>
  BY DEF Regenerate, At, InHandler
<1>2. r.status = "awaiting_ln_funds"
  BY <1>1, Soundness DEF Sound, PcStatus, InvoicePcs
<1>3. Kept
  BY <1>1, Keeping
<1>4. Grows /\ Does(w) /\ WorldOK'
  BY Zenon, <1>1, <1>3, CancelledChange, SwapsChange
<1>5. PcStatus("recreate", r.status)
  BY <1>2 DEF PcStatus, CreatedPcs, SubmarinePcs, InvoicePcs, SamePcs
<1>6. PcPath("recreate", r, task[w].made, kind)
  BY DEF PcPath, SubmarinePcs
<1>7. PcTruth("recreate", r, PaidCoins', ReturnedSubs', intake'.refunded) /\ "recreate" \in Pcs
  BY DEF PcTruth, Pcs, InvoicePcs
<1>8. Stays(w)
  BY <1>1, <1>4, <1>5, <1>6, <1>7, Going
<1> QED
  BY <1>4, <1>8 DEF Acts

\* A commit that ends the handler, whatever happened outside before.
LEMMA CommitDone ==
    ASSUME BaseInv, NEW w \in Workers, InHandler(w), NEW n, Good(w, n), Commit(w, n, "idle"),
           UNCHANGED Past, Grows, Does(w), PaidCoins' = PaidCoins, intake'.refunded => intake.refunded
    PROVE  Acts(w)
<1>1. Idle \in Tasks
  BY IdleFits
<1>2. CommitTo(w, n, Idle)
  BY DEF Commit
<1>3. Turns(w)
  BY <1>1, <1>2, Committing DEF GoesOn
<1> QED
  BY <1>3 DEF Acts

\* A handler that fails leaves a failed session.
LEMMA FailsRow ==
    ASSUME BaseInv, NEW w \in Workers, task[w].copy.status \notin Terminal, Fail(w, task[w].copy)
    PROVE  /\ row'.status = "failed"
           /\ MovedRow(Moved(task[w].copy, "failed"), task[w].copy, "failed")
           /\ \E n, t : CommitTo(w, n, t)
<1> DEFINE n == Moved(task[w].copy, "failed")
<1>1. MovedRow(n, task[w].copy, "failed")
  BY Soundness, Moving DEF Sound, Statuses, Terminal
<1>2. CommitTo(w, n, Idle)
  BY DEF Fail, Commit
<1> HIDE DEF n
<1>3. n \in RowTypes /\ n.status = "failed"
  BY <1>1 DEF MovedRow
<1>4. row \in RowTypes /\ task[w].copy \in RowTypes
  BY Soundness DEF Sound, BaseInv, RowOK, RowFits
<1>5. MergedRow(row', row, task[w].copy, n)
  BY <1>2, <1>3, <1>4, Merging
<1>6. row'.status = "failed"
  BY <1>3, <1>5 DEF MergedRow, Terminal
<1> QED
  BY <1>1, <1>2, <1>6 DEF n

\* A step that changes one submarine swap.
LEMMA SubChange ==
    ASSUME BaseInv, NEW w \in Workers, Kept, UNCHANGED <<swaps, use, intake, channel>>,
           NEW j \in Subs, NEW t \in SubRows, subs' = [subs EXCEPT ![j] = t],
           t.lockups = subs[j].lockups \/ t.lockups = subs[j].lockups + 1,
           \/ t.boltz = subs[j].boltz
           \/ /\ subs[j].boltz \notin {"paid", "returned"} /\ subs[j].lockups > 0
    PROVE  /\ Grows /\ WorldOK' /\ PaidCoins' = PaidCoins
           /\ t.lockups = subs[j].lockups => Does(w)
<1>1. PaidCoins' = PaidCoins /\ ClaimedCoins' = ClaimedCoins
  BY DEF PaidCoins, PaidOut, ClaimedCoins
<1>2. subs \in [Subs -> SubRows] /\ subs' \in [Subs -> SubRows]
  BY DEF BaseInv, WorldOK
<1>3. ReturnedSubs \subseteq ReturnedSubs' /\ PaidSubs \subseteq PaidSubs'
  BY <1>2 DEF ReturnedSubs, PaidSubs
<1>4. Grows
  BY <1>1, <1>3 DEF Grows, Kept
<1>5. subs[j].lockups \in 0..2 /\ t.lockups \in 0..2
  BY <1>2 DEF SubRows
<1>6. \A k \in Subs : subs'[k].boltz \in {"paid", "returned", "refunded"} => subs'[k].lockups > 0
  BY <1>2, <1>5 DEF BaseInv, WorldOK
<1>7. WorldOK'
  BY <1>2, <1>6 DEF BaseInv, WorldOK, Kept
<1>8. t.lockups = subs[j].lockups => Does(w)
  BY <1>1, <1>2 DEF Does
<1> QED
  BY <1>1, <1>4, <1>7, <1>8

\* A submarine swap is made, which the session does not know yet.
LEMMA CreateSubmarineActs ==
    ASSUME BaseInv, NEW w \in Workers, CreateSubmarine(w)
    PROVE  Acts(w) /\ WorldOK'
<1> DEFINE r == task[w].copy
           h == r.submarine_payment_hash
<1>1. InHandler(w) /\ task[w].pc = "subswap" /\ UNCHANGED <<kind, swaps, use, paid, intake, channel, Past>>
  BY DEF CreateSubmarine, At, InHandler
<1>2. /\ r \in RowTypes /\ r.status = "created" /\ kind \in OnchainKinds
      /\ "submarine_swapping" \notin r.status_history
      /\ kind = "ext_onchain" => "awaiting_onchain_funds" \in r.status_history
      /\ r.submarine_boltz_swap_id = 0 /\ h # 0 /\ h \in Subs
  BY <1>1, Soundness DEF Sound, PcStatus, PcPath, CreatedPcs, SubmarinePcs, RowTypes
<1>3. ASSUME NEW j \in Subs, subs' = [subs EXCEPT ![j].status = "created", ![j].invoice = h],
             lock' = Nobody, task' = [task EXCEPT ![w].pc = "sublink", ![w].made = j], UNCHANGED row
      PROVE  Acts(w) /\ WorldOK'
  <2> DEFINE u == [subs[j] EXCEPT !.status = "created"]
             t == [u EXCEPT !.invoice = h]
  <2>1. subs \in [Subs -> SubRows]
    BY DEF BaseInv, WorldOK
  <2>2. subs' = [subs EXCEPT ![j] = t]
    BY Zenon, <1>3, <2>1
  <2>3. u \in SubRows /\ u.boltz = subs[j].boltz /\ u.lockups = subs[j].lockups
    BY <2>1 DEF SubRows
  <2> HIDE DEF u
  <2>4. t \in SubRows /\ t.boltz = subs[j].boltz /\ t.lockups = subs[j].lockups
    BY <1>2, <2>3 DEF SubRows
  <2> HIDE DEF t
  <2>5. Kept
    BY <1>1, <1>3, Keeping
  <2>6. Grows /\ WorldOK' /\ Does(w)
    BY Zenon, <1>1, <2>2, <2>4, <2>5, SubChange
  <2>7. PcStatus("sublink", r.status)
    BY <1>2 DEF PcStatus, CreatedPcs, SubmarinePcs, InvoicePcs, SamePcs
  <2>8. PcPath("sublink", r, j, kind)
    BY <1>2 DEF PcPath
  <2>9. PcTruth("sublink", r, PaidCoins', ReturnedSubs', intake'.refunded) /\ "sublink" \in Pcs
    BY DEF PcTruth, Pcs, CreatedPcs, SubmarinePcs
  <2>10. Stays(w)
    BY Zenon, <1>1, <1>3, <2>6, <2>7, <2>8, <2>9, Making
  <2> QED
    BY <2>6, <2>10 DEF Acts
<1>4. CASE Fail(w, r) /\ UNCHANGED subs
  BY <1>1, <1>2, <1>4, FailActs DEF Terminal, World
<1> QED
  BY Zenon, <1>3, <1>4 DEF CreateSubmarine

\* A lockup is funded and recorded next, or the session fails.
LEMMA FundLockupActs ==
    ASSUME BaseInv, NEW w \in Workers, FundLockup(w)
    PROVE  Acts(w) /\ WorldOK'
<1> DEFINE r == task[w].copy
           j == r.submarine_boltz_swap_id
           sent == [subs[j] EXCEPT !.lockups = @ + 1]
           status == IF subs[j].status = "created" THEN "cancelled" ELSE subs[j].status
           refused == [subs[j] EXCEPT !.status = status]
<1>1. /\ InHandler(w) /\ task[w].pc = "fund" /\ UNCHANGED <<kind, swaps, use, paid, intake, channel, Past>>
      /\ subs[j].lockups < 2
  BY DEF FundLockup, At, InHandler
<1>2. /\ r \in RowTypes /\ r.status = "created" /\ kind \in OnchainKinds
      /\ "submarine_swapping" \notin r.status_history
      /\ kind = "ext_onchain" => "awaiting_onchain_funds" \in r.status_history
      /\ j # 0 /\ j \in Subs /\ ~r.submarine_funding_txid
  BY <1>1, Soundness DEF Sound, PcStatus, PcPath, CreatedPcs, SubmarinePcs, RowTypes
<1>3. subs \in [Subs -> SubRows] /\ subs[j].lockups \in 0..2
  BY <1>2 DEF BaseInv, WorldOK, SubRows
<1>4. ASSUME NEW p \in {"funding_sent", "refused"}, Goto(w, p), UNCHANGED row, Grows
      PROVE  Stays(w) /\ task'[w].pc = p
  <2>1. PcStatus(p, r.status)
    BY <1>2 DEF PcStatus, CreatedPcs, SubmarinePcs, InvoicePcs, SamePcs
  <2>2. PcPath(p, r, task[w].made, kind)
    BY <1>2 DEF PcPath
  <2>3. PcTruth(p, r, PaidCoins', ReturnedSubs', intake'.refunded) /\ p \in Pcs
    BY DEF PcTruth, Pcs, CreatedPcs, SubmarinePcs
  <2> QED
    BY <1>1, <1>4, <2>1, <2>2, <2>3, Going
<1>5. ASSUME subs' = [subs EXCEPT ![j].lockups = @ + 1],
             \/ Goto(w, "funding_sent") /\ UNCHANGED <<row, lock>>
             \/ Fail(w, r)
      PROVE  Acts(w) /\ WorldOK'
  <2>1. subs' = [subs EXCEPT ![j] = sent]
    BY <1>5
  <2>2. sent \in SubRows /\ sent.boltz = subs[j].boltz /\ sent.lockups = subs[j].lockups + 1
    BY <1>1, <1>2, <1>3 DEF SubRows
  <2> HIDE DEF sent
  <2>3. Fail(w, r) => /\ row'.status = "failed" /\ MovedRow(Moved(r, "failed"), r, "failed")
                      /\ \E n, t : CommitTo(w, n, t)
    BY <1>2, FailsRow DEF Terminal
  <2>4. Kept
    BY <1>1, <1>5, <2>3, Keeping
  <2>5. Grows /\ WorldOK' /\ PaidCoins' = PaidCoins
    BY Zenon, <1>1, <1>2, <2>1, <2>2, <2>4, SubChange
  <2>6. task'[w].pc = "funding_sent" \/ row'.status \in Late
    BY <1>4, <1>5, <2>3, <2>5 DEF Late, Statuses, Terminal, Early
  <2>7. Does(w)
    BY Zenon, <1>1, <1>2, <1>3, <2>1, <2>2, <2>5, <2>6 DEF Does, At
  <2>8. CASE Goto(w, "funding_sent") /\ UNCHANGED <<row, lock>>
    BY <1>4, <2>5, <2>7, <2>8 DEF Acts
  <2>9. CASE Fail(w, r)
    <3>1. Good(w, Moved(r, "failed"))
      BY <1>1, <1>2, <2>3, <2>9, FailGood DEF Terminal
    <3> QED
      BY <1>1, <2>5, <2>7, <2>9, <3>1, CommitDone DEF Fail
  <2> QED
    BY <1>5, <2>8, <2>9
<1>6. CASE Fail(w, r) /\ UNCHANGED subs
  BY <1>1, <1>2, <1>6, FailActs DEF Terminal, World
<1>7. ASSUME subs' = [subs EXCEPT ![j].status = IF @ = "created" THEN "cancelled" ELSE @],
             lock' = Nobody, Goto(w, "refused"), UNCHANGED row
      PROVE  Acts(w) /\ WorldOK'
  <2>1. subs' = [subs EXCEPT ![j] = refused]
    BY <1>7
  <2>2. refused \in SubRows /\ refused.boltz = subs[j].boltz /\ refused.lockups = subs[j].lockups
    <3>1. subs[j] \in SubRows
      BY <1>2, <1>3
    <3>2. status \in {"none", "created", "busy", "failed", "cancelled", "refunded"}
      BY <3>1 DEF SubRows
    <3> HIDE DEF status
    <3> QED
      BY <3>1, <3>2 DEF SubRows
  <2> HIDE DEF refused
  <2>3. Kept
    BY <1>1, <1>7, Keeping
  <2>4. Grows /\ WorldOK' /\ Does(w)
    BY Zenon, <1>1, <1>2, <2>1, <2>2, <2>3, SubChange
  <2> QED
    BY <1>4, <1>7, <2>4 DEF Acts
<1> QED
  BY Zenon, <1>5, <1>6, <1>7 DEF FundLockup

\* What Boltz answers is recorded.
Answers(w, j, status, seen, boltz) ==
    /\ subs' = [subs EXCEPT ![j].status = status, ![j].seen = seen, ![j].boltz = boltz]
    /\ lock \in {Nobody, w} /\ lock' = Nobody
    /\ Goto(w, "ended")
    /\ UNCHANGED row

Answerable(w, j, status, seen, boltz) ==
    /\ j \in Subs /\ j = task[w].copy.submarine_boltz_swap_id
    /\ status \in {"none", "created", "busy", "failed", "cancelled", "refunded"}
    /\ seen \in {"open", "failed", "refunded"}
    /\ boltz \in {"open", "paid", "failed", "returned", "refunded"}
    /\ boltz = subs[j].boltz \/ (subs[j].boltz = "failed" /\ subs[j].lockups > 0)

\* An answer of Boltz makes nothing unsettled that was settled.
LEMMA Answering ==
    ASSUME BaseInv, NEW w \in Workers, InHandler(w), task[w].pc = "submarine_swapping",
           UNCHANGED <<kind, swaps, use, paid, intake, channel, Past>>,
           NEW j, NEW status, NEW seen, NEW boltz,
           Answerable(w, j, status, seen, boltz), Answers(w, j, status, seen, boltz)
    PROVE  Acts(w) /\ WorldOK'
<1> USE DEF Answerable
<1> DEFINE r == task[w].copy
           a == [subs[j] EXCEPT !.status = status]
           b == [a EXCEPT !.seen = seen]
           t == [b EXCEPT !.boltz = boltz]
<1>1. subs \in [Subs -> SubRows]
  BY DEF BaseInv, WorldOK
<1>2. subs' = [subs EXCEPT ![j] = t]
  BY Zenon, <1>1 DEF Answers
<1>3. a \in SubRows /\ a.lockups = subs[j].lockups
  BY <1>1 DEF SubRows
<1> HIDE DEF a
<1>4. b \in SubRows /\ b.lockups = subs[j].lockups
  BY <1>3 DEF SubRows
<1> HIDE DEF b
<1>5. t \in SubRows /\ t.lockups = subs[j].lockups /\ t.boltz = boltz
  BY <1>4 DEF SubRows
<1> HIDE DEF t
<1>6. Kept
  BY Zenon, Keeping DEF Answers
<1>7. Grows /\ WorldOK' /\ Does(w)
  BY Zenon, <1>2, <1>5, <1>6, SubChange
<1>8. r.status = "submarine_swapping" /\ j # 0
  BY Soundness, DepositAssumption DEF Sound, PcStatus
<1>9. PcStatus("ended", r.status)
  BY <1>8 DEF PcStatus, CreatedPcs, SubmarinePcs, InvoicePcs, SamePcs
<1>10. PcPath("ended", r, task[w].made, kind)
  BY <1>8 DEF PcPath, SubmarinePcs
<1>11. PcTruth("ended", r, PaidCoins', ReturnedSubs', intake'.refunded) /\ "ended" \in Pcs
  BY DEF PcTruth, Pcs
<1>12. Goto(w, "ended") /\ UNCHANGED row
  BY Zenon DEF Answers
<1>13. Stays(w)
  BY <1>7, <1>9, <1>10, <1>11, <1>12, Going
<1> QED
  BY <1>7, <1>13 DEF Acts

\* _advance_submarine_swapping goes on only when an invoice is settled.
LEMMA PollSubmarineActs ==
    ASSUME BaseInv, NEW w \in Workers, PollSubmarine(w)
    PROVE  Acts(w) /\ WorldOK'
<1> DEFINE r == task[w].copy
           j == r.submarine_boltz_swap_id
<1>1. /\ InHandler(w) /\ task[w].pc = "submarine_swapping"
      /\ UNCHANGED <<kind, swaps, use, paid, intake, channel, Past>>
  BY Zenon DEF PollSubmarine, At, InHandler
<1>2. /\ r \in RowTypes /\ r.status = "submarine_swapping"
      /\ "submarine_swapping" \in r.status_history /\ kind \in OnchainKinds
  BY <1>1, Soundness DEF Sound, PcStatus, RowPath
<1>3. CASE Settled(r.submarine_payment_hash) /\ Commit(w, Moved(r, "created"), "create") /\ UNCHANGED subs
  <2> DEFINE n == Moved(r, "created")
  <2>1. MovedRow(n, r, "created") /\ Commit(w, n, "create")
    BY <1>2, <1>3, Moving DEF Statuses
  <2> HIDE DEF n
  <2>2. PaidSubs # {}
    BY <1>3 DEF Settled, PaidSubs
  <2>3. MayFollow(task[w].pc, r, "created", kind, PaidSubs)
    BY <1>1, <1>2, <2>2 DEF MayFollow, Late, Early, Sent, Statuses
  <2>4. Good(w, n)
    BY <2>1, <2>3, Following
  <2>5. PcStatus("create", n.status)
    BY <2>1 DEF MovedRow, PcStatus, CreatedPcs, SubmarinePcs, InvoicePcs, SamePcs
  <2>6. PcPath("create", n, task[w].made, kind)
    BY <1>2, <2>1 DEF MovedRow, PcPath, SubmarinePcs
  <2>7. UNCHANGED <<kind, World, Past>>
    BY <1>1, <1>3 DEF World
  <2> QED
    BY <1>1, <2>1, <2>4, <2>5, <2>6, <2>7, CommitOn DEF Pcs, CreatedPcs
<1>4. CASE Leave(w) /\ UNCHANGED subs
  BY <1>1, <1>4, LeaveActs DEF World
<1>5. ASSUME j # 0, Goto(w, "ended"), UNCHANGED <<row, lock, subs>>
      PROVE  Acts(w) /\ WorldOK'
  <2>1. PcStatus("ended", r.status)
    BY <1>2 DEF PcStatus, CreatedPcs, SubmarinePcs, InvoicePcs, SamePcs
  <2>2. PcPath("ended", r, task[w].made, kind)
    BY <1>5 DEF PcPath, SubmarinePcs
  <2>3. PcTruth("ended", r, PaidCoins', ReturnedSubs', intake'.refunded) /\ "ended" \in Pcs
    BY DEF PcTruth, Pcs
  <2>4. UNCHANGED <<kind, World>>
    BY <1>1, <1>5 DEF World
  <2>5. Quiet /\ Grows /\ Does(w)
    BY <2>4, Quietly
  <2>6. Stays(w)
    BY <1>1, <1>5, <2>1, <2>2, <2>3, <2>5, Going
  <2>7. WorldOK'
    BY <1>1, <1>5, <2>4, WorldStays DEF BaseInv, WorldOK, Past
  <2> QED
    BY <2>5, <2>6, <2>7 DEF Acts
<1>6. ASSUME NEW status, NEW seen, NEW boltz, Answerable(w, j, status, seen, boltz),
             Answers(w, j, status, seen, boltz)
      PROVE  Acts(w) /\ WorldOK'
  BY Zenon, <1>1, <1>6, Answering
<1>7. j # 0 => j \in Subs /\ subs[j] \in SubRows
  BY <1>2 DEF BaseInv, WorldOK, RowTypes
<1>8. j # 0 => /\ subs[j].status \in {"none", "created", "busy", "failed", "cancelled", "refunded"}
               /\ subs[j].seen \in {"open", "failed", "refunded"}
               /\ subs[j].boltz \in {"open", "paid", "failed", "returned", "refunded"}
  BY <1>7 DEF SubRows
<1>9. CASE /\ j # 0 /\ subs[j].boltz \in {"open", "paid"}
           /\ Answers(w, j, subs[j].status, subs[j].seen, subs[j].boltz)
  BY Zenon, <1>6, <1>7, <1>8, <1>9 DEF Answerable
<1>10. CASE /\ j # 0 /\ subs[j].boltz = "refunded"
            /\ Answers(w, j, "refunded", "refunded", "refunded")
  BY <1>6, <1>7, <1>10 DEF Answerable
<1>11. CASE j # 0 /\ Answers(w, j, "refunded", "failed", subs[j].boltz)
  BY Zenon, <1>6, <1>7, <1>8, <1>11 DEF Answerable
<1>12. CASE j # 0 /\ Answers(w, j, "failed", "failed", subs[j].boltz)
  BY Zenon, <1>6, <1>7, <1>8, <1>12 DEF Answerable
<1>13. CASE /\ j # 0 /\ subs[j].boltz = "failed" /\ subs[j].lockups > 0
            /\ Answers(w, j, "refunded", "failed", "returned")
  BY <1>6, <1>7, <1>13 DEF Answerable
<1>14. CASE /\ j # 0 /\ subs[j].boltz = "failed" /\ subs[j].lockups > 0
            /\ subs' = [subs EXCEPT ![j].boltz = "returned"] /\ Leave(w)
  <2> DEFINE t == [subs[j] EXCEPT !.boltz = "returned"]
  <2>1. t \in SubRows /\ t.lockups = subs[j].lockups /\ t.boltz = "returned"
    BY <1>7, <1>14 DEF SubRows
  <2>2. subs' = [subs EXCEPT ![j] = t]
    BY Zenon, <1>14
  <2> HIDE DEF t
  <2>3. Kept
    BY <1>1, <1>14, Keeping
  <2>4. Grows /\ WorldOK' /\ Does(w)
    BY Zenon, <1>1, <1>7, <1>14, <2>1, <2>2, <2>3, SubChange
  <2>5. Stays(w)
    BY Zenon, <1>1, <1>14, Leaving DEF Leave, Past
  <2> QED
    BY <2>4, <2>5 DEF Acts
<1> QED
  BY Zenon, <1>3, <1>4, <1>5, <1>9, <1>10, <1>11, <1>12, <1>13, <1>14 DEF PollSubmarine, Answers

\* A channel is opened and recorded next, or the session fails.
LEMMA OpenChannelActs ==
    ASSUME BaseInv, NEW w \in Workers, OpenChannel(w)
    PROVE  Acts(w) /\ WorldOK'
<1> DEFINE r == task[w].copy
<1> DEFINE opened == channel.opened < 2 /\ channel' = [channel EXCEPT !.opened = @ + 1]
<1>1. /\ InHandler(w) /\ task[w].pc \in {"open", "reopen"}
      /\ UNCHANGED <<kind, swaps, use, paid, subs, intake, overlap, events>>
  BY Zenon DEF OpenChannel, InHandler
<1>2. r \in RowTypes /\ r.status = "created" /\ kind \in ChannelKinds /\ ~r.channel_open_txid
  BY <1>1, Soundness DEF Sound, PcStatus, PcPath, CreatedPcs
<1>3. ASSUME opened, UNCHANGED lost,
             \/ Goto(w, "opened") /\ UNCHANGED <<row, lock>>
             \/ Fail(w, r)
      PROVE  Acts(w) /\ WorldOK'
  <2>0. UNCHANGED Past
    BY <1>1, <1>3 DEF Past
  <2>1. /\ channel' \in [opened : 0..2, active : BOOLEAN]
        /\ channel'.opened = channel.opened + 1
    BY <1>1, <1>3 DEF BaseInv, WorldOK
  <2>2. Fail(w, r) => /\ row'.status = "failed" /\ MovedRow(Moved(r, "failed"), r, "failed")
                      /\ \E n, t : CommitTo(w, n, t)
    BY <1>2, FailsRow DEF Terminal
  <2>3. Kept
    BY <1>1, <1>3, <2>0, <2>2, Keeping
  <2>4. /\ PaidCoins' = PaidCoins /\ ClaimedCoins' = ClaimedCoins /\ ReturnedSubs' = ReturnedSubs
        /\ PaidSubs' = PaidSubs
    BY <1>1 DEF PaidCoins, PaidOut, ClaimedCoins, ReturnedSubs, PaidSubs
  <2>5. Grows
    BY <1>1, <2>4 DEF Grows
  <2>6. WorldOK'
    BY <1>1, <2>1, <2>3 DEF BaseInv, WorldOK, Kept
  <2>7. Goto(w, "opened") /\ UNCHANGED <<row, lock>> => Stays(w) /\ task'[w].pc = "opened"
    <3>1. PcStatus("opened", r.status)
      BY <1>2 DEF PcStatus, CreatedPcs, SubmarinePcs, InvoicePcs, SamePcs
    <3>2. PcPath("opened", r, task[w].made, kind)
      BY <1>2 DEF PcPath, SubmarinePcs
    <3>3. PcTruth("opened", r, PaidCoins', ReturnedSubs', intake'.refunded) /\ "opened" \in Pcs
      BY DEF PcTruth, Pcs, CreatedPcs
    <3> QED
      BY <1>1, <2>0, <2>5, <3>1, <3>2, <3>3, Going
  <2>8. task'[w].pc = "opened" \/ row'.status \in Late
    BY <1>3, <2>2, <2>7 DEF Late, Statuses, Terminal, Early
  <2>9. Does(w)
    BY <1>1, <2>1, <2>4, <2>8 DEF Does, At
  <2>10. CASE Goto(w, "opened") /\ UNCHANGED <<row, lock>>
    BY <2>5, <2>6, <2>7, <2>9, <2>10 DEF Acts
  <2>11. CASE Fail(w, r)
    <3>1. Good(w, Moved(r, "failed"))
      BY <1>1, <1>2, <2>2, <2>11, FailGood DEF Terminal
    <3> QED
      BY <1>1, <2>0, <2>4, <2>5, <2>6, <2>9, <2>11, <3>1, CommitDone DEF Fail
  <2> QED
    BY <1>3, <2>10, <2>11
<1>4. CASE Fail(w, r) /\ UNCHANGED <<channel, lost>>
  BY <1>1, <1>2, <1>4, FailActs DEF Terminal, World, Past
<1>5. CASE Leave(w) /\ UNCHANGED <<channel, lost>>
  BY <1>1, <1>5, LeaveActs DEF World, Past
<1>6. ASSUME opened \/ UNCHANGED channel, Goto(w, "reopen"), UNCHANGED <<row, lock>>,
             lost' = (lost \/ channel' # channel)
      PROVE  Acts(w) /\ WorldOK'
  <2>1. channel' \in [opened : 0..2, active : BOOLEAN]
    BY <1>6 DEF BaseInv, WorldOK
  <2>2. \/ channel' = channel
        \/ channel'.opened = channel.opened + 1 /\ lost'
    BY <1>6 DEF BaseInv, WorldOK
  <2>3. /\ PaidCoins' = PaidCoins /\ ClaimedCoins' = ClaimedCoins /\ ReturnedSubs' = ReturnedSubs
        /\ PaidSubs' = PaidSubs
    BY <1>1 DEF PaidCoins, PaidOut, ClaimedCoins, ReturnedSubs, PaidSubs
  <2>4. Grows
    BY <1>1, <2>3 DEF Grows
  <2>5. lost' \in BOOLEAN /\ (lost => lost')
    BY Zenon, <1>6
  <2>6. WorldOK'
    BY <1>1, <1>6, <2>1, <2>5 DEF BaseInv, WorldOK
  <2>7. Does(w)
    BY <1>1, <2>2, <2>3 DEF Does, At
  <2>8. PcStatus("reopen", r.status)
    BY <1>2 DEF PcStatus, CreatedPcs, SubmarinePcs, InvoicePcs, SamePcs
  <2>9. PcPath("reopen", r, task[w].made, kind)
    BY <1>2 DEF PcPath, SubmarinePcs
  <2>10. PcTruth("reopen", r, PaidCoins', ReturnedSubs', intake'.refunded) /\ "reopen" \in Pcs
    BY DEF PcTruth, Pcs, CreatedPcs
  <2>11. Stays(w)
    BY <1>1, <1>6, <2>4, <2>5, <2>8, <2>9, <2>10, GoingOn
  <2> QED
    BY <2>4, <2>6, <2>7, <2>11 DEF Acts
<1> QED
  BY Zenon, <1>3, <1>4, <1>5, <1>6 DEF OpenChannel

\* The one coin that is sent is the one in the row.
LEMMA SendActs ==
    ASSUME BaseInv, NEW w \in Workers, Send(w)
    PROVE  Acts(w) /\ WorldOK'
<1> DEFINE r == task[w].copy
           i == r.fresh_utxo
           x == IF task[w].short THEN "short" ELSE "deposit"
<1>1. InHandler(w) /\ task[w].pc = "send" /\ UNCHANGED <<kind, swaps, paid, subs, intake, channel, Past>>
  BY DEF Send, At, InHandler
<1>2. r \in RowTypes /\ r.status = "sending" /\ i # 0 /\ i \in Swaps
  BY <1>1, Soundness DEF Sound, PcStatus, PcPath, RowTypes
<1>3. ASSUME use' = [use EXCEPT ![i] = x],
             \/ Goto(w, "sent") /\ UNCHANGED <<row, lock>>
             \/ Leave(w)
      PROVE  Acts(w) /\ WorldOK'
  <2>1. x \in {"deposit", "short"}
    BY DEF x
  <2> HIDE DEF x
  <2>2. use \in [Swaps -> {"unspent", "deposit", "short", "other"}]
    BY DEF BaseInv, WorldOK
  <2>3. /\ PaidCoins' = PaidCoins \cup {i} /\ ClaimedCoins' = ClaimedCoins
        /\ ReturnedSubs' = ReturnedSubs /\ PaidSubs' = PaidSubs
    BY <1>1, <1>2, <1>3, <2>1, <2>2 DEF PaidCoins, PaidOut, ClaimedCoins, ReturnedSubs, PaidSubs
  <2>4. Grows
    BY <1>1, <2>3 DEF Grows
  <2>5. Does(w)
    BY <1>1, <2>3 DEF Does, At
  <2>6. Kept
    BY <1>1, <1>3, Keeping
  <2>7. use' \in [Swaps -> {"unspent", "deposit", "short", "other"}]
    BY <1>2, <1>3, <2>1, <2>2
  <2>8. WorldOK'
    BY <1>1, <2>6, <2>7 DEF BaseInv, WorldOK, Kept
  <2>9. CASE Goto(w, "sent") /\ UNCHANGED <<row, lock>>
    <3>1. PcStatus("sent", r.status)
      BY <1>2 DEF PcStatus, CreatedPcs, SubmarinePcs, InvoicePcs, SamePcs
    <3>2. PcPath("sent", r, task[w].made, kind)
      BY <1>2 DEF PcPath, SubmarinePcs
    <3>3. PcTruth("sent", r, PaidCoins', ReturnedSubs', intake'.refunded) /\ "sent" \in Pcs
      BY <2>3 DEF PcTruth, Pcs
    <3>4. Stays(w)
      BY <1>1, <2>4, <2>9, <3>1, <3>2, <3>3, Going
    <3> QED
      BY <2>4, <2>5, <2>8, <3>4 DEF Acts
  <2>10. CASE Leave(w)
    <3>1. Stays(w)
      BY Zenon, <1>1, <2>10, Leaving DEF Leave, Past
    <3> QED
      BY <2>4, <2>5, <2>8, <3>1 DEF Acts
  <2> QED
    BY <1>3, <2>9, <2>10
<1>4. ASSUME UNCHANGED use, Leave(w) \/ Park(w) \/ Fail(w, r)
      PROVE  Acts(w) /\ WorldOK'
  <2>1. UNCHANGED <<kind, World, Past>>
    BY <1>1, <1>4 DEF World
  <2>2. CASE Leave(w)
    BY <1>1, <2>1, <2>2, LeaveActs
  <2>3. CASE Park(w)
    BY <1>1, <1>2, <2>1, <2>3, ParkActs
  <2>4. CASE Fail(w, r)
    BY <1>1, <1>2, <2>1, <2>4, FailActs DEF Terminal
  <2> QED
    BY <1>4, <2>2, <2>3, <2>4
<1> QED
  BY Zenon, <1>3, <1>4 DEF Send

\* The intake goes back only when the row has no coin.
LEMMA RefundIntakeActs ==
    ASSUME BaseInv, NEW w \in Workers, RefundIntake(w)
    PROVE  Acts(w) /\ WorldOK'
<1> DEFINE r == task[w].copy
<1>1. InHandler(w) /\ task[w].pc = "refund" /\ UNCHANGED <<kind, swaps, use, paid, subs, channel, Past>>
  BY DEF RefundIntake, At, InHandler
<1>2. r \in RowTypes /\ r.status = "failed" /\ r.fresh_utxo = 0
  BY Zenon, <1>1, Soundness DEF Sound, PcStatus, PcPath
<1>3. ASSUME intake' = [intake EXCEPT !.refunded = TRUE],
             \/ Goto(w, "intake_refunded") /\ UNCHANGED <<row, lock>>
             \/ Leave(w)
      PROVE  Acts(w) /\ WorldOK'
  <2>1. intake' \in [deposit : {"none", "part", "full"}, refunded : BOOLEAN] /\ intake'.refunded
    BY Zenon, <1>3 DEF BaseInv, WorldOK
  <2>2. /\ PaidCoins' = PaidCoins /\ ClaimedCoins' = ClaimedCoins /\ ReturnedSubs' = ReturnedSubs
        /\ PaidSubs' = PaidSubs
    BY <1>1 DEF PaidCoins, PaidOut, ClaimedCoins, ReturnedSubs, PaidSubs
  <2>3. Grows
    BY <1>1, <2>1, <2>2 DEF Grows
  <2>4. Does(w)
    BY <1>1, <2>2 DEF Does, At
  <2>5. Kept
    BY <1>1, <1>3, Keeping
  <2>6. WorldOK'
    BY <1>1, <2>1, <2>5 DEF BaseInv, WorldOK, Kept
  <2>7. CASE Goto(w, "intake_refunded") /\ UNCHANGED <<row, lock>>
    <3>1. PcStatus("intake_refunded", r.status)
      BY <1>2 DEF PcStatus, CreatedPcs, SubmarinePcs, InvoicePcs, SamePcs
    <3>2. PcPath("intake_refunded", r, task[w].made, kind)
      BY <1>2 DEF PcPath, SubmarinePcs
    <3>3. /\ PcTruth("intake_refunded", r, PaidCoins', ReturnedSubs', intake'.refunded)
          /\ "intake_refunded" \in Pcs
      BY <2>1 DEF PcTruth, Pcs
    <3>4. Stays(w)
      BY <1>1, <2>3, <2>7, <3>1, <3>2, <3>3, Going
    <3> QED
      BY <2>3, <2>4, <2>6, <3>4 DEF Acts
  <2>8. CASE Leave(w)
    <3>1. Stays(w)
      BY Zenon, <1>1, <2>8, Leaving DEF Leave, Past
    <3> QED
      BY <2>3, <2>4, <2>6, <3>1 DEF Acts
  <2> QED
    BY <1>3, <2>7, <2>8
<1>4. CASE Leave(w) /\ UNCHANGED intake
  BY <1>1, <1>4, LeaveActs DEF World
<1> QED
  BY Zenon, <1>3, <1>4 DEF RefundIntake

\* A lockup that Boltz did not pay for goes back.
LEMMA RefundLockupActs ==
    ASSUME BaseInv, NEW w \in Workers, RefundLockup(w)
    PROVE  Acts(w) /\ WorldOK'
<1> DEFINE r == task[w].copy
           j == r.submarine_boltz_swap_id
           t == [subs[j] EXCEPT !.boltz = "returned"]
<1>1. InHandler(w) /\ task[w].pc = "heal" /\ UNCHANGED <<kind, swaps, use, paid, intake, channel, Past>>
  BY DEF RefundLockup, At, InHandler
<1>2. r \in RowTypes /\ j # 0 /\ j \in Subs
  BY <1>1, Soundness DEF Sound, PcPath, RowTypes
<1>3. ASSUME Refundable(j), subs' = [subs EXCEPT ![j].boltz = "returned"],
             Goto(w, "lockup_refunded"), UNCHANGED <<row, lock>>
      PROVE  Acts(w) /\ WorldOK'
  <2>1. subs \in [Subs -> SubRows] /\ subs[j] \in SubRows
    BY <1>2 DEF BaseInv, WorldOK
  <2>2. subs' = [subs EXCEPT ![j] = t]
    BY <1>3
  <2>3. t \in SubRows /\ t.lockups = subs[j].lockups /\ t.boltz = "returned"
    BY <2>1 DEF SubRows
  <2> HIDE DEF t
  <2>4. subs[j].boltz = "failed" /\ subs[j].lockups > 0
    BY <1>3 DEF Refundable
  <2>5. Kept
    BY <1>1, <1>3, Keeping
  <2>6. Grows /\ WorldOK' /\ Does(w)
    BY Zenon, <1>1, <1>2, <2>2, <2>3, <2>4, <2>5, SubChange
  <2>7. j \in ReturnedSubs'
    BY <1>2, <2>1, <2>2, <2>3 DEF ReturnedSubs
  <2>8. PcStatus("lockup_refunded", r.status)
    BY DEF PcStatus, CreatedPcs, SubmarinePcs, InvoicePcs, SamePcs
  <2>9. PcPath("lockup_refunded", r, task[w].made, kind)
    BY <1>2 DEF PcPath, SubmarinePcs
  <2>10. /\ PcTruth("lockup_refunded", r, PaidCoins', ReturnedSubs', intake'.refunded)
         /\ "lockup_refunded" \in Pcs
    BY <2>7 DEF PcTruth, Pcs
  <2>11. Stays(w)
    BY <1>1, <1>3, <2>6, <2>8, <2>9, <2>10, Going
  <2> QED
    BY <2>6, <2>11 DEF Acts
<1>4. CASE Leave(w) /\ UNCHANGED subs
  BY <1>1, <1>4, LeaveActs DEF World
<1> QED
  BY Zenon, <1>3, <1>4 DEF RefundLockup

\* Its refund is recorded, whatever the status was.
LEMMA RecordRefundActs ==
    ASSUME BaseInv, NEW w \in Workers, RecordRefund(w)
    PROVE  Acts(w) /\ WorldOK'
<1> DEFINE r == task[w].copy
           j == r.submarine_boltz_swap_id
           n == [Moved(r, "refunded") EXCEPT !.refund_txid = TRUE]
           t == [subs[j] EXCEPT !.status = "refunded"]
<1>1. /\ InHandler(w) /\ task[w].pc = "lockup_refunded" /\ Commit(w, n, "idle")
      /\ subs' = [subs EXCEPT ![j].status = "refunded"]
      /\ UNCHANGED <<kind, swaps, use, paid, intake, channel, Past>>
  BY DEF RecordRefund, At, InHandler
<1>2. r \in RowTypes /\ j # 0 /\ j \in Subs /\ j \in ReturnedSubs
  BY <1>1, Soundness DEF Sound, PcPath, PcTruth, RowTypes
<1>3. RefundedRow(n, r, TRUE)
  BY Zenon, <1>2, Refunding
<1> HIDE DEF n
<1>4. Good(w, n)
  BY Zenon, <1>1, <1>2, <1>3, RefundGood
<1>5. subs \in [Subs -> SubRows] /\ subs[j] \in SubRows
  BY <1>2 DEF BaseInv, WorldOK
<1>6. subs' = [subs EXCEPT ![j] = t]
  BY <1>1
<1>7. t \in SubRows /\ t.lockups = subs[j].lockups /\ t.boltz = subs[j].boltz
  BY <1>5 DEF SubRows
<1> HIDE DEF t
<1>8. \E m, u : CommitTo(w, m, u)
  BY <1>1 DEF Commit
<1>9. Kept
  BY <1>1, <1>8, Keeping
<1>10. Grows /\ WorldOK' /\ Does(w) /\ PaidCoins' = PaidCoins
  BY Zenon, <1>1, <1>2, <1>6, <1>7, <1>9, SubChange
<1> QED
  BY <1>1, <1>4, <1>10, CommitDone

(***************************************************************************)
(* Entering a handler, and leaving it.                                     *)
(***************************************************************************)

\* The dispatch leads to a place that fits the row.
LEMMA Entry ==
    ASSUME NEW c \in RowTypes, RowPath(c, kind), NEW made, Handler(c) # "idle", kind \in SourceKinds
    PROVE  /\ Handler(c) \in Pcs \ {"sent", "lockup_refunded", "intake_refunded"}
           /\ PcStatus(Handler(c), c.status)
           /\ PcPath(Handler(c), c, made, kind)
<1>1. CASE c.status = "created"
  <2>1. Handler(c) = CreatedHandler(c)
    BY <1>1 DEF Handler
  <2>2. /\ CreatedHandler(c) \in {"create", "intake", "open", "invoice"}
        /\ CreatedHandler(c) = "create" /\ kind \in OnchainKinds =>
              "submarine_swapping" \in c.status_history
        /\ CreatedHandler(c) = "intake" =>
              /\ kind \in {"ext_onchain", "ext_onchain_channel"}
              /\ "awaiting_onchain_funds" \notin c.status_history
        /\ CreatedHandler(c) = "open" => kind \in ChannelKinds /\ ~c.channel_open_txid
        /\ CreatedHandler(c) = "invoice" =>
              /\ kind \in OnchainKinds
              /\ "submarine_swapping" \notin c.status_history
              /\ kind = "ext_onchain" => "awaiting_onchain_funds" \in c.status_history
    BY DEF CreatedHandler, OnchainKinds, ChannelKinds, SourceKinds
  <2>3. PcStatus(CreatedHandler(c), c.status)
    BY <1>1, <2>2 DEF PcStatus, InvoicePcs, SamePcs
  <2>4. PcPath(CreatedHandler(c), c, made, kind)
    BY <2>2 DEF PcPath, SubmarinePcs
  <2>5. CreatedHandler(c) \in Pcs \ {"sent", "lockup_refunded", "intake_refunded"}
    BY <2>2 DEF Pcs, CreatedPcs, SubmarinePcs
  <2> QED
    BY <2>1, <2>3, <2>4, <2>5
<1>2. CASE c.status = "failed"
  <2>1. Handler(c) = "heal" /\ c.submarine_boltz_swap_id # 0
    BY <1>2 DEF Handler, Heals
  <2> QED
    BY <2>1 DEF PcStatus, PcPath, Pcs, CreatedPcs, SubmarinePcs, InvoicePcs, SamePcs
<1>3. CASE c.status \in Statuses \ {"created", "failed"}
  <2>1. Handler(c) = c.status /\ c.status \notin Terminal
    BY <1>3 DEF Handler, Terminal, Statuses
  <2>2. PcStatus(c.status, c.status) /\ c.status \in Pcs \ {"sent", "lockup_refunded", "intake_refunded"}
    BY <1>3, <2>1 DEF PcStatus, Pcs, Statuses, CreatedPcs, SubmarinePcs, InvoicePcs, SamePcs
  <2>3. PcPath(c.status, c, made, kind)
    BY <1>3, <2>1 DEF PcPath, Statuses, SubmarinePcs
  <2> QED
    BY <2>1, <2>2, <2>3
<1> QED
  BY <1>1, <1>2, <1>3 DEF RowTypes

\* A worker that takes up the row, or a copy of it.
LEMMA Starting ==
    ASSUME BaseInv, NEW w \in Workers, ~InHandler(w), NEW c \in {row, task[w].copy},
           NEW p \in Pcs \ {"sent", "lockup_refunded", "intake_refunded"},
           task' = [task EXCEPT ![w].pc = p, ![w].copy = c],
           PcStatus(p, c.status), PcPath(p, c, task[w].made, kind),
           UNCHANGED <<kind, row, World, lost>>, lock' \in Workers \cup {Nobody},
           events' \in 0..MaxEvents,
           \/ ~Running(p) /\ overlap' = overlap
           \/ overlap' = (overlap \/ Overlaps(w, c))
    PROVE  Acts(w) /\ WorldOK'
<1> DEFINE u == [task[w] EXCEPT !.pc = p]
           t == [u EXCEPT !.copy = c]
<1>1. /\ task[w] \in Tasks
      /\ TaskFits(task[w], row, kind, PaidCoins, ClaimedCoins, ReturnedSubs, intake.refunded)
  BY DEF BaseInv, TasksOK
<1>2. /\ c \in RowTypes
      /\ RowFits(c, kind, PaidCoins, ClaimedCoins, ReturnedSubs, intake.refunded)
      /\ Remains(c, row)
  BY <1>1 DEF BaseInv, RowOK, TaskFits, RowFits, Remains
<1>3. task' = [task EXCEPT ![w] = t]
  BY Zenon DEF BaseInv, TasksOK
<1>4. u \in Tasks /\ u.pc = p /\ u.made = task[w].made
  BY <1>1 DEF Tasks
<1> HIDE DEF u
<1>5. t \in Tasks /\ t.pc = p /\ t.copy = c /\ t.made = task[w].made
  BY <1>2, <1>4 DEF Tasks
<1> HIDE DEF t
<1>6. Quiet /\ Grows /\ Does(w)
  BY Quietly
<1>7. PcTruth(p, c, PaidCoins, ReturnedSubs, intake.refunded)
  BY DEF PcTruth
<1>8. TaskFits(t, row, kind', PaidCoins', ClaimedCoins', ReturnedSubs', intake'.refunded)
  BY <1>2, <1>5, <1>6, <1>7 DEF TaskFits, Quiet
<1>9. StaysAt(w, t)
  BY Zenon, <1>3, <1>5, <1>8 DEF StaysAt, InHandler
<1>10. overlap' \in BOOLEAN /\ lost' \in BOOLEAN
  BY Zenon DEF BaseInv, WorldOK
<1>11. WorldOK'
  BY <1>10, WorldStays DEF BaseInv
<1> QED
  BY <1>5, <1>6, <1>9, <1>11 DEF Acts, Stays

\* The number of events stays within its bound.
LEMMA HappensTyped ==
    ASSUME WorldOK
    PROVE  /\ Happens => events' \in 0..MaxEvents
           /\ events \in 0..MaxEvents
BY DepositAssumption DEF WorldOK, Happens

\* A copy of the row is taken.
LEMMA LoadActs ==
    ASSUME BaseInv, NEW w \in Workers, Load(w)
    PROVE  Acts(w) /\ WorldOK'
<1>1. /\ ~InHandler(w) /\ task' = [task EXCEPT ![w].pc = "loaded", ![w].copy = row]
      /\ UNCHANGED <<kind, row, World, lost>> /\ UNCHANGED lock /\ UNCHANGED overlap
  BY DEF Load, At, InHandler
<1>2. events' \in 0..MaxEvents /\ lock' \in Workers \cup {Nobody}
  BY <1>1, HappensTyped DEF Load, BaseInv, WorldOK
<1>3. PcStatus("loaded", row.status)
  BY DEF PcStatus, CreatedPcs, SubmarinePcs, InvoicePcs, SamePcs
<1>4. PcPath("loaded", row, task[w].made, kind)
  BY DEF PcPath, SubmarinePcs
<1>5. "loaded" \in Pcs \ {"sent", "lockup_refunded", "intake_refunded"} /\ ~Running("loaded")
  BY DEF Pcs, Running
<1> QED
  BY Zenon, <1>1, <1>2, <1>3, <1>4, <1>5, Starting

\* advance(), with the caller's copy or with the row.
LEMMA EnterActs ==
    ASSUME BaseInv, NEW w \in Workers, ~InHandler(w), NEW c \in {row, task[w].copy}, Enter(w, c),
           UNCHANGED <<kind, row, World, lost>>, events' \in 0..MaxEvents
    PROVE  Acts(w) /\ WorldOK'
<1>1. c \in RowTypes /\ RowPath(c, kind) /\ kind \in SourceKinds
  BY Soundness, DepositAssumption DEF Sound, BaseInv, WorldOK, RowOK, RowFits
<1>2. /\ Handler(c) # "idle" /\ task' = [task EXCEPT ![w].pc = Handler(c), ![w].copy = c]
      /\ overlap' = (overlap \/ Overlaps(w, c))
      /\ lock' \in Workers \cup {Nobody}
  BY Zenon DEF Enter
<1>3. /\ Handler(c) \in Pcs \ {"sent", "lockup_refunded", "intake_refunded"}
      /\ PcStatus(Handler(c), c.status)
      /\ PcPath(Handler(c), c, task[w].made, kind)
  BY <1>1, <1>2, Entry
<1> QED
  BY Zenon, <1>2, <1>3, Starting

\* advance() with an old copy, or without the lock.
LEMMA AdvanceActs ==
    ASSUME BaseInv, NEW w \in Workers, Advance(w)
    PROVE  Acts(w) /\ WorldOK'
<1>1. ~InHandler(w) /\ task[w].pc = "loaded" /\ UNCHANGED <<kind, row, World, lost, events>>
  BY DEF Advance, At, InHandler
<1>2. CASE Enter(w, task[w].copy)
  <2>1. events' \in 0..MaxEvents
    BY <1>1 DEF BaseInv, WorldOK
  <2> QED
    BY <1>1, <1>2, <2>1, EnterActs
<1>3. CASE Leave(w) /\ UNCHANGED overlap
  BY <1>1, <1>3, LeaveActs DEF Past
<1> QED
  BY <1>2, <1>3 DEF Advance

\* advance() with the row.
LEMMA AdvanceNowActs ==
    ASSUME BaseInv, NEW w \in Workers, AdvanceNow(w)
    PROVE  Acts(w) /\ WorldOK'
<1>1. ~InHandler(w) /\ Enter(w, row) /\ UNCHANGED <<kind, row, World, lost>>
  BY DEF AdvanceNow, At, InHandler
<1>2. events' \in 0..MaxEvents
  BY HappensTyped DEF AdvanceNow, BaseInv
<1> QED
  BY <1>1, <1>2, EnterActs

\* A request that may be made of the row as it is.
LEMMA AskedActs ==
    ASSUME BaseInv, NEW w \in Workers, NEW p \in Pcs \ {"sent", "lockup_refunded", "intake_refunded"},
           Asked(w, p), PcStatus(p, row.status), PcPath(p, row, task[w].made, kind)
    PROVE  Acts(w) /\ WorldOK'
<1>1. /\ ~InHandler(w) /\ task' = [task EXCEPT ![w].pc = p, ![w].copy = row]
      /\ UNCHANGED <<kind, row, World, lost>>
      /\ overlap' = (overlap \/ Overlaps(w, row))
      /\ lock' \in Workers \cup {Nobody}
  BY DEF Asked, At, InHandler
<1>2. events' \in 0..MaxEvents
  BY HappensTyped DEF Asked, BaseInv
<1> QED
  BY Zenon, <1>1, <1>2, Starting

\* A request reads the row under the lock and fits it.
LEMMA RequestActs ==
    ASSUME BaseInv, NEW w \in Workers, Request(w)
    PROVE  Acts(w) /\ WorldOK'
<1>1. ASSUME AskCancel(w) PROVE Acts(w) /\ WorldOK'
  <2>1. row.status \in Cancellable
    BY <1>1 DEF AskCancel, Cancellable
  <2>2. PICK p \in {"cancel_swap", "cancel"} : Asked(w, p)
    BY <1>1 DEF AskCancel
  <2>3. PcStatus(p, row.status)
    BY <2>1 DEF PcStatus, CreatedPcs, SubmarinePcs, InvoicePcs, SamePcs
  <2>4. PcPath(p, row, task[w].made, kind)
    BY DEF PcPath, SubmarinePcs
  <2> QED
    BY <2>2, <2>3, <2>4, AskedActs DEF Pcs
<1>2. ASSUME AskRegenerate(w) PROVE Acts(w) /\ WorldOK'
  <2>1. PcStatus("regenerate", row.status)
    BY <1>2 DEF AskRegenerate, PcStatus, CreatedPcs, SubmarinePcs, InvoicePcs, SamePcs
  <2>2. PcPath("regenerate", row, task[w].made, kind)
    BY DEF PcPath, SubmarinePcs
  <2> QED
    BY <1>2, <2>1, <2>2, AskedActs DEF AskRegenerate, Pcs, InvoicePcs
<1>3. ASSUME AskRetry(w) PROVE Acts(w) /\ WorldOK'
  <2>1. PcStatus("retry", row.status)
    BY <1>3 DEF AskRetry, PcStatus, CreatedPcs, SubmarinePcs, InvoicePcs, SamePcs
  <2>2. PcPath("retry", row, task[w].made, kind)
    BY <1>3 DEF AskRetry, PcPath, SubmarinePcs
  <2> QED
    BY <1>3, <2>1, <2>2, AskedActs DEF AskRetry, Pcs
<1>4. ASSUME AskRefund(w) PROVE Acts(w) /\ WorldOK'
  <2>1. PcStatus("refund", row.status)
    BY <1>4 DEF AskRefund, PcStatus, CreatedPcs, SubmarinePcs, InvoicePcs, SamePcs
  <2>2. PcPath("refund", row, task[w].made, kind)
    BY <1>4 DEF AskRefund, PcPath, SubmarinePcs
  <2> QED
    BY <1>4, <2>1, <2>2, AskedActs DEF AskRefund, Pcs
<1>5. ASSUME AskLockupRefund(w) PROVE Acts(w) /\ WorldOK'
  <2>1. PcStatus("heal", row.status)
    BY DEF PcStatus, CreatedPcs, SubmarinePcs, InvoicePcs, SamePcs
  <2>2. PcPath("heal", row, task[w].made, kind)
    BY <1>5 DEF AskLockupRefund, PcPath, SubmarinePcs
  <2> QED
    BY <1>5, <2>1, <2>2, AskedActs DEF AskLockupRefund, Pcs
<1> QED
  BY <1>1, <1>2, <1>3, <1>4, <1>5 DEF Request

\* A worker dies; what it had not recorded is lost.
LEMMA CrashActs ==
    ASSUME BaseInv, NEW w \in Workers, Crash(w)
    PROVE  Acts(w) /\ WorldOK'
<1>1. /\ task' = [task EXCEPT ![w] = Idle] /\ UNCHANGED <<kind, World>> /\ UNCHANGED row
      /\ overlap' = overlap
  BY DEF Crash
<1>2. lost' \in BOOLEAN /\ (lost => lost') /\ (task[w].pc \in {"opened", "funding_sent"} => lost')
  BY Zenon DEF Crash
<1>3. lock' \in Workers \cup {Nobody}
  BY DEF Crash, BaseInv, WorldOK
<1>4. Stays(w)
  BY Zenon, <1>1, <1>2, Leaving
<1>5. Quiet /\ Grows /\ Does(w)
  BY <1>1, Quietly
<1>6. events' \in 0..MaxEvents
  BY HappensTyped DEF Crash, BaseInv
<1>7. WorldOK'
  BY <1>1, <1>2, <1>3, <1>6, WorldStays DEF BaseInv, WorldOK
<1> QED
  BY <1>4, <1>5, <1>7 DEF Acts

\* Every step of a worker.
LEMMA WorkerActs ==
    ASSUME BaseInv, NEW w \in Workers, Step(w) \/ Request(w) \/ Crash(w)
    PROVE  Acts(w) /\ WorldOK'
BY Zenon, LoadActs, AdvanceActs, AdvanceNowActs, CreateSwapActs, LinkSwapActs, IssueAddressActs,
   MakeInvoiceActs, CreateSubmarineActs, LinkSubmarineActs, FundLockupActs, RefusedActs,
   RecordFundingActs, StartSubmarineActs, PollSubmarineActs, SubmarineEndedActs, OpenChannelActs,
   RecordChannelActs, PollChannelActs, PollInvoiceActs, InvoiceReadActs, PollIntakeActs,
   IntakeReceivedActs, PollSwapActs, PrepareSendActs, SendActs, RecordSendActs, ReconcileActs,
   CheckFeesActs, PollConfirmationsActs, RefundLockupActs, RecordRefundActs, CancelSwapActs,
   CancelActs, RegenerateActs, RecreateSwapActs, RelinkSwapActs, RetryActs, RefundIntakeActs,
   RecordIntakeRefundActs, RequestActs, CrashActs DEF Step

(***************************************************************************)
(* Steps of the world.                                                     *)
(***************************************************************************)

\* Something happens outside that neither pays, funds, opens nor refunds on
\* behalf of the session.
Elsewhere ==
    /\ UNCHANGED Others
    /\ Grows
    /\ PaidCoins' = PaidCoins
    /\ FundedSubs' = FundedSubs
    /\ \A j \in Subs : subs'[j].lockups = subs[j].lockups
    /\ channel'.opened = channel.opened
    /\ intake'.refunded = intake.refunded

\* The invariant does not depend on the rest of the world.
LEMMA ElsewhereHolds ==
    ASSUME DepositInv, WorldOK', Elsewhere
    PROVE  DepositInv'
<1>1. RowOK'
  BY TruthGrows DEF DepositInv, BaseInv, RowOK, RowFits, Elsewhere, Others, Grows
<1>2. TasksOK'
  <2>1. task' = task /\ row' = row /\ kind' = kind
    BY DEF Elsewhere, Others
  <2>2. ASSUME NEW v \in Workers
        PROVE  TaskFits(task[v], row, kind, PaidCoins', ClaimedCoins', ReturnedSubs', intake'.refunded)
    BY Zenon, TruthGrows DEF DepositInv, BaseInv, TasksOK, TaskFits, RowFits, Elsewhere, Grows
  <2> QED
    BY <2>1, <2>2 DEF DepositInv, BaseInv, TasksOK
<1>3. SoleInv'
  <2> SUFFICES ASSUME ~overlap' PROVE SoleInv'
    BY DEF SoleInv
  <2>1. ~overlap /\ row' = row /\ kind' = kind /\ task' = task
    BY DEF Elsewhere, Others, Past
  <2>2. SoleWorker /\ SoleRow(row, kind, PaidCoins, FundedSubs, PaidSubs, intake.refunded)
    BY <2>1 DEF DepositInv, SoleInv
  <2>3. SoleWorker'
    BY <2>1, <2>2 DEF SoleWorker, InHandler
  <2>4. SoleRow(row, kind, PaidCoins', FundedSubs', PaidSubs', intake'.refunded)
    BY <2>2 DEF SoleRow, Elsewhere, Grows
  <2> QED
    BY <2>1, <2>3, <2>4 DEF SoleInv
<1>4. KnownInv'
  <2> SUFFICES ASSUME Alone' PROVE KnownInv'
    BY DEF KnownInv
  <2>1. Alone /\ row' = row /\ task' = task
    BY DEF Alone, Elsewhere, Others, Past
  <2>2. channel'.opened = channel.opened /\ \A j \in Subs : subs'[j].lockups = subs[j].lockups
    BY DEF Elsewhere
  <2> QED
    BY <2>1, <2>2 DEF DepositInv, KnownInv, Known, At
<1> QED
  BY <1>1, <1>2, <1>3, <1>4 DEF DepositInv, BaseInv

\* The swap rows change, or the invoices are paid.
LEMMA SwapsElsewhere ==
    ASSUME BaseInv, UNCHANGED <<Others, use, subs, intake, channel>>,
           swaps' \in [Swaps -> SwapRows], paid' \in [Swaps -> BOOLEAN],
           \A i \in Swaps : swaps[i].coin = "claimed" => swaps'[i].coin = "claimed"
    PROVE  Elsewhere /\ WorldOK'
<1>1. /\ PaidCoins' = PaidCoins /\ ReturnedSubs' = ReturnedSubs /\ PaidSubs' = PaidSubs
      /\ FundedSubs' = FundedSubs
  BY DEF PaidCoins, PaidOut, ReturnedSubs, PaidSubs, FundedSubs
<1>2. ClaimedCoins \subseteq ClaimedCoins'
  BY DEF ClaimedCoins
<1>3. Grows
  BY <1>1, <1>2 DEF Grows, Others
<1>4. WorldOK'
  BY DEF BaseInv, WorldOK, Others, Past
<1> QED
  BY <1>1, <1>3, <1>4 DEF Elsewhere, Others

\* The tasks of the reverse swap go on: a claimed coin stays claimed.
LEMMA SwapMovesElsewhere ==
    ASSUME BaseInv, NEW i \in Swaps, SwapMoves(i)
    PROVE  Elsewhere /\ WorldOK'
<1>1. PICK t \in TruthfulRows : Follows(swaps[i], t) /\ swaps' = [swaps EXCEPT ![i] = t]
  BY Zenon DEF SwapMoves, Move
<1>2. t \in SwapRows /\ (swaps[i].coin = "claimed" => t.coin = "claimed")
  BY <1>1 DEF TruthfulRows, Follows
<1>3. swaps' \in [Swaps -> SwapRows]
  BY <1>1, <1>2 DEF BaseInv, WorldOK
<1>4. \A k \in Swaps : swaps[k].coin = "claimed" => swaps'[k].coin = "claimed"
  BY <1>1, <1>2 DEF BaseInv, WorldOK
<1>5. UNCHANGED <<Others, use, subs, intake, channel>> /\ paid' \in [Swaps -> BOOLEAN]
  BY DEF SwapMoves, BaseInv, WorldOK
<1> QED
  BY <1>3, <1>4, <1>5, SwapsElsewhere

\* The swap task pays the invoice.
LEMMA SwapTaskPaysElsewhere ==
    ASSUME BaseInv, NEW i \in Swaps, SwapTaskPays(i)
    PROVE  Elsewhere /\ WorldOK'
<1> DEFINE t == [swaps[i] EXCEPT !.status = "busy"]
<1>1. swaps \in [Swaps -> SwapRows] /\ paid \in [Swaps -> BOOLEAN]
  BY DEF BaseInv, WorldOK
<1>2. /\ swaps' = [swaps EXCEPT ![i] = t] /\ paid' = [paid EXCEPT ![i] = TRUE]
      /\ UNCHANGED <<Others, use, subs, intake, channel>>
  BY DEF SwapTaskPays
<1>3. t \in SwapRows /\ t.coin = swaps[i].coin
  BY <1>1 DEF SwapRows, SwapStatuses
<1> HIDE DEF t
<1>4. swaps' \in [Swaps -> SwapRows] /\ paid' \in [Swaps -> BOOLEAN]
  BY <1>1, <1>2, <1>3
<1>5. \A k \in Swaps : swaps[k].coin = "claimed" => swaps'[k].coin = "claimed"
  BY <1>1, <1>2, <1>3
<1> QED
  BY <1>2, <1>4, <1>5, SwapsElsewhere

\* The external payer does.
LEMMA UserPaysElsewhere ==
    ASSUME BaseInv, NEW i \in Swaps, UserPays(i)
    PROVE  Elsewhere /\ WorldOK'
<1>1. swaps \in [Swaps -> SwapRows] /\ paid \in [Swaps -> BOOLEAN]
  BY DEF BaseInv, WorldOK
<1>2. /\ swaps' = swaps /\ paid' = [paid EXCEPT ![i] = TRUE]
      /\ UNCHANGED <<Others, use, subs, intake, channel>>
  BY DEF UserPays
<1>3. swaps' \in [Swaps -> SwapRows] /\ paid' \in [Swaps -> BOOLEAN]
  BY <1>1, <1>2
<1> QED
  BY <1>2, <1>3, SwapsElsewhere

\* Another spend takes an unspent coin, not one that was sent.
LEMMA CoinTakenElsewhere ==
    ASSUME BaseInv, NEW i \in Swaps, CoinTaken(i)
    PROVE  Elsewhere /\ WorldOK'
<1>1. use \in [Swaps -> {"unspent", "deposit", "short", "other"}] /\ use[i] = "unspent"
  BY DEF BaseInv, WorldOK, CoinTaken, Unspent
<1>2. use' = [use EXCEPT ![i] = "other"] /\ UNCHANGED <<Others, swaps, paid, subs, intake, channel>>
  BY DEF CoinTaken
<1>3. use' \in [Swaps -> {"unspent", "deposit", "short", "other"}]
  BY <1>1, <1>2
<1>4. PaidCoins' = PaidCoins
  BY <1>1, <1>2 DEF PaidCoins, PaidOut
<1>5. /\ ClaimedCoins' = ClaimedCoins /\ ReturnedSubs' = ReturnedSubs /\ PaidSubs' = PaidSubs
      /\ FundedSubs' = FundedSubs
  BY <1>2 DEF ClaimedCoins, ReturnedSubs, PaidSubs, FundedSubs
<1>6. Grows
  BY <1>2, <1>4, <1>5 DEF Grows, Others
<1>7. WorldOK'
  BY <1>2, <1>3 DEF BaseInv, WorldOK, Others, Past
<1> QED
  BY <1>2, <1>4, <1>5, <1>6, <1>7 DEF Elsewhere, Others

\* Boltz settles a funded swap, or gives it up; its row follows.
LEMMA SubmarineMovesElsewhere ==
    ASSUME BaseInv, NEW j \in Subs, SubmarineMoves(j)
    PROVE  Elsewhere /\ WorldOK'
<1>1. subs \in [Subs -> SubRows] /\ subs[j] \in SubRows
  BY DEF BaseInv, WorldOK
<1>2. UNCHANGED <<Others, swaps, use, paid, intake, channel>>
  BY DEF SubmarineMoves
<1>3. ASSUME NEW t \in SubRows, subs' = [subs EXCEPT ![j] = t], t.lockups = subs[j].lockups,
             \/ t.boltz = subs[j].boltz
             \/ subs[j].boltz = "open" /\ (t.boltz = "failed" \/ subs[j].lockups > 0)
      PROVE  Elsewhere /\ WorldOK'
  <2>1. PaidCoins' = PaidCoins /\ ClaimedCoins' = ClaimedCoins
    BY <1>2 DEF PaidCoins, PaidOut, ClaimedCoins
  <2>2. /\ ReturnedSubs \subseteq ReturnedSubs' /\ PaidSubs \subseteq PaidSubs'
        /\ FundedSubs' = FundedSubs
        /\ \A k \in Subs : subs'[k].lockups = subs[k].lockups
    BY <1>1, <1>3 DEF ReturnedSubs, PaidSubs, FundedSubs
  <2>3. Grows
    BY <1>2, <2>1, <2>2 DEF Grows, Others
  <2>4. \A k \in Subs : subs'[k].boltz \in {"paid", "returned", "refunded"} => subs'[k].lockups > 0
    BY <1>1, <1>3 DEF BaseInv, WorldOK
  <2>5. subs' \in [Subs -> SubRows]
    BY <1>1, <1>3
  <2>6. WorldOK'
    BY <1>2, <2>4, <2>5 DEF BaseInv, WorldOK, Others, Past
  <2> QED
    BY <1>2, <2>1, <2>2, <2>3, <2>6 DEF Elsewhere, Others
<1>4. ASSUME NEW b \in {"paid", "refunded", "failed"}, subs[j].boltz = "open",
             b = "failed" \/ subs[j].lockups > 0, subs' = [subs EXCEPT ![j].boltz = b]
      PROVE  Elsewhere /\ WorldOK'
  <2> DEFINE t == [subs[j] EXCEPT !.boltz = b]
  <2>1. t \in SubRows /\ t.lockups = subs[j].lockups /\ t.boltz = b
    BY <1>1 DEF SubRows
  <2>2. subs' = [subs EXCEPT ![j] = t]
    BY <1>4
  <2> HIDE DEF t
  <2> QED
    BY Zenon, <1>3, <1>4, <2>1, <2>2
<1>5. ASSUME NEW s \in {"busy", "failed"}, subs' = [subs EXCEPT ![j].status = s]
      PROVE  Elsewhere /\ WorldOK'
  <2> DEFINE t == [subs[j] EXCEPT !.status = s]
  <2>1. t \in SubRows /\ t.lockups = subs[j].lockups /\ t.boltz = subs[j].boltz
    BY <1>1 DEF SubRows
  <2>2. subs' = [subs EXCEPT ![j] = t]
    BY <1>5
  <2> HIDE DEF t
  <2> QED
    BY Zenon, <1>3, <2>1, <2>2
<1> QED
  BY <1>4, <1>5 DEF SubmarineMoves

\* The depositor pays, or the channel becomes active.
LEMMA DepositElsewhere ==
    ASSUME BaseInv, Deposit \/ ChannelActive
    PROVE  Elsewhere /\ WorldOK'
<1>1. UNCHANGED <<Others, swaps, use, paid, subs>>
  BY DEF Deposit, ChannelActive
<1>2. /\ PaidCoins' = PaidCoins /\ ClaimedCoins' = ClaimedCoins /\ ReturnedSubs' = ReturnedSubs
      /\ PaidSubs' = PaidSubs /\ FundedSubs' = FundedSubs
  BY <1>1 DEF PaidCoins, PaidOut, ClaimedCoins, ReturnedSubs, PaidSubs, FundedSubs
<1>3. /\ intake' \in [deposit : {"none", "part", "full"}, refunded : BOOLEAN]
      /\ intake'.refunded = intake.refunded
  BY DEF Deposit, ChannelActive, BaseInv, WorldOK
<1>4. /\ channel' \in [opened : 0..2, active : BOOLEAN]
      /\ channel'.opened = channel.opened
  BY Zenon DEF Deposit, ChannelActive, BaseInv, WorldOK
<1>5. Grows
  BY <1>1, <1>2, <1>3 DEF Grows, Others
<1>6. WorldOK'
  BY <1>1, <1>3, <1>4 DEF BaseInv, WorldOK, Others, Past
<1> QED
  BY <1>1, <1>2, <1>3, <1>4, <1>5, <1>6 DEF Elsewhere, Others

\* Every step of the world.
LEMMA EnvironmentElsewhere ==
    ASSUME BaseInv, Environment
    PROVE  Elsewhere /\ WorldOK'
BY SwapMovesElsewhere, SwapTaskPaysElsewhere, UserPaysElsewhere, CoinTakenElsewhere,
   SubmarineMovesElsewhere, DepositElsewhere DEF Environment

(***************************************************************************)
(* The invariant holds, and what follows from it.                          *)
(***************************************************************************)

\* The invariant holds when create_session has committed the row.
LEMMA DepositInit ==
    ASSUME Init
    PROVE  DepositInv
<1>1. NewRow \in RowTypes
  BY DEF NewRow, RowTypes, Statuses, Terminal
<1>2. NoSwap \in SwapRows /\ NoSub \in SubRows
  BY DEF NoSwap, SwapRows, SwapStatuses, NoSub, SubRows
<1>3. WorldOK
  <2>1. /\ swaps \in [Swaps -> SwapRows] /\ subs \in [Subs -> SubRows]
        /\ use \in [Swaps -> {"unspent", "deposit", "short", "other"}]
        /\ paid \in [Swaps -> BOOLEAN]
    BY <1>2 DEF Init
  <2>2. /\ intake \in [deposit : {"none", "part", "full"}, refunded : BOOLEAN]
        /\ channel \in [opened : 0..2, active : BOOLEAN]
        /\ events \in 0..MaxEvents
    BY DepositAssumption DEF Init
  <2>3. \A j \in Subs : subs[j].boltz = "open"
    BY DEF Init, NoSub
  <2> QED
    BY Zenon, <2>1, <2>2, <2>3 DEF Init, WorldOK
<1>4. RowOK
  BY <1>1 DEF Init, RowOK, RowFits, RowTruth, RowPath, NewRow
<1>5. TasksOK
  BY Zenon, IdleFits DEF Init, TasksOK
<1>6. PaidCoins = {} /\ FundedSubs = {} /\ ~intake.refunded
  BY DEF Init, PaidCoins, PaidOut, FundedSubs, NoSub
<1>7. SoleRow(row, kind, PaidCoins, FundedSubs, PaidSubs, intake.refunded)
  BY <1>6 DEF Init, SoleRow, NewRow, Passed, Early, Sent
<1>8. SoleWorker
  BY DEF Init, SoleWorker, InHandler, Idle
<1>9. KnownInv
  BY DEF Init, KnownInv, NoSub
<1> QED
  BY <1>3, <1>4, <1>5, <1>7, <1>8, <1>9 DEF DepositInv, BaseInv, SoleInv

\* It holds as long as nothing changes.
LEMMA DepositStutter ==
    ASSUME DepositInv, UNCHANGED vars
    PROVE  DepositInv'
<1>1. /\ PaidCoins' = PaidCoins /\ ClaimedCoins' = ClaimedCoins /\ ReturnedSubs' = ReturnedSubs
      /\ PaidSubs' = PaidSubs /\ FundedSubs' = FundedSubs
  BY DEF vars, World, PaidCoins, PaidOut, ClaimedCoins, ReturnedSubs, PaidSubs, FundedSubs
<1>2. Grows
  BY <1>1 DEF vars, World, Grows
<1>3. Elsewhere
  BY <1>1, <1>2 DEF vars, World, Elsewhere, Others
<1>4. WorldOK'
  BY DEF DepositInv, BaseInv, WorldOK, vars, World, Past
<1> QED
  BY <1>3, <1>4, ElsewhereHolds

\* The invariant is inductive: every step of a worker and of the world
\* preserves it.
LEMMA DepositNext ==
    ASSUME DepositInv, [Next]_vars
    PROVE  DepositInv'
<1>1. CASE \E w \in Workers : Step(w) \/ Request(w) \/ Crash(w)
  BY <1>1, WorkerActs, ActsHolds DEF DepositInv
<1>2. CASE Environment
  BY <1>2, EnvironmentElsewhere, ElsewhereHolds DEF DepositInv
<1>3. CASE UNCHANGED vars
  BY <1>3, DepositStutter
<1> QED
  BY <1>1, <1>2, <1>3 DEF Next

\* The invariant holds in every reachable state of a session.
THEOREM DepositHolds == Spec => []DepositInv
  BY DepositInit, DepositNext, PTL DEF Spec

\* Every variable keeps its type: a row and the copies of it never get a status
\* or a link they cannot have.
THEOREM DepositTypes == Spec => []TypeOK
<1>1. DepositInv => TypeOK
  BY DEF DepositInv, BaseInv, WorldOK, RowOK, RowFits, TasksOK, TaskFits, Tasks, TypeOK, SubRows
<1> QED
  BY <1>1, DepositHolds, PTL

\* What the row says did happen: a BROADCAST or COMPLETED session paid its
\* destination, a recorded outpoint was claimed and a recorded refund was
\* made, however many stale copies of the row are written back.
THEOREM RowsAreTrue == Spec => []RowIsTrue
<1>1. DepositInv => RowIsTrue
  <2> SUFFICES ASSUME DepositInv PROVE RowIsTrue
    OBVIOUS
  <2>1. /\ RowTruth(row, PaidCoins, ClaimedCoins, ReturnedSubs, intake.refunded)
        /\ RowPath(row, kind)
    BY DEF DepositInv, BaseInv, RowOK, RowFits
  <2> QED
    BY <2>1 DEF RowTruth, RowPath, RowIsTrue, PaidCoins, ClaimedCoins, ReturnedSubs
<1> QED
  BY <1>1, DepositHolds, PTL

\* On-chain funds are committed a second time only after two handlers overlapped,
\* or a lockup or an opening went out without its txid getting to the row.
\* Otherwise what was committed is in the row the next pass starts from, or the
\* session has failed.
THEOREM FundsOnce == Spec => []FundedOnce
<1>1. DepositInv => FundedOnce
  <2> SUFFICES ASSUME DepositInv, ~overlap, ~lost
               PROVE  /\ channel.opened <= 1
                      /\ \A j, k \in Subs : Lockups[j] > 0 /\ Lockups[k] > 0 => j = k
                      /\ \A j \in Subs : Lockups[j] <= 1
    BY DEF FundedOnce
  <2>1. \A j \in FundedSubs : row.submarine_boltz_swap_id = j
    BY DEF DepositInv, SoleInv, SoleRow, Alone
  <2>2. channel.opened <= 1 /\ \A j \in Subs : subs[j].lockups <= 1
    BY DEF DepositInv, KnownInv, Alone
  <2> QED
    BY <2>1, <2>2 DEF FundedSubs, Lockups
<1> QED
  BY <1>1, DepositHolds, PTL

\* No payer gets a refund for a deposit that was also made, as long as no two
\* handlers overlap: the send is of the coin of a settled lockup, and the intake
\* goes back only when there is no coin.
THEOREM NeverBoth == Spec => []NotBoth
<1>1. DepositInv => NotBoth
  <2> SUFFICES ASSUME DepositInv, ~overlap, NEW i \in Swaps, PaidOut(i),
                      intake.refunded \/ \E j \in Subs : subs[j].boltz \in {"returned", "refunded"}
               PROVE  FALSE
    BY DEF NotBoth
  <2>1. SoleRow(row, kind, PaidCoins, FundedSubs, PaidSubs, intake.refunded)
    BY DEF DepositInv, SoleInv
  <2>2. row.fresh_utxo = i /\ i # 0
    BY <2>1, DepositAssumption DEF SoleRow, PaidCoins
  <2>3. ~intake.refunded
    BY <2>1, <2>2 DEF SoleRow
  <2>4. PICK j \in Subs : subs[j].boltz \in {"returned", "refunded"}
    BY <2>3
  <2>5. j \in FundedSubs /\ j # 0
    BY <2>4, DepositAssumption DEF DepositInv, BaseInv, WorldOK, FundedSubs
  <2>6. row.submarine_boltz_swap_id = j
    BY <2>1, <2>5 DEF SoleRow
  <2>7. kind \in OnchainKinds
    BY <2>5, <2>6 DEF DepositInv, BaseInv, RowOK, RowFits, RowPath
  <2>8. j \in PaidSubs
    BY <2>1, <2>2, <2>6, <2>7 DEF SoleRow, Passed
  <2> QED
    BY <2>4, <2>8 DEF PaidSubs
<1> QED
  BY <1>1, DepositHolds, PTL

\* A session that has ended stays as it ended, and neither its send nor its
\* refund is forgotten, unless two handlers overlap.
THEOREM EndsStay == Spec => EndIsFinal
<1>1. DepositInv /\ [Next]_vars =>
         [~overlap' => /\ row.status \in {"completed", "refunded"} => row'.status = row.status
                       /\ row.status = "cancelled" => row'.status \in {"cancelled", "refunded"}
                       /\ row.send_txid # 0 => row'.send_txid = row.send_txid
                       /\ row.refund_txid => row'.refund_txid]_vars
  <2> SUFFICES ASSUME DepositInv, Next, ~overlap'
               PROVE  FinalStep
    BY DEF FinalStep
  <2>1. CASE \E w \in Workers : Step(w) \/ Request(w) \/ Crash(w)
    BY <2>1, WorkerActs, ActsFinal DEF DepositInv
  <2>2. CASE Environment
    BY <2>2, EnvironmentElsewhere DEF DepositInv, Elsewhere, Others, FinalStep
  <2> QED
    BY <2>1, <2>2 DEF Next
<1> QED
  BY <1>1, DepositHolds, PTL DEF Spec, EndIsFinal

\* The session keeps the promise its model of the swaps is made of, whatever
\* overlaps, crashes or is cancelled: it creates a swap in an unused row only,
\* and it cancels only a swap that exists, so that what BoltzSwap implements is
\* what the session relies on.
THEOREM DepositKeepsPromise == Spec => SwapsSpec
<1>1. Init => SwapsInit /\ LinkInv
  BY DEF Init, SwapsInit, LinkInv, Idle, Cancelling
<1>2. BaseInv /\ LinkInv /\ [Next]_vars => LinkInv' /\ [SwapsNext]_swaps
  BY LinkNext
<1>3. DepositInv => BaseInv
  BY DEF DepositInv
<1> QED
  BY <1>1, <1>2, <1>3, DepositHolds, PTL DEF Spec, SwapsSpec


(***************************************************************************)
(* The count of payments.                                                  *)
(***************************************************************************)
INSTANCE FiniteSetTheorems

\* The destination is paid at most once, as long as no two handlers work on the
\* session at a time: every coin that was sent is the one in the row.
THEOREM PaysOnce == Spec => []PaidOnce
<1>1. DepositInv => PaidOnce
  <2> SUFFICES ASSUME DepositInv, ~overlap
               PROVE  Cardinality({i \in Swaps : PaidOut(i)}) <= 1
    BY DEF PaidOnce
  <2>1. PaidCoins \subseteq {row.fresh_utxo}
    BY DEF DepositInv, SoleInv, SoleRow
  <2>2. IsFiniteSet({row.fresh_utxo}) /\ Cardinality({row.fresh_utxo}) = 1
    BY Zenon, FS_Singleton
  <2>3. Cardinality(PaidCoins) <= Cardinality({row.fresh_utxo})
    BY <2>1, <2>2, FS_Subset
  <2> QED
    BY <2>2, <2>3 DEF PaidCoins
<1> QED
  BY <1>1, DepositHolds, PTL
=============================================================================
