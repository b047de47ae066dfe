---------------------- MODULE AnonymizeSession_proofs ----------------------
(***************************************************************************)
(* The safety invariants of AnonymizeSession for every set of pipelines    *)
(* and every setting.                                                      *)
(***************************************************************************)
EXTENDS AnonymizeSession, FiniteSetTheorems, TLAPS

(* The pipelines that sessions are created with.                           *)
Sessions == UNION {Created(p) : p \in Pipelines}

Worlds == [selfPay : [Numbers -> Payment], exitPay : [Numbers -> Payment],
           swaps : 0 .. 2, offers : Nat, offerPaid : BOOLEAN,
           deposited : BOOLEAN, claim : BOOLEAN, depth : 0 .. MinConfirmations,
           deepest : Nat, reorgs : Nat, idle : BOOLEAN, ripe : BOOLEAN]

(* The statuses a session has from the arrival of its funds on.            *)
Beyond == {"ln_holding", "delaying", "hopping", "exiting", "confirming"}

Arrived(w) ==
    /\ kind.source = "lightning-self" => w.selfPay[1] = "settled"
    /\ kind.source = "ext-bolt12" => w.deposited

Earned(status, w) ==
    /\ status = "completed" /\ kind.exit = "reverse" =>
           w.deepest >= MinConfirmations
    /\ status = "completed" /\ kind.exit # "reverse" => w.offerPaid
    /\ status = "completed_with_reorg_uncertainty" =>
           w.reorgs >= GiveUpReorgs

(* What a status that a row carries or goes back to says of the world.     *)
StatusOK(status, w) ==
    /\ status \in Beyond => Arrived(w)
    /\ status = "confirming" => kind.exit = "reverse"

(* What a row says of the world, in a form no growth of the world undoes.  *)
RowOK(r, w) ==
    /\ r \in Rows
    /\ StatusOK(r.status, w) /\ StatusOK(r.pre, w) /\ r.pre \notin Terminal
    /\ Earned(r.status, w)
    /\ r.swap <= w.swaps
    /\ r.selfPaid \/ FireKey \in r.done => w.selfPay[1] = "settled"
    /\ r.claimed => kind.exit = "reverse"
    /\ r.confirmations <= w.deepest /\ r.reorgs <= w.reorgs

WorldOK(w) ==
    /\ w \in Worlds
    /\ w.selfPay[2] = "none"
    /\ \A n \in Numbers : w.exitPay[n] # "none" => n <= w.swaps
    /\ w.swaps > 0 \/ w.offers > 0 => Arrived(w)
    /\ w.depth <= w.deepest

(* What later steps never take back.                                       *)
Grows(w, v) ==
    /\ w.selfPay[1] = "settled" => v.selfPay[1] = "settled"
    /\ w.deposited => v.deposited
    /\ w.offerPaid => v.offerPaid
    /\ w.swaps <= v.swaps
    /\ w.deepest <= v.deepest
    /\ w.reorgs <= v.reorgs

-----------------------------------------------------------------------------
\* Writing a field keeps the fields of a record. The fact is in sight of every proof below, for what
\* it contains: before an update of a record the SMT backend gives up its type synthesis, the cost
\* of which grows with every obligation, and takes the untyped encoding.
LEMMA FieldsStay == DOMAIN [row EXCEPT !.status = "created"] = DOMAIN row
  OBVIOUS

USE FieldsStay

(* What a session's pipeline may be.                                       *)
LEMMA SessionKinds ==
    ASSUME kind \in Sessions
    PROVE  /\ kind.source \in {"lightning-self", "ext-bolt11", "ext-bolt12",
                               "ext-bolt12-unminted", "onchain"}
           /\ kind.exit \in {"reverse", "bolt12_pay"}
<1>1. PICK p \in Pipelines : kind \in Created(p)
  BY DEF Sessions
<1>2. p \in [source : {"lightning-self", "ext-bolt11", "ext-bolt12", "onchain"},
            exit : {"reverse", "bolt12_pay"}, claimer : {"hex", "txid"}]
  BY <1>1, AnonymizeAssumption
<1> QED BY <1>1, <1>2 DEF Created

(* Growth of the world undoes nothing a row says.                          *)
LEMMA RowMonotone ==
    ASSUME NEW r, NEW w \in Worlds, NEW v \in Worlds, RowOK(r, w), Grows(w, v)
    PROVE  RowOK(r, v)
<1>1. Arrived(w) => Arrived(v)
  BY DEF Arrived, Grows
<1>2. Earned(r.status, w) => Earned(r.status, v)
  <2>1. {w.deepest, v.deepest, w.reorgs, v.reorgs} \subseteq Nat
    BY DEF Worlds
  <2> QED BY <2>1, AnonymizeAssumption DEF Earned, Grows
<1>3. r.swap <= w.swaps => r.swap <= v.swaps
  BY DEF Grows, Worlds, RowOK, Rows, Numbers
<1>4. r.confirmations <= w.deepest => r.confirmations <= v.deepest
  <2>1. r.confirmations \in Nat /\ w.deepest \in Nat /\ v.deepest \in Nat
    BY AnonymizeAssumption DEF Worlds, RowOK, Rows
  <2> QED BY <2>1 DEF Grows
<1>5. r.reorgs <= w.reorgs => r.reorgs <= v.reorgs
  BY DEF Grows, Worlds, RowOK, Rows
<1> QED BY <1>1, <1>2, <1>3, <1>4, <1>5 DEF RowOK, StatusOK, Grows

(* Touch moves the clock and nothing else.                                 *)
LEMMA TouchOnlyClock ==
    ASSUME NEW w \in Worlds, NEW a, NEW b
    PROVE  /\ Touch(w, a, b) \in Worlds
           /\ Touch(w, a, b).selfPay = w.selfPay
           /\ Touch(w, a, b).exitPay = w.exitPay
           /\ Touch(w, a, b).swaps = w.swaps
           /\ Touch(w, a, b).offers = w.offers
           /\ Touch(w, a, b).offerPaid = w.offerPaid
           /\ Touch(w, a, b).deposited = w.deposited
           /\ Touch(w, a, b).depth = w.depth
           /\ Touch(w, a, b).deepest = w.deepest
           /\ Touch(w, a, b).reorgs = w.reorgs
BY Zenon DEF Touch, Worlds

(* The graph leads only to statuses.                                       *)
LEMMA LegalStatus ==
    ASSUME NEW from \in Statuses, NEW to, IsLegal(from, to)
    PROVE  to \in Statuses
BY DEF Statuses, Transitions, IsLegal, Parked

(* A flush yields a row, and a column that the copy did not change keeps   *)
(* its current value.                                                      *)
LEMMA WrittenRow ==
    ASSUME NEW base \in Rows, NEW copy \in Rows, NEW current \in Rows
    PROVE  /\ Written(base, copy, current) \in Rows
           /\ \A f \in DOMAIN current : Written(base, copy, current)[f] =
                  IF copy[f] # base[f] THEN copy[f] ELSE current[f]
           /\ DOMAIN current = {"status", "pre", "reason", "attempts",
                "invoice", "selfPaid", "submarine", "swap", "decrements",
                "offer", "done", "claimed", "confirmations", "reorgs"}
BY DEF Written, Rows
-----------------------------------------------------------------------------
(* The columns that no hop and no dispatch writes.                         *)
Keeps(r, s) ==
    /\ s.attempts = r.attempts
    /\ s.invoice = r.invoice
    /\ s.confirmations = r.confirmations
    /\ s.reorgs = r.reorgs

(* Parking keeps what a row says.                                          *)
LEMMA ParkOK ==
    ASSUME NEW r, NEW w \in Worlds, RowOK(r, w), r.status \notin Terminal,
           NEW reason \in Reasons
    PROVE  /\ RowOK(Park(r, reason), w)
           /\ Keeps(r, Park(r, reason))
           /\ Park(r, reason).swap = r.swap
           /\ Park(r, reason).offer = r.offer
<1>1. Parked \in Statuses /\ Parked \notin Beyond /\ Parked # "confirming"
      /\ Parked # "completed" /\ Parked # "completed_with_reorg_uncertainty"
  BY DEF Statuses, Transitions, Parked, Beyond
<1>2. r \in Rows
  BY DEF RowOK
<1>3. Park(r, reason) \in Rows
  BY ZenonT(60), <1>1, <1>2 DEF Park, Rows
<1>4. /\ Park(r, reason).status \in {r.status, Parked}
      /\ Park(r, reason).pre \in {r.status, r.pre}
      /\ Park(r, reason).swap = r.swap
      /\ Park(r, reason).offer = r.offer
      /\ Park(r, reason).selfPaid = r.selfPaid
      /\ Park(r, reason).done = r.done
      /\ Park(r, reason).claimed = r.claimed
      /\ Keeps(r, Park(r, reason))
  BY <1>2 DEF Park, Rows, Keeps
<1> QED BY <1>1, <1>3, <1>4 DEF RowOK, StatusOK, Earned, Keeps

(* What a hop may leave behind, from the row r and the world w.            *)
HopOK(r, w, out) ==
    /\ RowOK(out.row, out.world) /\ WorldOK(out.world)
    /\ Grows(w, out.world) /\ Keeps(r, out.row)
    /\ out.row.swap = r.swap
    /\ out.world.depth = w.depth /\ out.world.reorgs = w.reorgs
    /\ out.world.swaps = w.swaps
    /\ r.invoice = 0 => out.world.selfPay = w.selfPay
    /\ \/ out.world.offers = w.offers
       \/ r.offer = "none" /\ out.world.offers = w.offers + 1
    /\ out.row.offer = "none" => out.world.offers = w.offers
                                 /\ r.offer = "none"

(* A hop that changes nothing.                                             *)
LEMMA HopIdle ==
    ASSUME NEW r, NEW w, RowOK(r, w), WorldOK(w)
    PROVE  HopOK(r, w, Out(r, w))
BY DEF HopOK, Out, Grows, Keeps, WorldOK, Worlds

(* The key of the self-payment is a hop key.                               *)
LEMMA FireKeyType ==
    FireKey \in {"ln_self_pay_fire", "reverse_pay_invoice"} \X {1, 2}
BY DEF FireKey

(* The self-payment: at most invoice 1 is paid, and recorded as settled    *)
(* only when it is.                                                        *)
LEMMA FireOK ==
    ASSUME NEW r, NEW w, RowOK(r, w), WorldOK(w), r.invoice = 1,
           NEW out \in FireSelfPay(r, w)
    PROVE  HopOK(r, w, out)
<1>1. PICK p \in SendPayment(w.selfPay[r.invoice]) :
         out = Out(IF p.answer = "ok" THEN SelfPaySettled(r) ELSE r,
                   [w EXCEPT !.selfPay[r.invoice] = p.to])
  BY Zenon DEF FireSelfPay
<1> DEFINE v == [w EXCEPT !.selfPay[1] = p.to]
<1>2. r \in Rows /\ w \in Worlds /\ w.selfPay \in [Numbers -> Payment]
  BY DEF RowOK, WorldOK, Worlds
<1>3. /\ p.to \in Payment
      /\ w.selfPay[1] = "settled" => p.to = "settled"
      /\ p.answer = "ok" => p.to = "settled"
  BY <1>2 DEF SendPayment, Payment, Numbers
<1>4. /\ v \in Worlds /\ v.selfPay[1] = p.to /\ v.selfPay[2] = w.selfPay[2]
      /\ v.exitPay = w.exitPay /\ v.swaps = w.swaps /\ v.offers = w.offers
      /\ v.deposited = w.deposited /\ v.offerPaid = w.offerPaid
      /\ v.depth = w.depth /\ v.deepest = w.deepest /\ v.reorgs = w.reorgs
  BY <1>2, <1>3 DEF Worlds, Numbers
<1>5. Grows(w, v)
  BY <1>2, <1>3, <1>4 DEF Grows, Worlds
<1>6. WorldOK(v)
  BY <1>3, <1>4 DEF WorldOK, Arrived
<1>7. RowOK(r, v)
  BY <1>2, <1>4, <1>5, RowMonotone
<1>8. p.answer = "ok" =>
        /\ RowOK(SelfPaySettled(r), v) /\ Keeps(r, SelfPaySettled(r))
        /\ SelfPaySettled(r).swap = r.swap
        /\ SelfPaySettled(r).offer = r.offer
  <2> SUFFICES ASSUME p.answer = "ok" PROVE <1>8!2
    OBVIOUS
  <2> DEFINE s == SelfPaySettled(r)
  <2>1. /\ s \in Rows /\ s.status = r.status /\ s.pre = r.pre
        /\ s.swap = r.swap /\ s.offer = r.offer /\ s.claimed = r.claimed
        /\ Keeps(r, s)
    BY Zenon, <1>2, FireKeyType DEF SelfPaySettled, MarkSettled, Rows, Keeps
  <2> QED BY <1>3, <1>4, <1>7, <2>1 DEF RowOK, Keeps
<1>9. out = Out(IF p.answer = "ok" THEN SelfPaySettled(r) ELSE r, v)
  BY <1>1
<1> HIDE DEF v
<1>10. CASE p.answer = "ok"
  BY <1>4, <1>5, <1>6, <1>8, <1>9, <1>10 DEF HopOK, Out
<1>11. CASE p.answer # "ok"
  BY <1>4, <1>5, <1>6, <1>7, <1>9, <1>11 DEF HopOK, Out, Keeps
<1> QED BY <1>10, <1>11

(* The whole self-pay hop.                                                 *)
LEMMA SelfPayOK ==
    ASSUME NEW r, NEW w, RowOK(r, w), WorldOK(w), NEW out \in SelfPayStep(r, w)
    PROVE  HopOK(r, w, out)
<1>1. r \in Rows /\ r.invoice \in {0, 1} /\ r.done \subseteq r.done
  BY DEF RowOK, Rows
<1>2. CASE out = Out(r, w)
  BY <1>2, HopIdle
<1>3. CASE out = Out(MarkSettled(r), w) /\ FireKey \in r.done
  <2> DEFINE s == MarkSettled(r)
  <2>1. /\ s \in Rows /\ s.status = r.status /\ s.pre = r.pre /\ s.done = r.done
        /\ s.swap = r.swap /\ s.offer = r.offer /\ s.claimed = r.claimed
        /\ Keeps(r, s)
    BY Zenon, <1>1 DEF MarkSettled, Rows, Keeps
  <2>2. RowOK(s, w)
    BY <1>3, <2>1 DEF RowOK, Keeps
  <2>3. Out(s, w).row = s /\ Out(s, w).world = w /\ Grows(w, w)
    BY DEF Out, Grows, WorldOK, Worlds
  <2>4. out = Out(s, w)
    BY <1>3
  <2> HIDE DEF s
  <2> QED BY <2>1, <2>2, <2>3, <2>4 DEF HopOK
<1>4. CASE out = Out(SelfPaySettled(r), w) /\ r.invoice = 1
           /\ w.selfPay[r.invoice] = "settled"
  <2> DEFINE s == SelfPaySettled(r)
  <2>1. /\ s \in Rows /\ s.status = r.status /\ s.pre = r.pre
        /\ s.swap = r.swap /\ s.offer = r.offer /\ s.claimed = r.claimed
        /\ Keeps(r, s)
    BY Zenon, <1>1, FireKeyType DEF SelfPaySettled, MarkSettled, Rows, Keeps
  <2>2. RowOK(s, w)
    BY <1>4, <2>1 DEF RowOK, Keeps
  <2>3. Out(s, w).row = s /\ Out(s, w).world = w /\ Grows(w, w)
    BY DEF Out, Grows, WorldOK, Worlds
  <2>4. out = Out(s, w)
    BY <1>4
  <2> HIDE DEF s
  <2> QED BY <2>1, <2>2, <2>3, <2>4 DEF HopOK
<1>5. CASE out \in FireSelfPay(r, w) /\ r.invoice = 1
  BY <1>5, FireOK
<1> QED BY <1>1, <1>2, <1>3, <1>4, <1>5 DEF SelfPayStep

(* A claim of the exit swap: the row learns of it only on a reverse exit.  *)
LEMMA ClaimOK ==
    ASSUME NEW r, NEW w, RowOK(r, w), WorldOK(w), kind.exit = "reverse",
           NEW out \in Claim(r, w)
    PROVE  HopOK(r, w, out)
<1>1. r \in Rows /\ w \in Worlds
  BY DEF RowOK, WorldOK
<1>3. ASSUME NEW answered \in BOOLEAN, NEW sent \in BOOLEAN,
             out = Out([r EXCEPT !.claimed = @ \/ answered],
                       [w EXCEPT !.claim = @ \/ sent])
      PROVE  HopOK(r, w, out)
  <2> DEFINE s == [r EXCEPT !.claimed = @ \/ answered]
             v == [w EXCEPT !.claim = @ \/ sent]
  <2>1. /\ s \in Rows /\ s.status = r.status /\ s.pre = r.pre
        /\ s.swap = r.swap /\ s.offer = r.offer /\ s.selfPaid = r.selfPaid
        /\ s.done = r.done /\ Keeps(r, s)
    BY ZenonT(60), <1>1 DEF Rows, Keeps
  <2>2. /\ v \in Worlds /\ v.selfPay = w.selfPay
        /\ v.exitPay = w.exitPay /\ v.swaps = w.swaps /\ v.offers = w.offers
        /\ v.deposited = w.deposited /\ v.offerPaid = w.offerPaid
        /\ v.depth = w.depth /\ v.deepest = w.deepest /\ v.reorgs = w.reorgs
    BY <1>1 DEF Worlds
  <2> HIDE DEF s, v
  <2>3. Grows(w, v) /\ WorldOK(v)
    BY <1>1, <2>2 DEF Grows, WorldOK, Arrived, Worlds
  <2>4. RowOK(r, v)
    BY <1>1, <2>2, <2>3, RowMonotone
  <2>5. RowOK(s, v)
    BY <2>1, <2>4 DEF RowOK, Keeps
  <2>6. out = Out(s, v)
    BY <1>3 DEF s, v
  <2> QED BY <2>1, <2>2, <2>3, <2>5, <2>6 DEF HopOK, Out
<1>4. PICK answered \in {FALSE, kind.claimer = "hex"}, sent \in BOOLEAN :
          out = Out([r EXCEPT !.claimed = @ \/ answered], [w EXCEPT !.claim = @ \/ sent])
  BY DEF Claim
<1>5. answered \in BOOLEAN
  BY <1>4
<1> QED BY Zenon, <1>3, <1>4, <1>5

(* One hop after another.                                                  *)
LEMMA HopCompose ==
    ASSUME NEW r, NEW w, NEW s, NEW v, NEW out, w \in Worlds, v \in Worlds,
           out.world \in Worlds,
           HopOK(r, w, Out(s, v)), HopOK(s, v, out), s.offer = r.offer,
           v.offers = w.offers
    PROVE  HopOK(r, w, out)
<1>1. Out(s, v).row = s /\ Out(s, v).world = v
  BY DEF Out
<1>2. Grows(w, out.world)
  BY <1>1 DEF HopOK, Grows, Worlds
<1> QED BY <1>1, <1>2 DEF HopOK, Keeps

(* Paying the exit swap.                                                   *)
LEMMA PayOK ==
    ASSUME NEW r, NEW w, RowOK(r, w), WorldOK(w), kind.exit = "reverse",
           r.swap # 0, r.status = "exiting", NEW out \in PayAndClaim(r, w)
    PROVE  HopOK(r, w, out)
<1>1. /\ r \in Rows /\ w \in Worlds /\ r.swap \in Numbers /\ r.swap <= w.swaps
      /\ w.exitPay \in [Numbers -> Payment]
  BY DEF RowOK, WorldOK, Rows, Worlds
<1>2. CASE PayKey(r) \in r.done
  <2>1. out \in PollAndClaim(r, w)
    BY <1>2 DEF PayAndClaim
  <2> QED BY <2>1, ClaimOK, HopIdle DEF PollAndClaim
<1>3. CASE PayKey(r) \notin r.done
  <2>1. PICK p \in SendPayment(w.exitPay[r.swap]) : out \in Paid(r, w, p)
    BY <1>3 DEF PayAndClaim
  <2> DEFINE v == [w EXCEPT !.exitPay[r.swap] = p.to]
  <2>2. p.to \in Payment
    BY <1>1 DEF SendPayment, Payment
  <2>3. /\ v \in Worlds /\ v.selfPay = w.selfPay
        /\ \A n \in Numbers : n # r.swap => v.exitPay[n] = w.exitPay[n]
        /\ v.swaps = w.swaps /\ v.offers = w.offers
        /\ v.deposited = w.deposited /\ v.offerPaid = w.offerPaid
        /\ v.depth = w.depth /\ v.deepest = w.deepest /\ v.reorgs = w.reorgs
    BY <1>1, <2>2 DEF Worlds
  <2>4. out \in (IF p.answer = "transient" THEN {Out(r, v)}
                 ELSE IF p.answer = "hard" THEN {Out(PayRefused(r), v)}
                 ELSE PollAndClaim([r EXCEPT !.done = @ \union {PayKey(r)}], v))
    BY <2>1 DEF Paid
  <2> HIDE DEF v
  <2>5. Grows(w, v) /\ WorldOK(v)
    BY <1>1, <2>3 DEF Grows, WorldOK, Arrived, Worlds
  <2>6. RowOK(r, v)
    BY <1>1, <2>3, <2>5, RowMonotone
  <2>7. ASSUME NEW s, RowOK(s, v), Keeps(r, s), s.swap = r.swap,
               s.offer = r.offer
        PROVE  HopOK(r, w, Out(s, v))
    BY <2>3, <2>5, <2>7 DEF HopOK, Out
  <2>8. CASE out = Out(r, v)
    BY <2>6, <2>7, <2>8 DEF Keeps
  <2>9. CASE out = Out(PayRefused(r), v)
    <3>1. /\ RowOK(PayRefused(r), v) /\ Keeps(r, PayRefused(r))
          /\ PayRefused(r).swap = r.swap /\ PayRefused(r).offer = r.offer
      <4>1. CASE NextK(r) >= MinK /\ r.decrements < 1
        <5> DEFINE s == [r EXCEPT !.decrements = @ + 1]
        <5>1. /\ s \in Rows /\ s.status = r.status /\ s.pre = r.pre
              /\ s.swap = r.swap /\ s.offer = r.offer
              /\ s.selfPaid = r.selfPaid /\ s.done = r.done
              /\ s.claimed = r.claimed /\ Keeps(r, s)
          BY <1>1, <4>1 DEF Rows, Keeps
        <5>2. PayRefused(r) = s
          BY <4>1 DEF PayRefused
        <5> HIDE DEF s
        <5> QED BY <2>6, <5>1, <5>2 DEF RowOK, Keeps
      <4>2. CASE ~(NextK(r) >= MinK /\ r.decrements < 1)
        <5>1. PayRefused(r) = Park(r, "mpp_k_floor_exhausted")
          BY <4>2 DEF PayRefused
        <5>2. "mpp_k_floor_exhausted" \in Reasons /\ "exiting" \notin Terminal
          BY DEF Reasons, Terminal
        <5> QED BY <2>3, <2>6, <5>1, <5>2, ParkOK
      <4> QED BY <4>1, <4>2
    <3> QED BY <2>7, <2>9, <3>1
  <2>10. CASE out \in PollAndClaim([r EXCEPT !.done = @ \union {PayKey(r)}], v)
    <3> DEFINE s == [r EXCEPT !.done = @ \union {PayKey(r)}]
    <3>1. PayKey(r) \in {"ln_self_pay_fire", "reverse_pay_invoice"} \X {1, 2}
      BY <1>1 DEF PayKey, Rows
    <3>2. /\ s \in Rows /\ s.status = r.status /\ s.pre = r.pre
          /\ s.swap = r.swap /\ s.offer = r.offer
          /\ s.selfPaid = r.selfPaid /\ s.done = r.done \union {PayKey(r)}
          /\ s.claimed = r.claimed /\ Keeps(r, s)
      BY <1>1, <3>1 DEF Rows, Keeps
    <3>3. FireKey # PayKey(r)
      BY DEF PayKey, FireKey
    <3> HIDE DEF s
    <3>4. RowOK(s, v)
      BY <2>6, <3>2, <3>3 DEF RowOK, Keeps
    <3>5. HopOK(r, w, Out(s, v))
      BY <2>7, <3>2, <3>4
    <3>6. out \in PollAndClaim(s, v)
      BY <2>10 DEF s
    <3>7. HopOK(s, v, out)
      BY <2>5, <3>4, <3>6, ClaimOK, HopIdle DEF PollAndClaim
    <3>8. out.world \in Worlds
      BY <3>7 DEF HopOK, WorldOK
    <3> QED BY <1>1, <2>3, <3>2, <3>5, <3>7, <3>8, HopCompose
  <2> QED BY <2>4, <2>8, <2>9, <2>10
<1> QED BY <1>2, <1>3

(* Paying the offer.                                                       *)
LEMMA OfferOK ==
    ASSUME NEW r, NEW w, RowOK(r, w), WorldOK(w), kind.exit = "bolt12_pay",
           r.status = "exiting", NEW out \in OfferStep(r, w)
    PROVE  HopOK(r, w, out)
<1>1. r \in Rows /\ w \in Worlds /\ Arrived(w)
  BY DEF RowOK, WorldOK, StatusOK, Beyond
<1>2. CASE out = Out(r, w)
  BY <1>2, HopIdle
<1>3. CASE r.offer = "none"
  <2>1. PICK a \in OfferAnswers(w) :
          out = Out([r EXCEPT !.offer = a.outcome,
                              !.status = OfferStatus[a.outcome]], a.world)
    BY Zenon, <1>2, <1>3 DEF OfferStep
  <2>2. /\ a.outcome \in {"failed", "in_flight", "paid"}
        /\ a.world \in Worlds /\ a.world.selfPay = w.selfPay
        /\ a.world.exitPay = w.exitPay /\ a.world.swaps = w.swaps
        /\ a.world.offers = w.offers \/ a.world.offers = w.offers + 1
        /\ a.world.deposited = w.deposited
        /\ w.offerPaid => a.world.offerPaid
        /\ a.outcome = "paid" => a.world.offerPaid
        /\ a.world.depth = w.depth /\ a.world.deepest = w.deepest
        /\ a.world.reorgs = w.reorgs
    <3> DEFINE sent == [w EXCEPT !.offers = @ + 1]
               paid == [sent EXCEPT !.offerPaid = TRUE]
    <3>1. /\ sent \in Worlds /\ sent.selfPay = w.selfPay
          /\ sent.exitPay = w.exitPay /\ sent.swaps = w.swaps
          /\ sent.deposited = w.deposited /\ sent.depth = w.depth
          /\ sent.deepest = w.deepest /\ sent.reorgs = w.reorgs
          /\ sent.offers = w.offers + 1 /\ sent.offerPaid = w.offerPaid
      BY <1>1 DEF Worlds
    <3> HIDE DEF sent
    <3>3. /\ paid \in Worlds /\ paid.selfPay = sent.selfPay
          /\ paid.exitPay = sent.exitPay /\ paid.swaps = sent.swaps
          /\ paid.deposited = sent.deposited /\ paid.depth = sent.depth
          /\ paid.deepest = sent.deepest /\ paid.reorgs = sent.reorgs
          /\ paid.offers = sent.offers /\ paid.offerPaid = TRUE
      BY Zenon, <3>1 DEF Worlds
    <3>2. \/ a = [outcome |-> "failed", world |-> w]
          \/ a = [outcome |-> "failed", world |-> sent]
          \/ a = [outcome |-> "in_flight", world |-> sent]
          \/ a = [outcome |-> "paid", world |-> paid]
      BY DEF OfferAnswers, sent
    <3> HIDE DEF paid
    <3> QED BY <1>1, <3>1, <3>2, <3>3
  <2> DEFINE s == [r EXCEPT !.offer = a.outcome,
                            !.status = OfferStatus[a.outcome]]
  <2>3. OfferStatus[a.outcome] \in {"completed", "failed", "exiting"}
        /\ (OfferStatus[a.outcome] = "completed" => a.outcome = "paid")
    BY <2>2 DEF OfferStatus
  <2>4. {"completed", "failed", "exiting"} \subseteq Statuses
    BY DEF Statuses, Transitions
  <2>5. /\ s \in Rows /\ s.status = OfferStatus[a.outcome] /\ s.pre = r.pre
        /\ s.swap = r.swap /\ s.offer = a.outcome
        /\ s.selfPaid = r.selfPaid /\ s.done = r.done
        /\ s.claimed = r.claimed /\ Keeps(r, s)
    BY ZenonT(60), <1>1, <2>2, <2>3, <2>4 DEF Rows, Keeps
  <2>6. out = Out(s, a.world)
    BY <2>1
  <2> HIDE DEF s
  <2>7. Grows(w, a.world) /\ WorldOK(a.world) /\ Arrived(a.world)
    BY <1>1, <2>2 DEF Grows, WorldOK, Arrived, Worlds
  <2>8. RowOK(r, a.world)
    BY SMTT(30), <1>1, <2>2, <2>7, RowMonotone
  <2>9. RowOK(s, a.world)
    BY <2>2, <2>3, <2>5, <2>7, <2>8 DEF RowOK, Keeps, StatusOK, Earned
  <2> QED BY <1>3, <2>2, <2>5, <2>6, <2>7, <2>9 DEF HopOK, Out
<1> QED BY Zenon, <1>2, <1>3 DEF OfferStep

(* Every hop of default_hop_step_fn.                                       *)
LEMMA HopStepOK ==
    ASSUME kind \in Sessions, NEW r, NEW w, RowOK(r, w), WorldOK(w),
           NEW out \in HopStep(r, w)
    PROVE  HopOK(r, w, out)
<1>1. kind.exit \in {"reverse", "bolt12_pay"}
  BY SessionKinds
<1>2. CASE r.status = "exiting" /\ kind.exit = "bolt12_pay"
  BY <1>2, OfferOK DEF HopStep
<1>3. CASE r.status = "exiting" /\ kind.exit = "reverse"
  <2>1. out \in ReverseStep(r, w)
    BY <1>3 DEF HopStep
  <2>2. out = Out(r, w) \/ (r.swap # 0 /\ out \in PayAndClaim(r, w))
    BY <2>1 DEF ReverseStep
  <2> QED BY <1>3, <2>2, PayOK, HopIdle
<1>4. CASE r.status # "exiting"
  <2>1. out = Out(r, w) \/ out \in SelfPayStep(r, w)
    BY <1>4 DEF HopStep
  <2> QED BY <2>1, HopIdle, SelfPayOK
<1> QED BY <1>1, <1>2, <1>3, <1>4

-----------------------------------------------------------------------------
(* The dispatch that ends a tick keeps what the row says.                  *)
LEMMA TickOK ==
    ASSUME kind \in Sessions, NEW r, NEW w, RowOK(r, w), WorldOK(w)
    PROVE  /\ RowOK(TickSession(r, w), w)
           /\ Keeps(r, TickSession(r, w))
           /\ TickSession(r, w).swap = r.swap
           /\ TickSession(r, w).offer = r.offer
<1>1. r \in Rows /\ w \in Worlds
  BY DEF RowOK, WorldOK
<1>2. CASE r.status \in Terminal
  BY <1>2 DEF TickSession, Keeps
<1>3. CASE r.status \notin Terminal /\ ReconcileReason(r) # "none"
           /\ IsLegal(r.status, Parked)
  <2>1. ReconcileReason(r) \in Reasons
    BY <1>1, <1>3 DEF ReconcileReason, Rows
  <2>2. TickSession(r, w) = Park(r, ReconcileReason(r))
    BY <1>3 DEF TickSession
  <2> QED BY <1>1, <1>3, <2>1, <2>2, ParkOK
<1>4. CASE r.status \notin Terminal
           /\ ~(ReconcileReason(r) # "none" /\ IsLegal(r.status, Parked))
  <2> DEFINE d == ForwardDispatch(r, w)
             s == [r EXCEPT !.status = d]
  <2>1. \/ d \in {"funding", "sourcing", r.status}
        \/ d = "ln_holding" /\ r.status = "funding" /\ SourceSettled(r, w)
        \/ d = "delaying" /\ r.status = "ln_holding"
        \/ d = "exiting" /\ r.status = "delaying"
        \/ d = "confirming" /\ r.status = "exiting" /\ r.claimed
        \/ d = "completed_with_reorg_uncertainty" /\ r.reorgs >= GiveUpReorgs
        \/ d = "completed" /\ r.status = "confirming"
           /\ r.confirmations >= MinConfirmations
    BY DEF ForwardDispatch
  <2>2. r.status = "funding" /\ SourceSettled(r, w) => Arrived(w)
    <3>1. kind.source \in {"lightning-self", "ext-bolt11", "ext-bolt12",
                            "ext-bolt12-unminted", "onchain"}
      BY SessionKinds
    <3> QED BY Zenon, <3>1 DEF SourceSettled, Arrived, RowOK
  <2>3. StatusOK(r.status, w) /\ Earned(r.status, w)
    BY DEF RowOK
  <2>4. d \in Statuses
    BY <1>1, <2>1 DEF Statuses, Transitions, Rows
  <2>5. r.claimed => kind.exit = "reverse"
    BY DEF RowOK
  <2> HIDE DEF d
  <2>6. StatusOK(d, w)
    BY <2>1, <2>2, <2>3, <2>5 DEF StatusOK, Beyond
  <2>7. Earned(d, w)
    <3>1. /\ r.confirmations \in Nat /\ r.reorgs \in Nat
          /\ w.deepest \in Nat /\ w.reorgs \in Nat
          /\ MinConfirmations \in Nat /\ GiveUpReorgs \in Nat
          /\ r.confirmations <= w.deepest /\ r.reorgs <= w.reorgs
      BY <1>1, AnonymizeAssumption DEF Rows, Worlds, RowOK
    <3>2. r.confirmations >= MinConfirmations => w.deepest >= MinConfirmations
      BY <3>1
    <3>3. r.reorgs >= GiveUpReorgs => w.reorgs >= GiveUpReorgs
      BY <3>1
    <3> QED BY <2>1, <2>3, <3>2, <3>3 DEF StatusOK, Earned
  <2>8. /\ s \in Rows /\ s.status = d /\ s.pre = r.pre /\ s.done = r.done
        /\ s.swap = r.swap /\ s.offer = r.offer
        /\ s.selfPaid = r.selfPaid /\ s.claimed = r.claimed /\ Keeps(r, s)
    BY <1>1, <2>4 DEF Rows, Keeps
  <2>9. TickSession(r, w) = s
    BY SMTT(30), <1>4 DEF TickSession, d
  <2> HIDE DEF s
  <2> QED BY <2>6, <2>7, <2>8, <2>9 DEF RowOK, Keeps
<1> QED BY <1>2, <1>3, <1>4

(* A flush of a true copy over a true row is true: every clause of RowOK   *)
(* is about one column.                                                    *)
LEMMA WrittenOK ==
    ASSUME NEW base \in Rows, NEW copy, NEW current, NEW w \in Worlds,
           RowOK(copy, w), RowOK(current, w)
    PROVE  RowOK(Written(base, copy, current), w)
<1> DEFINE new == Written(base, copy, current)
<1>1. copy \in Rows /\ current \in Rows
  BY DEF RowOK
<1>2. /\ new \in Rows
      /\ new.status \in {copy.status, current.status}
      /\ new.pre \in {copy.pre, current.pre}
      /\ new.swap \in {copy.swap, current.swap}
      /\ new.selfPaid \in {copy.selfPaid, current.selfPaid}
      /\ new.done \in {copy.done, current.done}
      /\ new.claimed \in {copy.claimed, current.claimed}
      /\ new.confirmations \in {copy.confirmations, current.confirmations}
      /\ new.reorgs \in {copy.reorgs, current.reorgs}
  BY <1>1, WrittenRow
<1> HIDE DEF new
<1> QED BY <1>2 DEF RowOK, new

(* A flush leaves alone what the tick left alone.                          *)
LEMMA WrittenKeeps ==
    ASSUME NEW base \in Rows, NEW copy \in Rows, NEW current \in Rows,
           Keeps(base, copy)
    PROVE  Keeps(current, Written(base, copy, current))
BY WrittenRow DEF Keeps

(* With the row itself as the base, a flush writes the copy.               *)
LEMMA WrittenWhole ==
    ASSUME NEW copy \in Rows, NEW current \in Rows
    PROVE  /\ Written(current, copy, current).swap = copy.swap
           /\ Written(current, copy, current).offer = copy.offer
BY WrittenRow

(* The clock does not matter to what rows and world say.                   *)
LEMMA TouchOK ==
    ASSUME NEW w, NEW a, NEW b, WorldOK(w)
    PROVE  /\ WorldOK(Touch(w, a, b)) /\ Grows(w, Touch(w, a, b))
           /\ Touch(w, a, b) \in Worlds
           /\ \A r : RowOK(r, w) => RowOK(r, Touch(w, a, b))
<1>1. w \in Worlds
  BY DEF WorldOK
<1> DEFINE v == Touch(w, a, b)
<1>2. /\ v \in Worlds /\ v.selfPay = w.selfPay /\ v.exitPay = w.exitPay
      /\ v.swaps = w.swaps /\ v.offers = w.offers
      /\ v.offerPaid = w.offerPaid /\ v.deposited = w.deposited
      /\ v.depth = w.depth /\ v.deepest = w.deepest /\ v.reorgs = w.reorgs
  BY <1>1, TouchOnlyClock
<1> HIDE DEF v
<1>3. WorldOK(v) /\ Grows(w, v)
  BY <1>1, <1>2 DEF WorldOK, Grows, Arrived, Worlds
<1>4. \A r : RowOK(r, w) => RowOK(r, v)
  BY <1>1, <1>2, <1>3, RowMonotone
<1> QED BY <1>2, <1>3, <1>4 DEF v

-----------------------------------------------------------------------------
(* The inductive invariant.                                                *)

Middle == {"minted", "issued", "sourced"}

Loops == [pc : {"asleep", "off"} \union Middle, row : Rows,
          fails : 0 .. MaxFails - 1]

(* The copy that a tick carries over a commit.  The invoice it is about to *)
(* pay is in the row; the swap it is about to record is not yet.           *)
LoopOK(l, r, w) ==
    /\ l \in Loops
    /\ l.pc \in Middle => RowOK(l.row, w)
    /\ l.pc = "minted" => l.row.invoice = 1 /\ r.invoice = 1
    /\ l.pc = "issued" => l.row.swap = 0 /\ w.swaps > 0

(* An invoice is paid only when the row has it.                            *)
InvoiceOK(r, w) == r.invoice = 0 => w.selfPay[1] = "none"

(* What a request will write was true when it was decided, and stays so.   *)
RequestOK(q, w) ==
    /\ q \in [to : Statuses \union {"none"}, reset : BOOLEAN,
              op : {"none", "cancel", "refund", "retry", "fail", "drop"}]
    /\ q = Idle \/ q.to \in Statuses
    /\ StatusOK(q.to, w)
    /\ q.to \notin {"completed", "completed_with_reorg_uncertainty"}
    /\ q.reset => q.op = "retry"

Budget == IF MaxRetries < MaxRetriesSemi THEN MaxRetriesSemi ELSE MaxRetries

(* Every resume is one of the row's attempts.                              *)
RetryOK(p, r) ==
    /\ p \in [resumes : Nat, lost : BOOLEAN]
    /\ p.resumes <= r.attempts /\ p.resumes <= Budget

(* A reorg that the next poll will see is already counted by the chain.    *)
ReorgOK(r, w) ==
    r.reorgs + (IF w.depth < r.confirmations THEN 1 ELSE 0) <= w.reorgs

(* Unless a tick was lost, the row, or the tick under way, knows of every  *)
(* payment of the offer and of every swap.                                 *)
LostOK(p, r, pc, w) ==
    ~p.lost =>
      /\ w.offers <= 1 /\ (r.offer = "none" => w.offers = 0)
      /\ w.swaps <= 1 /\ (w.swaps = 1 => r.swap = 1 \/ pc = "issued")

SessionInv ==
    /\ kind \in Sessions
    /\ RowOK(row, world) /\ WorldOK(world)
    /\ LoopOK(loop, row, world)
    /\ InvoiceOK(row, world)
    /\ RequestOK(request, world)
    /\ RetryOK(past, row)
    /\ ReorgOK(row, world)
    /\ LostOK(past, row, loop.pc, world)

(* The invariant of the next state, written with next values.              *)
LEMMA NextInv ==
    ASSUME kind \in Sessions, kind' = kind, RowOK(row', world'),
           WorldOK(world'), LoopOK(loop', row', world'),
           InvoiceOK(row', world'), RequestOK(request', world'),
           RetryOK(past', row'), ReorgOK(row', world'),
           LostOK(past', row', loop'.pc, world')
    PROVE  SessionInv'
<1>1. /\ WorldOK(world)' /\ RowOK(row, world)'
  BY SMTT(30) DEF WorldOK, RowOK, StatusOK, Earned, Arrived
<1>2. LoopOK(loop, row, world)'
  BY DEF LoopOK, RowOK, StatusOK, Earned, Arrived
<1>3. RequestOK(request, world)'
  BY DEF RequestOK, StatusOK, Arrived
<1> QED BY SMTT(30), <1>1, <1>2, <1>3 DEF SessionInv

(* What a new session starts with.                                         *)
LEMMA NewRowType == NewRow \in Rows
<1>1. "created" \in Statuses
  BY DEF Statuses, Transitions
<1>2. MinConfirmations \in Nat
  BY AnonymizeAssumption
<1> QED BY <1>1, <1>2 DEF NewRow, Rows

(* A loop without a tick under way asks nothing of row or world.           *)
LEMMA RestingLoop ==
    ASSUME NEW r, NEW w
    PROVE  LoopOK(Asleep, r, w) /\ LoopOK(Off, r, w)
           /\ Asleep.pc = "asleep" /\ Off.pc = "off"
<1>1. 0 \in 0 .. MaxFails - 1
  BY AnonymizeAssumption
<1>2. Asleep = [pc |-> "asleep", row |-> NewRow, fails |-> 0]
      /\ Off = [pc |-> "off", row |-> NewRow, fails |-> 0]
  BY DEF Asleep, Off
<1> QED BY <1>1, <1>2, NewRowType DEF LoopOK, Loops, Middle

(* Growth of the world undoes no request.                                  *)
LEMMA RequestMonotone ==
    ASSUME NEW q, NEW w, NEW v, RequestOK(q, w), Grows(w, v)
    PROVE  RequestOK(q, v)
BY DEF RequestOK, StatusOK, Arrived, Grows

(* Every property of the invariant holds at the start.                     *)
LEMMA InitInv == Init => SessionInv
<1> SUFFICES ASSUME Init PROVE SessionInv
  OBVIOUS
<1> USE DEF Init
<1>1. NewWorld \in Worlds
  BY AnonymizeAssumption DEF NewWorld, Worlds, Payment
<1>2. /\ NewWorld.selfPay = [n \in Numbers |-> "none"]
      /\ NewWorld.exitPay = [n \in Numbers |-> "none"]
      /\ NewWorld.swaps = 0 /\ NewWorld.offers = 0 /\ NewWorld.depth = 0
      /\ NewWorld.deepest = 0 /\ NewWorld.reorgs = 0
  BY DEF NewWorld
<1>3. WorldOK(world)
  BY <1>1, <1>2 DEF WorldOK, Numbers
<1>4. RowOK(row, world) /\ InvoiceOK(row, world) /\ ReorgOK(row, world)
  BY <1>2, NewRowType DEF RowOK, InvoiceOK, ReorgOK, NewRow, StatusOK, Earned,
                         Beyond, Terminal, Numbers
<1>5. LoopOK(loop, row, world) /\ loop.pc = "asleep"
  BY RestingLoop
<1>6. RequestOK(request, world)
  BY DEF RequestOK, Idle, StatusOK, Beyond
<1>7. RetryOK(past, row)
  BY AnonymizeAssumption DEF RetryOK, NewRow, Budget
<1>8. LostOK(past, row, loop.pc, world)
  BY SMTT(30), <1>2, <1>5 DEF LostOK, NewRow
<1>9. kind \in Sessions
  BY DEF Sessions
<1> QED BY <1>3, <1>4, <1>5, <1>6, <1>7, <1>8, <1>9 DEF SessionInv

(* A tick that commits.                                                    *)
LEMMA CommitOK ==
    ASSUME SessionInv, NEW base \in Rows, NEW out,
           RowOK(out.row, out.world), WorldOK(out.world),
           Grows(world, out.world), Keeps(base, out.row),
           out.world.depth = world.depth, out.world.reorgs = world.reorgs,
           row.invoice = 0 => out.world.selfPay = world.selfPay,
           LostOK(past, Written(base, TickSession(out.row, out.world), row),
                  "asleep", out.world),
           Commit(base, out), UNCHANGED <<kind, request>>
    PROVE  SessionInv'
<1> DEFINE r == TickSession(out.row, out.world)
           new == Written(base, r, row)
<1>1. /\ kind \in Sessions /\ RowOK(row, world) /\ WorldOK(world)
      /\ InvoiceOK(row, world) /\ RequestOK(request, world)
      /\ RetryOK(past, row) /\ ReorgOK(row, world)
  BY SMTT(30) DEF SessionInv
<1>2. RowOK(r, out.world) /\ Keeps(out.row, r)
  BY SMTT(30), <1>1, TickOK
<1>3. row' = new /\ world' = Touch(out.world, row, new) /\ Sleep(r) /\ past' = past
  BY DEF Commit
<1>4. r \in Rows /\ row \in Rows /\ world \in Worlds /\ out.world \in Worlds
  BY Zenon, <1>1, <1>2 DEF RowOK, WorldOK
<1> HIDE DEF r
<1>5. RowOK(row, out.world)
  BY Zenon, <1>1, <1>4, RowMonotone
<1>6. RowOK(new, out.world) /\ Keeps(row, new)
  <2>1. Keeps(base, r)
    BY <1>2 DEF Keeps
  <2> QED BY SMTT(30), <1>2, <1>4, <1>5, <2>1, WrittenOK, WrittenKeeps
<1> HIDE DEF new
<1>7. /\ world' \in Worlds /\ WorldOK(world') /\ Grows(out.world, world')
      /\ RowOK(row', world')
  BY <1>3, <1>6, TouchOK
<1>8. /\ world'.selfPay = out.world.selfPay /\ world'.depth = out.world.depth
      /\ world'.reorgs = out.world.reorgs /\ world'.offers = out.world.offers
      /\ world'.swaps = out.world.swaps
  BY SMTT(30), <1>3, <1>4, TouchOnlyClock
<1>9. loop' \in {Off, Asleep}
  BY <1>3 DEF Sleep
<1>10. LoopOK(loop', row', world') /\ loop'.pc \in {"asleep", "off"}
  BY SMTT(30), <1>9, RestingLoop
<1>11. RequestOK(request', world')
  BY SMTT(30), <1>1, <1>7, RequestMonotone
<1>12. InvoiceOK(row', world') /\ RetryOK(past', row') /\ ReorgOK(row', world')
  BY <1>1, <1>3, <1>6, <1>8 DEF InvoiceOK, RetryOK, ReorgOK, Keeps
<1>13. LostOK(past', row', loop'.pc, world')
  BY ZenonT(60), <1>3, <1>8 DEF LostOK, new, r
<1> QED BY Zenon, <1>1, <1>7, <1>10, <1>11, <1>12, <1>13, NextInv

(* A tick that is rolled back.                                             *)
LEMMA RaiseOK ==
    ASSUME SessionInv, NEW out, WorldOK(out.world),
           Grows(world, out.world),
           out.world.depth = world.depth, out.world.reorgs = world.reorgs,
           out.world.swaps = world.swaps, out.world.offers >= world.offers,
           row.invoice = 0 => out.world.selfPay = world.selfPay,
           Raise(out), UNCHANGED <<kind, request>>
    PROVE  SessionInv'
<1>1. /\ kind \in Sessions /\ RowOK(row, world) /\ WorldOK(world)
      /\ InvoiceOK(row, world) /\ RequestOK(request, world)
      /\ RetryOK(past, row) /\ ReorgOK(row, world) /\ LoopOK(loop, row, world)
      /\ LostOK(past, row, loop.pc, world)
  BY DEF SessionInv
<1> DEFINE last == loop.fails + 1 >= MaxFails
           parks == last /\ IsLegal(row.status, Parked) /\ row.status \notin Terminal
           new == IF parks THEN Park(row, "bounded_retry_exhausted") ELSE row
<1>2. /\ row' = new /\ world' = Touch(out.world, row, new)
      /\ loop' = IF last THEN Off ELSE [Asleep EXCEPT !.fails = loop.fails + 1]
      /\ past' = [past EXCEPT !.lost = @ \/ loop.pc = "issued"
                                         \/ out.world.offers > world.offers]
  BY SMTT(30) DEF Raise
<1>3. row \in Rows /\ world \in Worlds /\ out.world \in Worlds
  BY SMTT(30), <1>1 DEF RowOK, WorldOK
<1>4. RowOK(row, out.world)
  BY <1>1, <1>3, RowMonotone
<1>5. /\ RowOK(new, out.world) /\ Keeps(row, new)
      /\ new.swap = row.swap /\ new.offer = row.offer
  <2>1. "bounded_retry_exhausted" \in Reasons
    BY SMTT(30) DEF Reasons
  <2>2. CASE parks
    BY <1>3, <1>4, <2>1, <2>2, ParkOK
  <2>3. CASE ~parks
    BY Zenon, <1>4, <2>3 DEF Keeps
  <2> QED BY Zenon, <2>2, <2>3
<1> HIDE DEF new
<1>6. /\ world' \in Worlds /\ WorldOK(world') /\ Grows(out.world, world')
      /\ RowOK(row', world')
  BY <1>2, <1>5, TouchOK
<1>7. /\ world'.selfPay = out.world.selfPay /\ world'.depth = out.world.depth
      /\ world'.reorgs = out.world.reorgs /\ world'.offers = out.world.offers
      /\ world'.swaps = out.world.swaps
  BY SMTT(30), <1>2, <1>3, TouchOnlyClock
<1>8. LoopOK(loop', row', world') /\ loop'.pc \in {"asleep", "off"}
  <2>1. loop.fails \in 0 .. MaxFails - 1 /\ MaxFails \in Nat
    BY <1>1, AnonymizeAssumption DEF LoopOK, Loops
  <2>2. CASE last
    BY <1>2, <2>2, RestingLoop
  <2>3. CASE ~last
    <3>1. loop' = [pc |-> "asleep", row |-> NewRow, fails |-> loop.fails + 1]
      BY <1>2, <2>3 DEF Asleep
    <3>2. loop.fails + 1 \in 0 .. MaxFails - 1
      BY SMTT(30), <2>1, <2>3
    <3> QED BY <3>1, <3>2, NewRowType DEF LoopOK, Loops, Middle
  <2> QED BY SMTT(30), <2>2, <2>3
<1>9. RequestOK(request', world')
  BY <1>1, <1>6, RequestMonotone
<1>10. /\ past'.resumes = past.resumes /\ past' \in [resumes : Nat, lost : BOOLEAN]
       /\ ~past'.lost => /\ ~past.lost /\ loop.pc # "issued"
                         /\ ~(out.world.offers > world.offers)
  BY Zenon, <1>1, <1>2 DEF RetryOK
<1>11. InvoiceOK(row', world') /\ RetryOK(past', row') /\ ReorgOK(row', world')
  BY <1>1, <1>2, <1>5, <1>7, <1>10 DEF InvoiceOK, RetryOK, ReorgOK, Keeps
<1>12. LostOK(past', row', loop'.pc, world')
  <2>1. world.offers \in Nat /\ out.world.offers \in Nat
    BY <1>3 DEF Worlds
  <2> QED BY <1>1, <1>2, <1>5, <1>7, <1>10, <2>1 DEF LostOK
<1> QED BY SMTT(30), <1>1, <1>6, <1>8, <1>9, <1>11, <1>12, NextInv

(* A step that writes the row, from a world w that the clock then leaves.  *)
LEMMA RowChange ==
    ASSUME kind \in Sessions, kind' = kind, NEW w, WorldOK(w),
           world' = Touch(w, row, row'), RowOK(row', w),
           LoopOK(loop', row', w), InvoiceOK(row', w), RequestOK(request', w),
           RetryOK(past', row'), ReorgOK(row', w),
           LostOK(past', row', loop'.pc, w)
    PROVE  SessionInv'
<1>1. /\ world' \in Worlds /\ WorldOK(world') /\ Grows(w, world')
      /\ \A r : RowOK(r, w) => RowOK(r, world')
  BY SMTT(30), TouchOK
<1>2. w \in Worlds
  BY DEF WorldOK
<1>3. /\ world'.selfPay = w.selfPay /\ world'.depth = w.depth
      /\ world'.reorgs = w.reorgs /\ world'.offers = w.offers
      /\ world'.swaps = w.swaps
  BY SMTT(30), <1>2, TouchOnlyClock
<1>4. LoopOK(loop', row', world')
  BY <1>1, <1>3 DEF LoopOK
<1>5. RequestOK(request', world')
  BY SMTT(30), <1>1, RequestMonotone
<1>6. /\ InvoiceOK(row', world') /\ ReorgOK(row', world')
      /\ LostOK(past', row', loop'.pc, world')
  BY SMTT(30), <1>3 DEF InvoiceOK, ReorgOK, LostOK
<1> QED BY <1>1, <1>4, <1>5, <1>6, NextInv

(* A step of the world alone.                                              *)
LEMMA WorldChange ==
    ASSUME SessionInv, NEW w, WorldOK(w), Grows(world, w), Happens(w),
           world.selfPay[1] = "none" => w.selfPay[1] = "none",
           ReorgOK(row, w), w.offers = world.offers, w.swaps = world.swaps
    PROVE  SessionInv'
<1>1. /\ kind \in Sessions /\ RowOK(row, world) /\ WorldOK(world)
      /\ InvoiceOK(row, world) /\ RequestOK(request, world)
      /\ RetryOK(past, row) /\ LoopOK(loop, row, world)
      /\ LostOK(past, row, loop.pc, world)
  BY DEF SessionInv
<1>2. /\ world' = w /\ kind' = kind /\ row' = row /\ loop' = loop
      /\ request' = request /\ past' = past
  BY SMTT(30) DEF Happens
<1>3. world \in Worlds /\ w \in Worlds
  BY SMTT(30), <1>1 DEF WorldOK
<1>4. RowOK(row, w) /\ RequestOK(request, w)
  BY SMTT(30), <1>1, <1>3, RowMonotone, RequestMonotone
<1>5. LoopOK(loop, row, w)
  <2>1. loop.pc \in Middle => RowOK(loop.row, w)
    BY SMTT(30), <1>1, <1>3, RowMonotone DEF LoopOK
  <2> QED BY SMTT(30), <1>1, <2>1 DEF LoopOK
<1>6. InvoiceOK(row, w) /\ LostOK(past, row, loop.pc, w)
  BY <1>1 DEF InvoiceOK, LostOK
<1> QED BY SMTT(30), <1>1, <1>2, <1>4, <1>5, <1>6, NextInv

-----------------------------------------------------------------------------
(* The loop.                                                               *)

(* A tick in one step.                                                     *)
LEMMA TickInv == SessionInv /\ Tick => SessionInv'
<1> SUFFICES ASSUME SessionInv, Tick PROVE SessionInv'
  OBVIOUS
<1>1. /\ kind \in Sessions /\ RowOK(row, world) /\ WorldOK(world)
      /\ LostOK(past, row, loop.pc, world)
  BY DEF SessionInv
<1>2. loop.pc = "asleep" /\ UNCHANGED <<kind, request>>
  BY DEF Tick
<1>3. PICK out \in HopStep(row, world) : EndTick(row, out)
  BY DEF Tick
<1>4. HopOK(row, world, out)
  BY <1>1, HopStepOK
<1>5. row \in Rows /\ world \in Worlds
  BY <1>1 DEF RowOK, WorldOK
<1>6. world.offers \in Nat /\ world.swaps \in Nat
  BY SMTT(30), <1>5 DEF Worlds
<1>7. CASE Commit(row, out)
  <2> DEFINE r == TickSession(out.row, out.world)
  <2>1. RowOK(r, out.world) /\ r.swap = out.row.swap /\ r.offer = out.row.offer
    BY <1>1, <1>4, TickOK DEF HopOK
  <2>2. r \in Rows
    BY ZenonT(60), <2>1 DEF RowOK
  <2> HIDE DEF r
  <2>3. /\ Written(row, r, row).swap = row.swap
        /\ Written(row, r, row).offer = out.row.offer
    BY SMTT(30), <1>4, <1>5, <2>1, <2>2, WrittenWhole DEF HopOK
  <2>4. LostOK(past, Written(row, r, row), "asleep", out.world)
    BY SMTT(30), <1>1, <1>2, <1>4, <1>6, <2>3 DEF LostOK, HopOK
  <2> QED BY SMTT(30), <1>2, <1>4, <1>5, <1>7, <2>4, CommitOK DEF HopOK, r
<1>8. CASE Raise(out)
  <2>1. out.world.offers >= world.offers
    BY <1>4, <1>6 DEF HopOK
  <2> QED BY SMTT(30), <1>2, <1>4, <1>8, <2>1, RaiseOK DEF HopOK
<1> QED BY <1>3, <1>7, <1>8 DEF EndTick

(* What the second half of a tick does to the outside and to the columns   *)
(* that are compared when it commits.                                      *)
RestOK(out) ==
    /\ RowOK(out.row, out.world) /\ WorldOK(out.world)
    /\ Grows(world, out.world) /\ Keeps(loop.row, out.row)
    /\ out.world.depth = world.depth /\ out.world.reorgs = world.reorgs
    /\ out.world.swaps = world.swaps /\ out.world.offers = world.offers
    /\ row.invoice = 0 => out.world.selfPay = world.selfPay
    /\ out.row.offer = loop.row.offer
    /\ out.row.swap = IF loop.pc = "issued" THEN world.swaps ELSE loop.row.swap

(* The three hops that commit in mid-tick, after that commit.              *)
LEMMA HopRestOK ==
    ASSUME SessionInv, loop.pc \in Middle,
           NEW out \in HopRest(loop.pc, loop.row, world)
    PROVE  RestOK(out)
<1>1. /\ RowOK(loop.row, world) /\ WorldOK(world)
      /\ LoopOK(loop, row, world)
  BY SMTT(30) DEF SessionInv, LoopOK
<1>2. loop.row \in Rows /\ world \in Worlds
  BY SMTT(30), <1>1 DEF RowOK, WorldOK
<1>3. CASE loop.pc = "minted"
  <2>1. loop.row.invoice = 1 /\ row.invoice = 1
    BY <1>1, <1>3 DEF LoopOK
  <2>2. out \in FireSelfPay(loop.row, world)
    BY <1>3 DEF HopRest
  <2>3. HopOK(loop.row, world, out)
    BY <1>1, <2>1, <2>2, FireOK
  <2>4. out.row.offer = loop.row.offer /\ out.world.offers = world.offers
    <3>1. PICK p \in SendPayment(world.selfPay[loop.row.invoice]) :
             out = Out(IF p.answer = "ok" THEN SelfPaySettled(loop.row)
                       ELSE loop.row,
                       [world EXCEPT !.selfPay[loop.row.invoice] = p.to])
      BY Zenon, <2>2 DEF FireSelfPay
    <3>2. SelfPaySettled(loop.row).offer = loop.row.offer
      BY <1>2 DEF SelfPaySettled, MarkSettled, Rows
    <3>3. [world EXCEPT !.selfPay[loop.row.invoice] = p.to].offers = world.offers
      BY SMTT(30), <1>2 DEF Worlds
    <3> QED BY Zenon, <3>1, <3>2, <3>3 DEF Out
  <2> QED BY <1>3, <2>1, <2>3, <2>4 DEF HopOK, RestOK
<1>4. CASE loop.pc = "issued"
  <2> DEFINE s == [loop.row EXCEPT !.swap = world.swaps]
  <2>1. out = Out(s, world)
    BY <1>4 DEF HopRest
  <2>2. /\ s \in Rows /\ s.status = loop.row.status /\ s.pre = loop.row.pre
        /\ s.swap = world.swaps /\ s.offer = loop.row.offer
        /\ s.done = loop.row.done /\ s.selfPaid = loop.row.selfPaid
        /\ s.claimed = loop.row.claimed /\ Keeps(loop.row, s)
    BY <1>2 DEF Rows, Worlds, Numbers, Keeps
  <2> HIDE DEF s
  <2>3. world.swaps <= world.swaps /\ Grows(world, world)
    BY <1>2 DEF Worlds, Grows
  <2>4. RowOK(s, world)
    BY Zenon, <1>1, <2>2, <2>3 DEF RowOK, Keeps
  <2> QED BY <1>1, <1>4, <2>1, <2>2, <2>3, <2>4 DEF RestOK, Out
<1>5. CASE loop.pc = "sourced"
  <2> DEFINE s == [loop.row EXCEPT !.submarine = TRUE]
  <2>1. out = Out(s, world)
    BY <1>5 DEF HopRest
  <2>2. /\ s \in Rows /\ s.status = loop.row.status /\ s.pre = loop.row.pre
        /\ s.swap = loop.row.swap /\ s.offer = loop.row.offer
        /\ s.done = loop.row.done /\ s.selfPaid = loop.row.selfPaid
        /\ s.claimed = loop.row.claimed /\ Keeps(loop.row, s)
    BY Zenon, <1>2 DEF Rows, Keeps
  <2> HIDE DEF s
  <2>3. Grows(world, world)
    BY SMTT(30), <1>2 DEF Worlds, Grows
  <2>4. RowOK(s, world)
    BY <1>1, <2>2 DEF RowOK, Keeps
  <2> QED BY Zenon, <1>1, <1>5, <2>1, <2>2, <2>3, <2>4 DEF RestOK, Out
<1> QED BY SMTT(30), <1>3, <1>4, <1>5 DEF Middle

(* The second half of a tick, from a copy that may be stale.               *)
LEMMA TickRestInv == SessionInv /\ TickRest => SessionInv'
<1> SUFFICES ASSUME SessionInv, TickRest PROVE SessionInv'
  OBVIOUS
<1>1. /\ kind \in Sessions /\ RowOK(row, world) /\ WorldOK(world)
      /\ LoopOK(loop, row, world) /\ LostOK(past, row, loop.pc, world)
  BY DEF SessionInv
<1>2. loop.pc \in Middle /\ UNCHANGED <<kind, request>>
  BY DEF TickRest, Middle
<1>3. PICK out \in HopRest(loop.pc, loop.row, world) : EndTick(loop.row, out)
  BY DEF TickRest
<1>4. RestOK(out)
  BY SMTT(30), <1>2, <1>3, HopRestOK
<1>5. /\ row \in Rows /\ loop.row \in Rows
      /\ world.offers \in Nat /\ world.swaps \in 0 .. 2
  BY <1>1 DEF RowOK, WorldOK, LoopOK, Loops, Worlds
<1>6. CASE Commit(loop.row, out)
  <2> DEFINE r == TickSession(out.row, out.world)
  <2>1. RowOK(r, out.world) /\ r.swap = out.row.swap /\ r.offer = out.row.offer
    BY Zenon, <1>1, <1>4, TickOK DEF RestOK
  <2>2. r \in Rows
    BY Zenon, <2>1 DEF RowOK
  <2> HIDE DEF r
  <2> DEFINE new == Written(loop.row, r, row)
  <2>3. /\ new.swap = IF r.swap # loop.row.swap THEN r.swap ELSE row.swap
        /\ new.offer = IF r.offer # loop.row.offer THEN r.offer ELSE row.offer
    BY <1>5, <2>2, WrittenRow
  <2> HIDE DEF new
  <2>4. loop.pc = "issued" => loop.row.swap = 0 /\ world.swaps > 0
    BY SMTT(30), <1>1 DEF LoopOK
  <2>5. /\ loop.pc = "issued" => new.swap = world.swaps
        /\ loop.pc # "issued" => new.swap = row.swap
        /\ new.offer = row.offer
    BY SMTT(30), <1>4, <1>5, <2>1, <2>3, <2>4 DEF RestOK
  <2>6. LostOK(past, new, "asleep", out.world)
    BY SMTT(30), <1>1, <1>4, <1>5, <2>5 DEF LostOK, RestOK
  <2> QED BY ZenonT(60), <1>2, <1>4, <1>5, <1>6, <2>6, CommitOK DEF RestOK, r, new
<1>7. CASE Raise(out)
  <2>1. out.world.offers >= world.offers
    BY <1>4, <1>5 DEF RestOK
  <2> QED BY <1>2, <1>4, <1>7, <2>1, RaiseOK DEF RestOK
<1> QED BY <1>3, <1>6, <1>7 DEF EndTick

(* A terminal row ends the loop.                                           *)
LEMMA LoopEndsInv == SessionInv /\ LoopEnds => SessionInv'
<1> SUFFICES ASSUME SessionInv, LoopEnds PROVE SessionInv'
  OBVIOUS
<1>1. /\ kind \in Sessions /\ RowOK(row, world) /\ WorldOK(world)
      /\ InvoiceOK(row, world) /\ RequestOK(request, world)
      /\ RetryOK(past, row) /\ ReorgOK(row, world)
      /\ LostOK(past, row, loop.pc, world)
  BY DEF SessionInv
<1>2. /\ UNCHANGED <<kind, row, request, world, past>>
      /\ loop' = Off /\ loop.pc = "asleep"
  BY DEF LoopEnds
<1>3. LoopOK(loop', row', world') /\ loop'.pc = "off"
  BY <1>2, RestingLoop
<1>4. LostOK(past', row', loop'.pc, world')
  BY <1>1, <1>2 DEF LostOK
<1> QED BY <1>1, <1>2, <1>3, <1>4, NextInv

(* A commit in mid-tick: the row and the world the hop has made so far.    *)
LEMMA SuspendInv ==
    ASSUME SessionInv, NEW pc \in Middle, NEW r, NEW w, Suspend(pc, r, w),
           WorldOK(w), Grows(world, w), RowOK(r, w),
           r.attempts = row.attempts,
           pc = "minted" => r.invoice = 1, InvoiceOK(r, w), ReorgOK(r, w),
           pc = "issued" => r.swap = 0 /\ w.swaps > 0,
           LostOK(past, r, pc, w)
    PROVE  SessionInv'
<1>1. /\ kind \in Sessions /\ RequestOK(request, world)
      /\ RetryOK(past, row) /\ loop \in Loops
  BY DEF SessionInv, LoopOK
<1>2. /\ row' = r /\ world' = Touch(w, row, r) /\ UNCHANGED <<kind, request, past>>
      /\ loop' = [loop EXCEPT !.pc = pc, !.row = r]
  BY DEF Suspend
<1>3. loop' \in Loops /\ loop'.pc = pc /\ loop'.row = r
  BY Zenon, <1>1, <1>2 DEF Loops, RowOK
<1>4. LoopOK(loop', row', w)
  BY <1>2, <1>3 DEF LoopOK
<1>5. RequestOK(request', w) /\ RetryOK(past', row') /\ LostOK(past', row', loop'.pc, w)
  BY <1>1, <1>2, <1>3, RequestMonotone DEF RetryOK
<1> QED BY SMTT(30), <1>1, <1>2, <1>4, <1>5, RowChange

(* The invoice is in the row before it can be paid.                        *)
LEMMA MintInvoiceInv == SessionInv /\ MintInvoice => SessionInv'
<1> SUFFICES ASSUME SessionInv, MintInvoice PROVE SessionInv'
  OBVIOUS
<1>1. /\ RowOK(row, world) /\ WorldOK(world) /\ InvoiceOK(row, world)
      /\ ReorgOK(row, world) /\ LostOK(past, row, loop.pc, world)
  BY DEF SessionInv
<1>2. row \in Rows /\ world \in Worlds
  BY <1>1 DEF RowOK, WorldOK
<1> DEFINE r == [row EXCEPT !.invoice = Fresh(world.selfPay)]
<1>3. row.invoice = 0 /\ Suspend("minted", r, world) /\ loop.pc = "asleep"
  BY DEF MintInvoice, Suspend
<1>4. Fresh(world.selfPay) = 1
  BY <1>1, <1>3 DEF InvoiceOK, Fresh
<1>5. /\ r \in Rows /\ r.invoice = 1 /\ r.status = row.status /\ r.pre = row.pre
      /\ r.swap = row.swap /\ r.offer = row.offer /\ r.done = row.done
      /\ r.selfPaid = row.selfPaid /\ r.claimed = row.claimed
      /\ r.confirmations = row.confirmations /\ r.reorgs = row.reorgs
      /\ r.attempts = row.attempts
  BY SMTT(30), <1>2, <1>4 DEF Rows
<1> HIDE DEF r
<1>6. RowOK(r, world) /\ InvoiceOK(r, world) /\ ReorgOK(r, world)
  BY SMTT(30), <1>1, <1>5 DEF RowOK, InvoiceOK, ReorgOK
<1>7. LostOK(past, r, "minted", world)
  BY <1>1, <1>3, <1>5 DEF LostOK
<1>8. Grows(world, world) /\ "minted" \in Middle
  BY <1>2 DEF Grows, Worlds, Middle
<1> QED BY <1>1, <1>3, <1>5, <1>6, <1>7, <1>8, SuspendInv

(* A swap is created only by a session whose funds arrived.                *)
LEMMA IssueReverseSwapInv == SessionInv /\ IssueReverseSwap => SessionInv'
<1> SUFFICES ASSUME SessionInv, IssueReverseSwap PROVE SessionInv'
  OBVIOUS
<1>1. /\ RowOK(row, world) /\ WorldOK(world) /\ InvoiceOK(row, world)
      /\ ReorgOK(row, world) /\ LostOK(past, row, loop.pc, world)
  BY DEF SessionInv
<1>2. row \in Rows /\ world \in Worlds
  BY <1>1 DEF RowOK, WorldOK
<1> DEFINE w == [world EXCEPT !.swaps = @ + 1]
<1>3. /\ row.status = "exiting" /\ row.swap = 0 /\ loop.pc = "asleep"
      /\ world.swaps < Cardinality(Numbers) /\ Suspend("issued", row, w)
  BY DEF IssueReverseSwap, Suspend
<1>4. Cardinality(Numbers) = 2
  <2>1. 1 \in Int /\ 2 \in Int
    OBVIOUS
  <2>2. Cardinality(1 .. 2) = IF 1 > 2 THEN 0 ELSE 2 - 1 + 1
    BY <2>1, FS_Interval, Zenon
  <2>3. ~(1 > 2) /\ 2 - 1 + 1 = 2
    OBVIOUS
  <2> QED BY <2>2, <2>3, Zenon DEF Numbers
<1>5. /\ w \in Worlds /\ w.swaps = world.swaps + 1 /\ world.swaps \in Nat
      /\ w.selfPay = world.selfPay /\ w.exitPay = world.exitPay
      /\ w.offers = world.offers /\ w.offerPaid = world.offerPaid
      /\ w.deposited = world.deposited /\ w.depth = world.depth
      /\ w.deepest = world.deepest /\ w.reorgs = world.reorgs
  BY SMTT(30), <1>2, <1>3, <1>4 DEF Worlds
<1> HIDE DEF w
<1>6. Arrived(w)
  BY Zenon, <1>1, <1>3, <1>5 DEF RowOK, StatusOK, Beyond, Arrived
<1>7. WorldOK(w) /\ Grows(world, w)
  BY <1>1, <1>2, <1>5, <1>6 DEF WorldOK, Grows, Worlds, Numbers
<1>8. RowOK(row, w)
  BY SMTT(30), <1>1, <1>2, <1>5, <1>7, RowMonotone
<1>9. InvoiceOK(row, w) /\ ReorgOK(row, w) /\ LostOK(past, row, "issued", w)
  BY <1>1, <1>3, <1>5 DEF InvoiceOK, ReorgOK, LostOK
<1>10. "issued" \in Middle /\ w.swaps > 0
  BY <1>5 DEF Middle
<1> QED BY <1>3, <1>7, <1>8, <1>9, <1>10, SuspendInv

(* The submarine swap of an on-chain session.                              *)
LEMMA IssueSubmarineSwapInv == SessionInv /\ IssueSubmarineSwap => SessionInv'
<1> SUFFICES ASSUME SessionInv, IssueSubmarineSwap PROVE SessionInv'
  OBVIOUS
<1>1. /\ RowOK(row, world) /\ WorldOK(world) /\ InvoiceOK(row, world)
      /\ ReorgOK(row, world) /\ LostOK(past, row, loop.pc, world)
  BY DEF SessionInv
<1>2. loop.pc = "asleep" /\ Suspend("sourced", row, world)
  BY DEF IssueSubmarineSwap, Suspend
<1>3. Grows(world, world) /\ "sourced" \in Middle
  BY <1>1 DEF Grows, WorldOK, Worlds, Middle
<1>4. LostOK(past, row, "sourced", world)
  BY <1>1, <1>2 DEF LostOK
<1> QED BY <1>1, <1>2, <1>3, <1>4, SuspendInv

-----------------------------------------------------------------------------
(* The probe, the chain poll and the restart.                              *)

(* A step that rewrites the row while the world stands still, keeps its    *)
(* invoice, its swap and its offer, and keeps a loop or ends its tick.     *)
LEMMA RewriteInv ==
    ASSUME SessionInv, UNCHANGED kind, RowOK(row', world),
           world' = Touch(world, row, row'),
           row'.invoice = row.invoice, row'.swap = row.swap,
           row'.offer = row.offer,
           RequestOK(request', world), RetryOK(past', row'),
           ReorgOK(row', world),
           \/ loop' = loop
           \/ loop' \in {Asleep, Off} /\ (loop.pc = "issued" => past'.lost),
           past.lost => past'.lost
    PROVE  SessionInv'
<1>1. /\ kind \in Sessions /\ WorldOK(world) /\ InvoiceOK(row, world)
      /\ LoopOK(loop, row, world) /\ LostOK(past, row, loop.pc, world)
  BY DEF SessionInv
<1>2. LoopOK(loop', row', world)
  BY Zenon, <1>1, RestingLoop DEF LoopOK
<1>3. InvoiceOK(row', world) /\ LostOK(past', row', loop'.pc, world)
  BY ZenonT(60), <1>1, RestingLoop DEF InvoiceOK, LostOK
<1> QED BY <1>1, <1>2, <1>3, RowChange

(* The wedge detector.                                                     *)
LEMMA WedgeInv == SessionInv /\ Wedge => SessionInv'
<1> SUFFICES ASSUME SessionInv, Wedge PROVE SessionInv'
  OBVIOUS
<1>1. /\ RowOK(row, world) /\ WorldOK(world) /\ RequestOK(request, world)
      /\ RetryOK(past, row) /\ ReorgOK(row, world)
  BY DEF SessionInv
<1>2. /\ row.status \notin Terminal /\ UNCHANGED <<kind, loop, request, past>>
      /\ row' = Park(row, "wall_clock_budget_exceeded")
      /\ world' = Touch(world, row, row')
  BY DEF Wedge
<1>3. /\ RowOK(row', world) /\ Keeps(row, row')
      /\ row'.swap = row.swap /\ row'.offer = row.offer
  <2>1. "wall_clock_budget_exceeded" \in Reasons /\ world \in Worlds
    BY <1>1 DEF Reasons, WorldOK
  <2> QED BY SMTT(30), <1>1, <1>2, <2>1, ParkOK
<1>4. RetryOK(past', row') /\ ReorgOK(row', world) /\ RequestOK(request', world)
  BY SMTT(30), <1>1, <1>2, <1>3 DEF RetryOK, ReorgOK, Keeps
<1> QED BY <1>2, <1>3, <1>4, RewriteInv DEF Keeps

(* A status and an attempt count written to a row.                         *)
Redirect(r, to, n) == [[r EXCEPT !.status = to] EXCEPT !.attempts = n]

(* Such a row is as true as its status.                                    *)
LEMMA NewStatus ==
    ASSUME NEW r, NEW w, RowOK(r, w), NEW to \in Statuses, NEW n \in Nat,
           StatusOK(to, w),
           to \notin {"completed", "completed_with_reorg_uncertainty"}
    PROVE  /\ RowOK(Redirect(r, to, n), w)
           /\ Redirect(r, to, n).invoice = r.invoice
           /\ Redirect(r, to, n).swap = r.swap
           /\ Redirect(r, to, n).offer = r.offer
           /\ Redirect(r, to, n).confirmations = r.confirmations
           /\ Redirect(r, to, n).reorgs = r.reorgs
           /\ Redirect(r, to, n).attempts = n
<1>1. r \in Rows
  BY DEF RowOK
<1> DEFINE t == [r EXCEPT !.status = to]
           s == Redirect(r, to, n)
<1>2. /\ t \in Rows /\ t.status = to
      /\ t.invoice = r.invoice /\ t.swap = r.swap /\ t.pre = r.pre
      /\ t.offer = r.offer /\ t.confirmations = r.confirmations
      /\ t.reorgs = r.reorgs /\ t.done = r.done /\ t.selfPaid = r.selfPaid
      /\ t.claimed = r.claimed
  BY <1>1 DEF Rows
<1>3. s = [t EXCEPT !.attempts = n]
  BY DEF Redirect
<1> HIDE DEF t, s
<1>4. /\ s \in Rows /\ s.status = t.status /\ s.attempts = n
      /\ s.invoice = t.invoice /\ s.swap = t.swap /\ s.pre = t.pre
      /\ s.offer = t.offer /\ s.confirmations = t.confirmations
      /\ s.reorgs = t.reorgs /\ s.done = t.done /\ s.selfPaid = t.selfPaid
      /\ s.claimed = t.claimed
  BY <1>2, <1>3 DEF Rows
<1>5. Earned(to, w)
  BY SMTT(30) DEF Earned
<1>6. RowOK(s, w)
  BY <1>2, <1>4, <1>5 DEF RowOK
<1> QED BY SMTT(30), <1>2, <1>4, <1>6 DEF s

(* A retry within the budget, or the end of the session.                   *)
LEMMA AttemptInv == SessionInv /\ Attempt => SessionInv'
<1> SUFFICES ASSUME SessionInv, Attempt PROVE SessionInv'
  OBVIOUS
<1>1. /\ RowOK(row, world) /\ WorldOK(world) /\ RequestOK(request, world)
      /\ RetryOK(past, row) /\ ReorgOK(row, world)
  BY DEF SessionInv
<1>2. row \in Rows /\ row.attempts \in Nat
  BY Zenon, <1>1 DEF RowOK, Rows
<1> DEFINE to == IF MayRetry(row) THEN row.pre ELSE "failed"
<1>3. /\ row' = [row EXCEPT !.attempts = @ + 1, !.status = to]
      /\ loop' = IF MayRetry(row) THEN Respawned ELSE loop
      /\ past' = [past EXCEPT !.resumes = IF MayRetry(row) THEN @ + 1 ELSE @]
      /\ world' = Touch(world, row, row') /\ UNCHANGED <<kind, request>>
  BY DEF Attempt
<1>4. /\ to \in Statuses /\ StatusOK(to, world)
      /\ to \notin {"completed", "completed_with_reorg_uncertainty"}
  <2>1. CASE MayRetry(row)
    <3>1. Parked \in Statuses /\ IsLegal(Parked, row.pre)
      BY <2>1 DEF MayRetry, Statuses, Transitions, Parked
    <3>2. row.pre \in Statuses
      BY SMTT(30), <3>1, LegalStatus
    <3> QED BY SMTT(30), <1>1, <2>1, <3>2 DEF RowOK, Terminal
  <2>2. CASE ~MayRetry(row)
    BY <2>2 DEF Statuses, Transitions, StatusOK, Beyond
  <2> QED BY SMTT(30), <2>1, <2>2
<1> HIDE DEF to
<1>5. row.attempts + 1 \in Nat
  BY <1>2
<1>6. /\ RowOK(row', world) /\ row'.invoice = row.invoice /\ row'.swap = row.swap
      /\ row'.offer = row.offer /\ row'.confirmations = row.confirmations
      /\ row'.reorgs = row.reorgs /\ row'.attempts = row.attempts + 1
  <2>1. row' = Redirect(row, to, row.attempts + 1)
    BY Zenon, <1>2, <1>3 DEF Redirect, Rows
  <2> QED BY <1>1, <1>4, <1>5, <2>1, NewStatus
<1>7. RetryOK(past', row')
  <2>1. {MaxRetries, MaxRetriesSemi} \subseteq Nat
    BY AnonymizeAssumption
  <2>2. MaxRetriesFor(row.reason) \in Nat /\ MaxRetriesFor(row.reason) <= Budget
        /\ Budget \in Nat
    BY <2>1 DEF MaxRetriesFor, Budget
  <2>3. /\ past.resumes \in Nat /\ past' \in [resumes : Nat, lost : BOOLEAN]
        /\ past'.resumes = IF MayRetry(row) THEN past.resumes + 1 ELSE past.resumes
    BY <1>1, <1>3 DEF RetryOK
  <2>4. MayRetry(row) => row.attempts + 1 <= MaxRetriesFor(row.reason)
    BY DEF MayRetry
  <2> QED BY SMTT(30), <1>1, <1>2, <1>6, <2>2, <2>3, <2>4 DEF RetryOK
<1>8. ReorgOK(row', world) /\ RequestOK(request', world)
  BY <1>1, <1>3, <1>6 DEF ReorgOK
<1>9. loop' = loop \/ (loop.pc = "off" /\ loop' = Asleep)
  BY <1>3 DEF Respawned
<1>10. past.lost => past'.lost
  BY <1>1, <1>3 DEF RetryOK
<1> QED BY <1>3, <1>6, <1>7, <1>8, <1>9, <1>10, RewriteInv

(* A poll that sees fewer blocks sees a reorg the chain has counted.       *)
LEMMA ChainPollInv == SessionInv /\ ChainPoll => SessionInv'
<1> SUFFICES ASSUME SessionInv, ChainPoll PROVE SessionInv'
  OBVIOUS
<1>1. /\ RowOK(row, world) /\ WorldOK(world) /\ RequestOK(request, world)
      /\ RetryOK(past, row) /\ ReorgOK(row, world)
  BY DEF SessionInv
<1>2. row \in Rows /\ world \in Worlds
  BY <1>1 DEF RowOK, WorldOK
<1>3. /\ row' = [row EXCEPT !.confirmations = world.depth,
                            !.reorgs = IF world.depth < row.confirmations
                                       THEN @ + 1 ELSE @]
      /\ world' = Touch(world, row, row') /\ UNCHANGED <<kind, loop, request, past>>
  BY DEF ChainPoll
<1> DEFINE n == IF world.depth < row.confirmations THEN row.reorgs + 1 ELSE row.reorgs
           s == [row EXCEPT !.confirmations = world.depth]
<1>4. /\ row' \in Rows /\ row'.invoice = row.invoice /\ row'.swap = row.swap
      /\ row'.pre = row.pre /\ row'.status = row.status
      /\ row'.offer = row.offer /\ row'.done = row.done
      /\ row'.selfPaid = row.selfPaid /\ row'.claimed = row.claimed
      /\ row'.attempts = row.attempts /\ row'.confirmations = world.depth
      /\ row'.reorgs = n
  <2>1. n \in Nat /\ world.depth \in 0 .. MinConfirmations
    BY <1>2 DEF Rows, Worlds
  <2>2. row' = [s EXCEPT !.reorgs = n]
    BY <1>2, <1>3 DEF Rows
  <2> HIDE DEF n
  <2>3. /\ s \in Rows /\ s.invoice = row.invoice /\ s.swap = row.swap
        /\ s.pre = row.pre /\ s.status = row.status
        /\ s.offer = row.offer /\ s.done = row.done
        /\ s.selfPaid = row.selfPaid /\ s.claimed = row.claimed
        /\ s.attempts = row.attempts /\ s.confirmations = world.depth
    BY <1>2, <2>1 DEF Rows
  <2> HIDE DEF s
  <2> QED BY SMTT(30), <2>1, <2>2, <2>3 DEF Rows
<1>5. world.depth \in Nat /\ ~(world.depth < world.depth)
      /\ row.reorgs \in Nat /\ world.reorgs \in Nat
  BY SMTT(30), <1>2, AnonymizeAssumption DEF Rows, Worlds
<1>6. row'.reorgs <= world.reorgs
  BY <1>1, <1>4, <1>5 DEF ReorgOK
<1>7. RowOK(row', world)
  BY Zenon, <1>1, <1>4, <1>6 DEF RowOK, WorldOK
<1>8. ReorgOK(row', world) /\ RetryOK(past', row') /\ RequestOK(request', world)
  BY <1>1, <1>3, <1>4, <1>5, <1>6 DEF ReorgOK, RetryOK
<1> QED BY SMTT(30), <1>3, <1>4, <1>7, <1>8, RewriteInv

(* A process that ends takes its tick and its requests with it.            *)
LEMMA RestartAtRestInv == SessionInv /\ RestartAtRest => SessionInv'
<1> SUFFICES ASSUME SessionInv, RestartAtRest PROVE SessionInv'
  OBVIOUS
<1>1. /\ RowOK(row, world) /\ RetryOK(past, row) /\ ReorgOK(row, world)
  BY DEF SessionInv
<1>2. /\ UNCHANGED <<kind, row, world>> /\ request' = Idle /\ loop' = Off
      /\ past' = [past EXCEPT !.lost = @ \/ loop.pc = "issued"]
  BY DEF RestartAtRest
<1>3. /\ past' \in [resumes : Nat, lost : BOOLEAN] /\ past'.resumes = past.resumes
      /\ past.lost \/ loop.pc = "issued" => past'.lost
  BY Zenon, <1>1, <1>2 DEF RetryOK
<1>4. RetryOK(past', row') /\ RequestOK(request', world)
  BY <1>1, <1>2, <1>3 DEF RetryOK, RequestOK, Idle, StatusOK, Beyond
<1>5. world' = Touch(world, row, row')
  BY <1>2 DEF Touch
<1> QED BY Zenon, <1>1, <1>2, <1>3, <1>4, <1>5, RewriteInv

(* A restart that parks the row or drives it on.                           *)
LEMMA RestartInv ==
    ASSUME SessionInv, NEW verdict \in Verdicts, Restart(verdict)
    PROVE  SessionInv'
<1>1. /\ RowOK(row, world) /\ WorldOK(world) /\ RetryOK(past, row)
      /\ ReorgOK(row, world)
  BY DEF SessionInv
<1>2. /\ UNCHANGED kind /\ request' = Idle /\ row.status \notin Terminal
      /\ row' = IF verdict = "healthy" THEN row ELSE Park(row, verdict)
      /\ loop' = IF verdict = "healthy" THEN Asleep ELSE Off
      /\ world' = Touch(world, row, row')
      /\ past' = [past EXCEPT !.lost = @ \/ loop.pc = "issued"]
  BY DEF Restart
<1>3. /\ past' \in [resumes : Nat, lost : BOOLEAN] /\ past'.resumes = past.resumes
      /\ past.lost \/ loop.pc = "issued" => past'.lost
  BY Zenon, <1>1, <1>2 DEF RetryOK
<1>4. /\ RowOK(row', world) /\ Keeps(row, row')
      /\ row'.swap = row.swap /\ row'.offer = row.offer
  <2>1. world \in Worlds
    BY <1>1 DEF WorldOK
  <2>2. CASE verdict = "healthy"
    BY <1>1, <1>2, <2>2 DEF Keeps
  <2>3. CASE verdict # "healthy"
    <3>1. verdict \in Reasons
      BY <2>3 DEF Verdicts, Reasons
    <3> QED BY <1>1, <1>2, <2>1, <2>3, <3>1, ParkOK
  <2> QED BY <2>2, <2>3
<1>5. RetryOK(past', row') /\ ReorgOK(row', world)
  BY <1>1, <1>3, <1>4 DEF RetryOK, ReorgOK, Keeps
<1>6. RequestOK(request', world)
  BY <1>2 DEF RequestOK, Idle, StatusOK, Beyond
<1> QED BY <1>2, <1>3, <1>4, <1>5, <1>6, RewriteInv DEF Keeps

-----------------------------------------------------------------------------
(* The dashboard.                                                          *)

(* A decision that the world bears out.                                    *)
LEMMA AskInv ==
    ASSUME SessionInv, NEW op \in {"cancel", "refund", "retry", "fail", "drop"},
           NEW to \in Statuses, NEW reset \in BOOLEAN, Ask(op, to, reset),
           StatusOK(to, world), reset => op = "retry",
           to \notin {"completed", "completed_with_reorg_uncertainty"}
    PROVE  SessionInv'
<1>1. /\ RowOK(row, world) /\ RetryOK(past, row) /\ ReorgOK(row, world)
  BY DEF SessionInv
<1>2. /\ UNCHANGED <<kind, row, loop, world, past>>
      /\ request' = [to |-> to, reset |-> reset, op |-> op]
  BY DEF Ask
<1>3. RequestOK(request', world)
  BY <1>2 DEF RequestOK
<1>4. world' = Touch(world, row, row')
  BY <1>2 DEF Touch
<1> QED BY Zenon, <1>1, <1>2, <1>3, <1>4, RewriteInv

(* The five endpoints.                                                     *)
LEMMA AsksInv ==
    SessionInv /\ (AskCancel \/ AskRefund \/ AskRetry \/ AskFail \/ AskDrop)
        => SessionInv'
<1> SUFFICES ASSUME SessionInv,
                    AskCancel \/ AskRefund \/ AskRetry \/ AskFail \/ AskDrop
             PROVE  SessionInv'
  OBVIOUS
<1>1. RowOK(row, world)
  BY SMTT(30) DEF SessionInv
<1>2. /\ {"cancelled", "refunding", "failed"} \subseteq Statuses
      /\ \A to \in {"cancelled", "refunding", "failed"} : StatusOK(to, world)
  BY DEF Statuses, Transitions, StatusOK, Beyond
<1>3. CASE AskCancel
  BY Zenon, <1>2, <1>3, AskInv DEF AskCancel
<1>4. CASE AskRefund
  BY Zenon, <1>2, <1>4, AskInv DEF AskRefund
<1>5. CASE AskRetry
  <2>1. row.status = Parked /\ Ask("retry", row.pre, row.attempts # 0)
    BY SMTT(30), <1>5 DEF AskRetry
  <2>2. IsLegal(Parked, row.pre) /\ Parked \in Statuses
    BY <2>1 DEF Ask, Statuses, Transitions, Parked
  <2>3. row.pre \in Statuses
    BY <2>2, LegalStatus
  <2>4. /\ StatusOK(row.pre, world)
        /\ row.pre \notin {"completed", "completed_with_reorg_uncertainty"}
    BY <1>1 DEF RowOK, Terminal
  <2> QED BY Zenon, <2>1, <2>3, <2>4, AskInv
<1>6. CASE AskFail
  BY Zenon, <1>2, <1>6, AskInv DEF AskFail
<1>7. CASE AskDrop
  BY Zenon, <1>2, <1>7, AskInv DEF AskDrop
<1> QED BY <1>3, <1>4, <1>5, <1>6, <1>7

(* The late write of a request is still true of the world, though the row  *)
(* it was decided on may be gone.                                          *)
LEMMA AnswerInv == SessionInv /\ Answer => SessionInv'
<1> SUFFICES ASSUME SessionInv, Answer PROVE SessionInv'
  OBVIOUS
<1>1. /\ RowOK(row, world) /\ WorldOK(world) /\ RequestOK(request, world)
      /\ RetryOK(past, row) /\ ReorgOK(row, world)
  BY DEF SessionInv
<1>2. row \in Rows /\ row.attempts \in Nat
  BY <1>1 DEF RowOK, Rows
<1> DEFINE n == IF request.reset THEN 0 ELSE row.attempts
<1>3. /\ row' = [row EXCEPT !.status = request.to,
                            !.attempts = IF request.reset THEN 0 ELSE @]
      /\ world' = Touch(world, row, row') /\ UNCHANGED <<kind, loop>>
      /\ past' = IF request.op = "retry" THEN [past EXCEPT !.resumes = 0] ELSE past
      /\ request' = Idle /\ request # Idle
  BY DEF Answer
<1>4. /\ request.to \in Statuses /\ StatusOK(request.to, world) /\ n \in Nat
      /\ request.to \notin {"completed", "completed_with_reorg_uncertainty"}
      /\ request.reset => request.op = "retry"
  BY <1>1, <1>2, <1>3 DEF RequestOK
<1>5. row' = Redirect(row, request.to, n)
  BY SMTT(30), <1>2, <1>3 DEF Redirect, Rows
<1>6. /\ RowOK(row', world) /\ row'.invoice = row.invoice /\ row'.swap = row.swap
      /\ row'.offer = row.offer /\ row'.confirmations = row.confirmations
      /\ row'.reorgs = row.reorgs /\ row'.attempts = n
  BY <1>1, <1>4, <1>5, NewStatus
<1>7. /\ past' \in [resumes : Nat, lost : BOOLEAN] /\ past'.lost = past.lost
      /\ past'.resumes = IF request.op = "retry" THEN 0 ELSE past.resumes
  BY <1>1, <1>3 DEF RetryOK
<1>8. RetryOK(past', row')
  <2>1. Budget \in Nat
    BY AnonymizeAssumption DEF Budget
  <2> QED BY <1>1, <1>2, <1>4, <1>6, <1>7, <2>1 DEF RetryOK
<1>9. ReorgOK(row', world) /\ RequestOK(request', world)
  BY <1>1, <1>3, <1>6 DEF ReorgOK, RequestOK, Idle, StatusOK, Beyond
<1> QED BY SMTT(30), <1>3, <1>6, <1>7, <1>8, <1>9, RewriteInv

-----------------------------------------------------------------------------
(* The world.                                                              *)

(* Time, and a deposit.                                                    *)
LEMMA ClockInv == SessionInv /\ (Deposit \/ Ripen \/ GrowIdle) => SessionInv'
<1> SUFFICES ASSUME SessionInv, Deposit \/ Ripen \/ GrowIdle
             PROVE  SessionInv'
  OBVIOUS
<1>1. WorldOK(world) /\ ReorgOK(row, world)
  BY DEF SessionInv
<1>2. PICK w : /\ w \in {[world EXCEPT !.deposited = TRUE],
                         [world EXCEPT !.ripe = TRUE],
                         [world EXCEPT !.idle = TRUE]}
               /\ Happens(w)
  BY SMTT(30) DEF Deposit, Ripen, GrowIdle
<1>3. world \in Worlds
  BY <1>1 DEF WorldOK
<1>4. /\ w \in Worlds /\ w.selfPay = world.selfPay /\ w.exitPay = world.exitPay
      /\ w.swaps = world.swaps /\ w.offers = world.offers
      /\ w.offerPaid = world.offerPaid /\ w.depth = world.depth
      /\ w.deepest = world.deepest /\ w.reorgs = world.reorgs
      /\ world.deposited => w.deposited
  BY ZenonT(60), <1>2, <1>3 DEF Worlds
<1>5. WorldOK(w) /\ Grows(world, w)
  BY <1>1, <1>3, <1>4 DEF WorldOK, Grows, Arrived, Worlds
<1>6. ReorgOK(row, w)
  BY <1>1, <1>4 DEF ReorgOK
<1> QED BY <1>2, <1>4, <1>5, <1>6, WorldChange

(* A payment of a swap that some payment task starts, or that is resolved. *)
LEMMA ExitPayInv ==
    ASSUME SessionInv, NEW n \in Numbers, n <= world.swaps, NEW to \in Payment,
           Happens([world EXCEPT !.exitPay[n] = to])
    PROVE  SessionInv'
<1>1. WorldOK(world) /\ ReorgOK(row, world)
  BY DEF SessionInv
<1>2. world \in Worlds
  BY <1>1 DEF WorldOK
<1> DEFINE w == [world EXCEPT !.exitPay[n] = to]
<1>3. /\ w \in Worlds /\ w.selfPay = world.selfPay
      /\ w.exitPay = [world.exitPay EXCEPT ![n] = to]
      /\ w.swaps = world.swaps /\ w.offers = world.offers
      /\ w.offerPaid = world.offerPaid /\ w.depth = world.depth
      /\ w.deepest = world.deepest /\ w.reorgs = world.reorgs
      /\ w.deposited = world.deposited
  BY <1>2 DEF Worlds
<1>4. \A m \in Numbers : w.exitPay[m] # "none" => m <= w.swaps
  BY <1>1, <1>2, <1>3 DEF WorldOK, Worlds
<1> HIDE DEF w
<1>5. WorldOK(w) /\ Grows(world, w)
  BY <1>1, <1>2, <1>3, <1>4 DEF WorldOK, Grows, Arrived, Worlds
<1>6. ReorgOK(row, w)
  BY <1>1, <1>3 DEF ReorgOK
<1> QED BY Zenon, <1>3, <1>5, <1>6, WorldChange DEF w

(* The self-pay in flight is resolved.                                     *)
LEMMA SelfPayInv ==
    ASSUME SessionInv, NEW n \in Numbers, world.selfPay[n] = "held",
           NEW to \in Payment, Happens([world EXCEPT !.selfPay[n] = to])
    PROVE  SessionInv'
<1>1. WorldOK(world) /\ ReorgOK(row, world)
  BY DEF SessionInv
<1>2. world \in Worlds
  BY <1>1 DEF WorldOK
<1>3. n = 1
  BY <1>1 DEF WorldOK, Numbers
<1> DEFINE w == [world EXCEPT !.selfPay[n] = to]
<1>4. /\ w \in Worlds /\ w.exitPay = world.exitPay
      /\ w.selfPay = [world.selfPay EXCEPT ![n] = to]
      /\ w.swaps = world.swaps /\ w.offers = world.offers
      /\ w.offerPaid = world.offerPaid /\ w.depth = world.depth
      /\ w.deepest = world.deepest /\ w.reorgs = world.reorgs
      /\ w.deposited = world.deposited
  BY <1>2 DEF Worlds
<1>5. w.selfPay[2] = "none" /\ world.selfPay[1] = "held"
  BY <1>1, <1>2, <1>3, <1>4 DEF WorldOK, Worlds, Numbers
<1> HIDE DEF w
<1>6. WorldOK(w) /\ Grows(world, w)
  BY <1>1, <1>2, <1>4, <1>5 DEF WorldOK, Grows, Arrived, Worlds
<1>7. ReorgOK(row, w)
  BY <1>1, <1>4 DEF ReorgOK
<1> QED BY Zenon, <1>4, <1>5, <1>6, <1>7, WorldChange DEF w

(* The recovery pass, and payments that come to their end.                 *)
LEMMA PaymentsInv == SessionInv /\ (RecoveryPays \/ ResolvePayment) => SessionInv'
<1> SUFFICES ASSUME SessionInv, RecoveryPays \/ ResolvePayment
             PROVE  SessionInv'
  OBVIOUS
<1>1. WorldOK(world) /\ world.swaps \in 0 .. 2
  BY DEF SessionInv, WorldOK, Worlds
<1>2. {"none", "held", "settled"} \subseteq Payment
  BY DEF Payment
<1>3. CASE RecoveryPays
  <2>1. PICK n \in 1 .. world.swaps : Happens([world EXCEPT !.exitPay[n] = "held"])
    BY Zenon, <1>3 DEF RecoveryPays
  <2>2. n \in Numbers /\ n <= world.swaps
    BY <1>1 DEF Numbers
  <2> QED BY <1>2, <2>1, <2>2, ExitPayInv
<1>4. CASE ResolvePayment
  <2>1. PICK n \in Numbers, to \in {"settled", "none"} :
          \/ /\ world.selfPay[n] = "held"
             /\ Happens([world EXCEPT !.selfPay[n] = to])
          \/ /\ world.exitPay[n] = "held"
             /\ Happens([world EXCEPT !.exitPay[n] = to])
    BY Zenon, <1>4 DEF ResolvePayment
  <2>2. CASE world.selfPay[n] = "held" /\ Happens([world EXCEPT !.selfPay[n] = to])
    BY <1>2, <2>2, SelfPayInv
  <2>3. CASE world.exitPay[n] = "held" /\ Happens([world EXCEPT !.exitPay[n] = to])
    <3>1. n <= world.swaps
      BY <1>1, <2>3 DEF WorldOK
    <3> QED BY <1>2, <2>3, <3>1, ExitPayInv
  <2> QED BY <2>1, <2>2, <2>3
<1> QED BY <1>3, <1>4

(* Blocks come and go.                                                     *)
LEMMA BlocksInv == SessionInv /\ (Mine \/ Reorg) => SessionInv'
<1> SUFFICES ASSUME SessionInv, Mine \/ Reorg PROVE SessionInv'
  OBVIOUS
<1>1. WorldOK(world) /\ ReorgOK(row, world) /\ RowOK(row, world)
  BY SMTT(30) DEF SessionInv
<1>2. /\ world \in Worlds /\ MinConfirmations \in Nat
      /\ world.depth \in 0 .. MinConfirmations /\ world.deepest \in Nat
      /\ world.reorgs \in Nat /\ world.depth <= world.deepest
      /\ row.confirmations \in 0 .. MinConfirmations /\ row.reorgs \in Nat
  BY SMTT(30), <1>1, AnonymizeAssumption DEF WorldOK, Worlds, RowOK, Rows
<1>3. CASE Mine
  <2> DEFINE top == IF world.depth < world.deepest THEN world.deepest
                    ELSE world.depth + 1
             v == [world EXCEPT !.depth = @ + 1]
             w == [v EXCEPT !.deepest = top]
  <2>1. world.depth < MinConfirmations /\ Happens(w)
    <3>1. w = [world EXCEPT !.depth = @ + 1,
                   !.deepest = IF world.depth < @ THEN @ ELSE world.depth + 1]
      BY <1>2 DEF Worlds
    <3> QED BY <1>3, <3>1 DEF Mine
  <2>2. top \in Nat /\ world.deepest <= top /\ world.depth + 1 <= top
        /\ world.depth + 1 \in 0 .. MinConfirmations
    BY <1>2, <2>1
  <2> HIDE DEF top
  <2>3. /\ w \in Worlds /\ w.selfPay = world.selfPay /\ w.exitPay = world.exitPay
        /\ w.swaps = world.swaps /\ w.offers = world.offers
        /\ w.offerPaid = world.offerPaid /\ w.depth = world.depth + 1
        /\ w.deepest = top /\ w.reorgs = world.reorgs
        /\ w.deposited = world.deposited
    BY ZenonT(60), <1>2, <2>2 DEF Worlds
  <2> HIDE DEF w, v
  <2>4. WorldOK(w) /\ Grows(world, w)
    BY SMTT(30), <1>1, <1>2, <2>2, <2>3 DEF WorldOK, Grows, Arrived, Worlds
  <2>5. ReorgOK(row, w)
    BY SMTT(30), <1>1, <1>2, <2>3 DEF ReorgOK
  <2> QED BY <2>1, <2>3, <2>4, <2>5, WorldChange
<1>4. CASE Reorg
  <2>1. PICK d \in 0 .. world.depth - 1 :
           Happens([world EXCEPT !.depth = d, !.reorgs = @ + 1])
    BY Zenon, <1>4 DEF Reorg
  <2> DEFINE v == [world EXCEPT !.depth = d]
             w == [v EXCEPT !.reorgs = world.reorgs + 1]
  <2>2. Happens(w)
    <3>1. w = [world EXCEPT !.depth = d, !.reorgs = @ + 1]
      BY <1>2 DEF Worlds
    <3> QED BY <2>1, <3>1
  <2>3. d \in 0 .. MinConfirmations /\ d <= world.deepest
        /\ world.reorgs + 1 \in Nat
    BY <1>2
  <2>4. /\ w \in Worlds /\ w.selfPay = world.selfPay /\ w.exitPay = world.exitPay
        /\ w.swaps = world.swaps /\ w.offers = world.offers
        /\ w.offerPaid = world.offerPaid /\ w.depth = d
        /\ w.deepest = world.deepest /\ w.reorgs = world.reorgs + 1
        /\ w.deposited = world.deposited
    BY ZenonT(60), <1>2, <2>3 DEF Worlds
  <2> HIDE DEF w, v
  <2>5. WorldOK(w) /\ Grows(world, w)
    BY <1>1, <1>2, <2>3, <2>4 DEF WorldOK, Grows, Arrived, Worlds
  <2>6. ReorgOK(row, w)
    <3>1. row.reorgs <= world.reorgs
      BY <1>1 DEF RowOK
    <3> QED BY SMTT(30), <1>2, <2>4, <3>1 DEF ReorgOK
  <2> QED BY Zenon, <2>2, <2>4, <2>5, <2>6, WorldChange
<1> QED BY <1>3, <1>4

-----------------------------------------------------------------------------
(* The invariant and what follows from it.                                 *)

(* Every step keeps the invariant.                                         *)
LEMMA StepInv == SessionInv /\ [Next]_vars => SessionInv'
<1> SUFFICES ASSUME SessionInv, [Next]_vars PROVE SessionInv'
  OBVIOUS
<1>1. CASE Tick \/ TickRest \/ LoopEnds
  BY <1>1, TickInv, TickRestInv, LoopEndsInv
<1>2. CASE MintInvoice \/ IssueReverseSwap \/ IssueSubmarineSwap
  BY <1>2, MintInvoiceInv, IssueReverseSwapInv, IssueSubmarineSwapInv
<1>3. CASE Wedge \/ Attempt \/ ChainPoll
  BY <1>3, WedgeInv, AttemptInv, ChainPollInv
<1>4. CASE AskCancel \/ AskRefund \/ AskRetry \/ AskFail \/ AskDrop
  BY <1>4, AsksInv
<1>5. CASE Answer
  BY <1>5, AnswerInv
<1>6. CASE RestartAtRest \/ \E verdict \in Verdicts : Restart(verdict)
  BY <1>6, RestartAtRestInv, RestartInv
<1>7. CASE Deposit \/ Ripen \/ GrowIdle
  BY <1>7, ClockInv
<1>8. CASE RecoveryPays \/ ResolvePayment
  BY <1>8, PaymentsInv
<1>9. CASE Mine \/ Reorg
  BY <1>9, BlocksInv
<1>10. CASE UNCHANGED vars
  <2>1. UNCHANGED <<kind, row, loop, request, world, past>>
    BY <1>10 DEF vars
  <2>2. /\ RowOK(row, world) /\ RequestOK(request, world) /\ RetryOK(past, row)
        /\ ReorgOK(row, world)
    BY DEF SessionInv
  <2>3. world' = Touch(world, row, row')
    BY <2>1 DEF Touch
  <2> QED BY Zenon, <2>1, <2>2, <2>3, RewriteInv
<1> QED BY SMTT(30), <1>1, <1>2, <1>3, <1>4, <1>5, <1>6, <1>7, <1>8, <1>9, <1>10 DEF Next

(* The inductive invariant holds in every reachable state.                 *)
LEMMA InvHolds == Spec => []SessionInv
BY InitInv, StepInv, PTL DEF Spec

(* Rows, the loop's copy included, are well formed: payment parts are      *)
(* decremented at most once, and attempts and failures stay in range.      *)
THEOREM SessionTypes == Spec => []TypeOK
<1>1. SessionInv => TypeOK
  <2> SUFFICES ASSUME SessionInv PROVE TypeOK
    OBVIOUS
  <2>1. row \in Rows /\ loop \in Loops /\ world \in Worlds
    BY Zenon DEF SessionInv, RowOK, LoopOK, WorldOK
  <2>2. request.to \in Statuses \union {"none"}
    BY DEF SessionInv, RequestOK
  <2> QED BY <2>1, <2>2 DEF TypeOK, Loops, Worlds, Middle
<1> QED BY <1>1, InvHolds, PTL

(* Some subset of {1} has at most one element.                             *)
LEMMA AtMostOne ==
    ASSUME NEW S, S \subseteq {1}
    PROVE  Cardinality(S) <= 1
<1>1. IsFiniteSet({1}) /\ Cardinality({1}) = 1
  BY Zenon, FS_Singleton
<1>2. Cardinality(S) <= Cardinality({1})
  BY Zenon, <1>1, FS_Subset
<1> QED BY <1>1, <1>2

(* At most one self-pay invoice of a session is ever paid, for every       *)
(* number of restarts, rolled back ticks and requests (ln_self_pay.py).    *)
THEOREM SelfPayIsUnique == Spec => []SelfPaidOnce
<1>1. SessionInv => SelfPaidOnce
  <2> SUFFICES ASSUME SessionInv PROVE SelfPaidOnce
    OBVIOUS
  <2>1. world.selfPay[2] = "none"
    BY DEF SessionInv, WorldOK
  <2>2. {n \in Numbers : world.selfPay[n] # "none"} \subseteq {1}
    BY <2>1 DEF Numbers
  <2> QED BY SMTT(30), <2>2, AtMostOne DEF SelfPaidOnce
<1> QED BY <1>1, InvHolds, PTL

(* The exit is paid twice only after a tick that paid it was rolled back   *)
(* (bolt12_pay.py, reverse.py).                                            *)
THEOREM ExitRepaidOnlyIfLost == Spec => []RepaidOnlyIfLost
<1>1. SessionInv => RepaidOnlyIfLost
  <2> SUFFICES ASSUME SessionInv, ~past.lost
               PROVE  /\ world.offers <= 1
                      /\ Cardinality({n \in Numbers : world.exitPay[n] # "none"}) <= 1
    BY DEF RepaidOnlyIfLost
  <2>1. world.offers <= 1 /\ world.swaps <= 1
    BY SMTT(30) DEF SessionInv, LostOK
  <2>2. \A n \in Numbers : world.exitPay[n] # "none" => n <= world.swaps
    BY DEF SessionInv, WorldOK
  <2>3. world.swaps \in 0 .. 2
    BY DEF SessionInv, WorldOK, Worlds
  <2>4. {n \in Numbers : world.exitPay[n] # "none"} \subseteq {1}
    BY <2>1, <2>2, <2>3 DEF Numbers
  <2> QED BY <2>1, <2>4, AtMostOne
<1> QED BY <1>1, InvHolds, PTL

(* A session is completed only once its claim was deep enough or its offer *)
(* paid, and gives up on reorgs only after as many (tick.py).              *)
THEOREM CompletionIsEarned == Spec => []CompletedIsEarned
<1>1. SessionInv => CompletedIsEarned
  BY Zenon DEF SessionInv, RowOK, Earned, CompletedIsEarned
<1> QED BY <1>1, InvHolds, PTL

(* A session that pays itself, or has a minted offer to watch, pays        *)
(* nothing at its exit before those funds arrived.                         *)
THEOREM NothingSpentEarly == Spec => []SpendsOnlyWhatArrived
<1>1. SessionInv => SpendsOnlyWhatArrived
  <2> SUFFICES ASSUME SessionInv,
                      world.offers > 0 \/ world.exitPay # NewWorld.exitPay
               PROVE  CASE kind.source = "lightning-self" ->
                             \E n \in Numbers : world.selfPay[n] = "settled"
                        [] kind.source = "ext-bolt12" -> world.deposited
                        [] OTHER -> TRUE
    BY DEF SpendsOnlyWhatArrived
  <2>1. WorldOK(world) /\ world \in Worlds
    BY Zenon DEF SessionInv, WorldOK
  <2>2. world.offers > 0 \/ world.swaps > 0
    <3>1. CASE world.exitPay # NewWorld.exitPay
      <4>1. PICK n \in Numbers : world.exitPay[n] # "none"
        BY <2>1, <3>1 DEF Worlds, NewWorld
      <4>2. n <= world.swaps
        BY <2>1, <4>1 DEF WorldOK
      <4> QED BY SMTT(30), <2>1, <4>2 DEF Worlds, Numbers
    <3> QED BY <3>1
  <2>3. Arrived(world)
    BY <2>1, <2>2 DEF WorldOK
  <2>4. 1 \in Numbers
    BY DEF Numbers
  <2> QED BY <2>3, <2>4 DEF Arrived
<1> QED BY <1>1, InvHolds, PTL

(* The probe resumes a session no more often than the larger of its two    *)
(* budgets, whatever reasons alternate (reconciliation_probe.py).          *)
THEOREM ResumesAreBounded == Spec => []RetriesAreBounded
<1>1. SessionInv => RetriesAreBounded
  BY DEF SessionInv, RetryOK, Budget, RetriesAreBounded
<1> QED BY <1>1, InvHolds, PTL
=============================================================================
