---------------------------- MODULE SwapPromise ----------------------------
(***************************************************************************)
(* What the flows that use reverse swaps may rely on.  They read a row of  *)
(* boltz_swaps, its status and its claim_txid, and look for the coin at    *)
(* the destination; they never see the tasks that drive the swap.          *)
(* BoltzSwap implements this specification; the flows that are built on    *)
(* swaps use it in its place.                                              *)
(***************************************************************************)
CONSTANT Swaps  \* the rows that may exist

VARIABLE swaps  \* swaps[i]: the row, and the coin the swap is about

\* "busy" stands for PAYING_INVOICE, INVOICE_PAID, CLAIMING and CLAIMED, which
\* no flow tells apart.
SwapEnded == {"completed", "failed", "cancelled", "refunded"}
SwapStatuses == {"none", "created", "busy"} \cup SwapEnded

SwapRows ==
    [status : SwapStatuses, claim_txid : BOOLEAN, coin : {"none", "claimed", "refunded"}]

NoSwap == [status |-> "none", claim_txid |-> FALSE, coin |-> "none"]
NewSwap == [status |-> "created", claim_txid |-> FALSE, coin |-> "none"]

\* The row tells the truth about the coin.  It may lag behind: nothing is
\* promised of a swap that is failed or cancelled, whose coin may still come.
Truthful(s) ==
    /\ s.claim_txid => s.coin = "claimed"
    /\ s.status = "completed" => s.coin = "claimed"
    /\ s.status = "refunded" => s.coin = "refunded"

TruthfulRows == {s \in SwapRows : s.status # "none" /\ Truthful(s)}

\* What may become of a swap in one step: the coin is claimed or refunded once
\* and for all, a recorded claim is never forgotten, and a swap that has been
\* touched is not CREATED again.
Follows(s, t) ==
    /\ t \in TruthfulRows
    /\ t.status = "created" => s.status = "created"
    /\ s.coin # "none" => t.coin = s.coin
    /\ s.claim_txid => t.claim_txid

SwapsInit == swaps \in [Swaps -> {NoSwap, NewSwap}]

Create(i) ==
    /\ swaps[i] = NoSwap
    /\ swaps' = [swaps EXCEPT ![i] = NewSwap]

Move(i) ==
    /\ swaps[i] # NoSwap
    /\ \E t \in TruthfulRows : Follows(swaps[i], t) /\ swaps' = [swaps EXCEPT ![i] = t]

SwapsNext == \E i \in Swaps : Create(i) \/ Move(i)

SwapsSpec == SwapsInit /\ [][SwapsNext]_swaps
=============================================================================
