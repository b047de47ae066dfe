------------------------- MODULE MCAnonymizeSession -------------------------
(***************************************************************************)
(* The instance of AnonymizeSession that TLC checks.                       *)
(***************************************************************************)
EXTENDS AnonymizeSession

Pipeline(source, exit, claimer) ==
    [source |-> source, exit |-> exit, claimer |-> claimer]

(* Every source and every exit, and a claim answered with the transaction  *)
(* (the contract of ReverseHopDeps) or with its txid (the default adapter).*)
MCPipelines == {Pipeline("lightning-self", "reverse", "hex"),
                Pipeline("ext-bolt12", "bolt12_pay", "hex"),
                Pipeline("ext-bolt11", "reverse", "txid"),
                Pipeline("onchain", "reverse", "hex")}
=============================================================================
