--------------------------- MODULE MCSpendRequests ---------------------------
(***************************************************************************)
(* Instances of SpendRequests for TLC: which requests the clients make.    *)
(***************************************************************************)
EXTENDS SpendRequests, TLC

CONSTANTS a1, a2, a3, k1, k2, b1, b2, nokey, nopay

Three == {a1, a2, a3}
OneKey == {k1}
TwoKeys == {k1, k2}
TwoBodies == {b1, b2}
OneBody == {b1}

\* One key replayed, with the same body or another, on the endpoints that do
\* not look a pending payment up; and a request without a key.
MCReplays == [key : {k1}, kind : {"send", "open", "swap"}, body : {b1}]
             \cup [key : {k1}, kind : {"send"}, body : {b2}]
             \cup [key : {nokey}, kind : {"send", "pay"}, body : {b1}]

\* One invoice, paid under one key and retried, and paid without a key too;
\* and an offer paid and retried under another key.
MCInvoice == [key : {k1, nokey}, kind : {"pay"}, body : {b1}]
             \cup [key : {k2}, kind : {"offer"}, body : {b1}]

MCOffer == [key : {k1}, kind : {"offer"}, body : {b1}]

Unknown == {"unknown"}
AllFaults == FaultKinds

Symmetry == Permutations(Attempts)
=============================================================================
