----------------------------- MODULE MCAuditChain -----------------------------
(***************************************************************************)
(* Instances of AuditChain for TLC: which operations run beside appends.   *)
(***************************************************************************)
EXTENDS AuditChain

Retention == {"prune", "outofband"}
Operators == {"reanchor", "verify", "lossy", "outofband"}
=============================================================================
