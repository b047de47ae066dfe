------------------------------ MODULE AuditChain ------------------------------
(***************************************************************************)
(* The audit log of app/services/audit_service.py: a table of rows, each   *)
(* linked to its predecessor by hash, and a signed "high-water" row with   *)
(* the number of rows there ought to be.                                   *)
(*                                                                         *)
(* A transaction that takes the chain advisory lock first is one step: no  *)
(* other such transaction overlaps it and readers see committed rows only. *)
(* What runs without the lock (the pages of verify_chain, the second       *)
(* transaction of reanchor_chain, the anchor's snapshot) is one step for   *)
(* every SQL statement.                                                    *)
(*                                                                         *)
(* rows is in (created_at, id) order, the order of every walk.  A hash is  *)
(* the pair of the row's id and the re-anchoring that last changed it.     *)
(***************************************************************************)
EXTENDS Integers, Sequences

CONSTANTS
    PageSize,   \* batch_size of verify_chain
    MaxRows,    \* bound: rows ever written
    MaxClock,   \* bound: wall-clock readings
    Features    \* what happens beside appends: see FeatureKinds

\* prune: the retention task; reanchor, verify: the admin operations;
\* lossy: the webhook may lose an anchor; outofband: rows disappear by other
\* means than this code (a partial restore, a manual DELETE).
FeatureKinds == {"prune", "reanchor", "verify", "lossy", "outofband"}

ASSUME AuditAssumption ==
    /\ PageSize \in Nat \ {0}
    /\ MaxRows \in Nat
    /\ MaxClock \in Nat
    /\ Features \subseteq FeatureKinds

VARIABLES
    rows,      \* the audit_logs table: <<[id, at, prev, hash], ...>>
    hw,        \* the audit_chain_state row: [present, count, head, sig]
    written,   \* rows written so far: the source of fresh ids
    epoch,     \* re-anchorings that changed hashes
    missing,   \* rows removed out of band since the last baseline
    pruner,    \* [pc, deleted]: the retention task after its commit
    anchorer,  \* [pc, count, head, seen]: reanchor_chain's second transaction
    walk,      \* [pc, at, hash]: verify_chain's cursor
    alarm,     \* some verification reported a broken chain
    observer   \* [count, alarm]: the off-box receiver of the anchors

vars == <<rows, hw, written, epoch, missing, pruner, anchorer, walk, alarm, observer>>

NoHash == <<0, 0>>
NoCount == -1

Init ==
    /\ rows = <<>>
    /\ hw = [present |-> FALSE, count |-> 0, head |-> NoHash, sig |-> <<0, NoHash>>]
    /\ written = 0
    /\ epoch = 0
    /\ missing = 0
    /\ pruner = [pc |-> "idle", deleted |-> 0]
    /\ anchorer = [pc |-> "idle", count |-> 0, head |-> NoHash, seen |-> <<0, NoHash, <<0, NoHash>>>>]
    /\ walk = [pc |-> "idle", at |-> 0, hash |-> NoHash]
    /\ alarm = FALSE
    /\ observer = [count |-> NoCount, alarm |-> FALSE]

-----------------------------------------------------------------------------
\* _record_high_water: max(0, count), signed with the head.
Record(count, head) ==
    LET c == IF count < 0 THEN 0 ELSE count
    IN [present |-> TRUE, count |-> c, head |-> head, sig |-> <<c, head>>]

\* _high_water_signature_valid
SignatureValid(h) == h.sig = <<h.count, h.head>>

\* Mutant: the rows are counted again after the flush that added one.
BumpTwice(h, count, head) ==
    IF ~h.present THEN Record(count + 1, head)
    ELSE IF ~SignatureValid(h) THEN h
    ELSE Record(h.count + 1, head)

\* _bump_high_water_on_append: h after an append that leaves count rows.
Bump(h, count, head) ==
    IF ~h.present THEN Record(count, head)
    ELSE IF ~SignatureValid(h) THEN h
    ELSE Record(h.count + 1, head)

\* _get_last_hash
LastHash(rs) == IF rs = <<>> THEN NoHash ELSE rs[Len(rs)].hash

\* Mutant: created_at is the clock's reading, as the column default would be.
NewRowAtNow(rs, now) ==
    [id |-> written + 1, at |-> now, prev |-> LastHash(rs), hash |-> <<written + 1, epoch>>]

\* _finalize_entry's row: linked to the last row, and stamped after it even
\* if the clock has not moved or has stepped back.
NewRow(rs, now) ==
    [id   |-> written + 1,
     at   |-> IF rs # <<>> /\ now <= rs[Len(rs)].at THEN rs[Len(rs)].at + 1 ELSE now,
     prev |-> LastHash(rs),
     hash |-> <<written + 1, epoch>>]

\* check_high_water
HighWaterOk == hw.present => SignatureValid(hw) /\ Len(rows) >= hw.count

\* The links verify_chain checks: all but the head's.
Linked(rs) == \A i \in 2 .. Len(rs) : rs[i].prev = rs[i - 1].hash

\* log_action, log_dashboard_action: one locked transaction.
LogAction(now) ==
    /\ written < MaxRows
    /\ LET row == NewRow(rows, now)
       IN /\ rows' = Append(rows, row)
          /\ hw' = Bump(hw, Len(rows) + 1, row.hash)
    /\ written' = written + 1
    /\ UNCHANGED <<epoch, missing, pruner, anchorer, walk, alarm, observer>>

\* Mutant: the verdict of verify_chain is ignored.
PruneUnverified(now, cutoff) ==
    /\ "prune" \in Features
    /\ pruner.pc = "idle"
    /\ written < MaxRows
    /\ \E n \in 0 .. Len(rows) :
          /\ \A i \in 1 .. n : rows[i].at < cutoff
          /\ \A i \in (n + 1) .. Len(rows) : rows[i].at >= cutoff
          /\ rows' = SubSeq(rows, n + 1, Len(rows))
          /\ hw' = Record(Len(rows) - n, hw.head)
          /\ pruner' = [pc |-> "emit", deleted |-> n]
    /\ UNCHANGED <<written, epoch, missing, anchorer, walk, alarm, observer>>

\* Mutant: the count is lowered after the prune's own entry was added, and
\* not clamped.
PruneUnclamped(now, cutoff) ==
    /\ "prune" \in Features
    /\ pruner.pc = "idle"
    /\ written < MaxRows
    /\ Linked(rows) /\ HighWaterOk
    /\ \E n \in 1 .. Len(rows) :
          /\ \A i \in 1 .. n : rows[i].at < cutoff
          /\ \A i \in (n + 1) .. Len(rows) : rows[i].at >= cutoff
          /\ rows' = SubSeq(rows, n + 1, Len(rows))
          /\ hw' = [hw EXCEPT !.count = hw.count - n - 1]
          /\ pruner' = [pc |-> "emit", deleted |-> n]
    /\ UNCHANGED <<written, epoch, missing, anchorer, walk, alarm, observer>>

\* prune_audit_log: one locked transaction.  The rows before the cutoff are
\* a prefix of the table.  A chain that does not verify is left as it is and
\* an alert is sent.
Prune(now, cutoff) ==
    /\ "prune" \in Features
    /\ pruner.pc = "idle"
    /\ written < MaxRows
    /\ \/ /\ ~(Linked(rows) /\ HighWaterOk)
          /\ alarm' = TRUE
          /\ UNCHANGED <<rows, hw, written, pruner>>
       \/ /\ Linked(rows) /\ HighWaterOk
          /\ \E n \in 0 .. Len(rows) :
                /\ \A i \in 1 .. n : rows[i].at < cutoff
                /\ \A i \in (n + 1) .. Len(rows) : rows[i].at >= cutoff
                /\ LET kept    == SubSeq(rows, n + 1, Len(rows))
                       lowered == IF n > 0 /\ hw.present /\ SignatureValid(hw)
                                  THEN Record(hw.count - n, hw.head) ELSE hw
                       row     == NewRow(kept, now)
                   IN IF n > 0 /\ kept # <<>>
                      THEN /\ rows' = Append(kept, row)
                           /\ hw' = Bump(lowered, Len(kept) + 1, row.hash)
                           /\ written' = written + 1
                      ELSE /\ rows' = kept
                           /\ hw' = lowered
                           /\ UNCHANGED written
                /\ pruner' = [pc |-> "emit", deleted |-> n]
          /\ UNCHANGED alarm
    /\ UNCHANGED <<epoch, missing, anchorer, walk, observer>>

\* cleanup_audit_logs with retention disabled: an anchor, and no pruning.
Heartbeat ==
    /\ "prune" \notin Features
    /\ pruner.pc = "idle"
    /\ pruner' = [pc |-> "emit", deleted |-> 0]
    /\ UNCHANGED <<rows, hw, written, epoch, missing, anchorer, walk, alarm, observer>>

\* Mutant: the anchor does not carry the number of rows the prune removed.
EmitAnchorWithoutDeleted ==
    /\ pruner.pc = "emit"
    /\ pruner' = [pc |-> "idle", deleted |-> 0]
    /\ observer' = [count |-> Len(rows),
                    alarm |-> observer.alarm \/ Len(rows) < observer.count]
    /\ UNCHANGED <<rows, hw, written, epoch, missing, anchorer, walk, alarm>>

\* emit_audit_anchor: the live count and what the prune removed go to the
\* receiver, which expects count_now >= count_prev - deleted_now.  The send
\* is best-effort: it may be lost, as when the process dies before it.
EmitAnchor ==
    /\ pruner.pc = "emit"
    /\ pruner' = [pc |-> "idle", deleted |-> 0]
    /\ \/ observer' = [count |-> Len(rows),
                       alarm |-> observer.alarm \/ Len(rows) < observer.count - pruner.deleted]
       \/ "lossy" \in Features /\ UNCHANGED observer
    /\ UNCHANGED <<rows, hw, written, epoch, missing, anchorer, walk, alarm>>

\* reanchor_chain, its locked transaction: every row re-linked from the
\* genesis and re-hashed (a change only if the head's back-link dangles),
\* the re-anchor's own entry appended, the lock released by the commit.
Reanchor(now) ==
    /\ "reanchor" \in Features
    /\ anchorer.pc = "idle"
    /\ written < MaxRows
    /\ LET dangling == rows # <<>> /\ rows[1].prev # NoHash
           e        == IF dangling THEN epoch + 1 ELSE epoch
           relinked == IF ~dangling THEN rows
                       ELSE [i \in 1 .. Len(rows) |->
                               [id   |-> rows[i].id,
                                at   |-> rows[i].at,
                                prev |-> IF i = 1 THEN NoHash ELSE <<rows[i - 1].id, e>>,
                                hash |-> <<rows[i].id, e>>]]
           row      == [NewRow(relinked, now) EXCEPT !.hash = <<written + 1, e>>]
       IN /\ rows' = Append(relinked, row)
          /\ hw' = Bump(hw, Len(rows) + 1, row.hash)
          /\ epoch' = e
          /\ anchorer' = [anchorer EXCEPT !.pc = "count", !.head = row.hash]
    /\ written' = written + 1
    /\ UNCHANGED <<missing, pruner, walk, alarm, observer>>

\* Its second transaction, without the lock: count the rows, ...
ReanchorCount ==
    /\ anchorer.pc = "count"
    /\ anchorer' = [anchorer EXCEPT !.pc = "load", !.count = Len(rows)]
    /\ UNCHANGED <<rows, hw, written, epoch, missing, pruner, walk, alarm, observer>>

\* ... load the high-water row, ...
ReanchorLoad ==
    /\ anchorer.pc = "load"
    /\ anchorer' = [anchorer EXCEPT !.pc = "write", !.seen = <<hw.count, hw.head, hw.sig>>]
    /\ UNCHANGED <<rows, hw, written, epoch, missing, pruner, walk, alarm, observer>>

\* ... and write the columns that differ from what was loaded.
ReanchorWrite ==
    /\ anchorer.pc = "write"
    /\ LET new == Record(anchorer.count, anchorer.head)
       IN hw' = [hw EXCEPT !.count = IF new.count # anchorer.seen[1] THEN new.count ELSE @,
                           !.head  = IF new.head # anchorer.seen[2] THEN new.head ELSE @,
                           !.sig   = IF new.sig # anchorer.seen[3] THEN new.sig ELSE @]
    /\ anchorer' = [anchorer EXCEPT !.pc = "idle"]
    /\ missing' = 0
    /\ alarm' = FALSE
    /\ UNCHANGED <<rows, written, epoch, pruner, walk, observer>>

\* The admin and dashboard verify endpoints.
StartVerify ==
    /\ "verify" \in Features
    /\ walk.pc = "idle"
    /\ walk' = [pc |-> "head", at |-> 0, hash |-> NoHash]
    /\ UNCHANGED <<rows, hw, written, epoch, missing, pruner, anchorer, alarm, observer>>

\* verify_chain reads the next page after its cursor and checks its links;
\* the first row of all is taken at its word.  A short page is the last.
\* The rows after the cursor are a suffix of the table.
VerifyPage ==
    /\ walk.pc \in {"head", "walk"}
    /\ \E n \in 0 .. Len(rows) :
          /\ \A i \in 1 .. n : rows[i].at <= walk.at
          /\ \A i \in (n + 1) .. Len(rows) : rows[i].at > walk.at
          /\ LET short == Len(rows) - n < PageSize
                 last  == IF short THEN Len(rows) ELSE n + PageSize
                 bad   == \E i \in (n + 1) .. last :
                             /\ ~(i = n + 1 /\ walk.pc = "head")
                             /\ rows[i].prev # (IF i = n + 1 THEN walk.hash ELSE rows[i - 1].hash)
             IN /\ alarm' = (alarm \/ bad)
                /\ walk' = IF bad \/ short
                           THEN [walk EXCEPT !.pc = IF bad THEN "idle" ELSE "check"]
                           ELSE [pc |-> "walk", at |-> rows[last].at, hash |-> rows[last].hash]
    /\ UNCHANGED <<rows, hw, written, epoch, missing, pruner, anchorer, observer>>

\* ... and then compares the high-water row with the live count.
VerifyHighWater ==
    /\ walk.pc = "check"
    /\ alarm' = (alarm \/ ~HighWaterOk)
    /\ walk' = [walk EXCEPT !.pc = "idle"]
    /\ UNCHANGED <<rows, hw, written, epoch, missing, pruner, anchorer, observer>>

\* Rows at either end of the table vanish without this code's doing.
LoseRows ==
    /\ "outofband" \in Features
    /\ \E i, j \in 1 .. (Len(rows) + 1) :
          /\ i <= j /\ j - i < Len(rows)
          /\ rows' = SubSeq(rows, i, j - 1)
          /\ missing' = missing + Len(rows) - (j - i)
    /\ UNCHANGED <<hw, written, epoch, pruner, anchorer, walk, alarm, observer>>

Next ==
    \/ \E now \in 1 .. MaxClock : \/ LogAction(now)
                                  \/ \E cutoff \in 1 .. now : Prune(now, cutoff)
                                  \/ Reanchor(now)
    \/ Heartbeat \/ EmitAnchor
    \/ ReanchorCount \/ ReanchorLoad \/ ReanchorWrite
    \/ StartVerify \/ VerifyPage \/ VerifyHighWater
    \/ LoseRows

Spec == Init /\ [][Next]_vars

-----------------------------------------------------------------------------
Rows == [id : Nat, at : Nat, prev : Nat \X Nat, hash : Nat \X Nat]
HighWaters == [present : BOOLEAN, count : Nat, head : Nat \X Nat, sig : Nat \X (Nat \X Nat)]

\* The shapes of the two tables and of the four parties' local state.
TypeOK ==
    /\ rows \in Seq(Rows)
    /\ hw \in HighWaters
    /\ written \in 0 .. MaxRows
    /\ epoch \in Nat
    /\ missing \in Nat
    /\ pruner \in [pc : {"idle", "emit"}, deleted : Nat]
    /\ anchorer.pc \in {"idle", "count", "load", "write"}
    /\ walk \in [pc : {"idle", "head", "walk", "check"}, at : Nat, hash : Nat \X Nat]
    /\ alarm \in BOOLEAN
    /\ observer \in [count : Nat \cup {NoCount}, alarm : BOOLEAN]

\* Whatever the clock does and whichever rows are pruned, re-anchored or
\* lost, the table read in created_at order is one chain: the times increase
\* strictly and every row but the first links to the one before it.
ChainIntact ==
    /\ Linked(rows)
    /\ \A i, j \in 1 .. Len(rows) : i < j => rows[i].at < rows[j].at

\* The high-water row verifies, and it counts exactly the rows the table
\* would have had nothing been removed behind the code's back: so such a
\* loss stays visible to check_high_water whatever is appended afterwards.
HighWaterExact ==
    /\ SignatureValid(hw)
    /\ hw.present => hw.count = Len(rows) + missing

\* Verification (by the retention task or by an operator) reports a broken
\* chain only when rows have been removed out of band.
NoFalseAlarm == alarm => missing > 0

\* The receiver of the anchors sees count_now < count_prev - deleted_now
\* only when rows have been removed out of band.
ObserverNotMisled == observer.alarm => missing > 0
=============================================================================
