-------------------------- MODULE AuditChain_proofs --------------------------
(***************************************************************************)
(* What the audit log guarantees for every page size, table size and       *)
(* clock: the table is one chain whatever runs, and as long as nobody      *)
(* re-anchors the high-water row is exact, so the retention task never     *)
(* reports a loss that did not happen and never prunes over one that did.  *)
(***************************************************************************)
EXTENDS AuditChain, SequenceTheorems, TLAPS

Ordered(rs) == \A i, j \in 1 .. Len(rs) : i < j => rs[i].at < rs[j].at

Chain(rs) == Linked(rs) /\ Ordered(rs)

\* The columns of a row.
LEMMA RowTypes ==
    ASSUME NEW row \in Rows
    PROVE  row.id \in Nat /\ row.at \in Nat /\ row.hash \in Nat \X Nat
  BY DEF Rows

\* A row from its columns.
LEMMA RowOf ==
    ASSUME NEW i \in Nat, NEW t \in Nat, NEW p \in Nat \X Nat, NEW h \in Nat \X Nat
    PROVE  [id |-> i, at |-> t, prev |-> p, hash |-> h] \in Rows
  BY DEF Rows

\* A contiguous part of a chain is a chain: pruning and losing rows at the
\* ends of the table break no link.
LEMMA PartOfChain ==
    ASSUME NEW rs \in Seq(Rows), Chain(rs),
           NEW m \in 1 .. Len(rs) + 1, NEW n \in m - 1 .. Len(rs)
    PROVE  /\ SubSeq(rs, m, n) \in Seq(Rows)
           /\ Len(SubSeq(rs, m, n)) = n - m + 1
           /\ Chain(SubSeq(rs, m, n))
<1> DEFINE part == SubSeq(rs, m, n)
<1>0. Len(rs) \in Nat /\ m \in Int /\ n \in Int /\ m >= 1 /\ m <= n + 1 /\ n <= Len(rs)
  BY LenProperties
<1>1. /\ part \in Seq(Rows)
      /\ Len(part) = n - m + 1
      /\ \A i \in 1 .. n - m + 1 : part[i] = rs[m + i - 1]
  <2>1. \A i \in m .. n : rs[i] \in Rows
    BY <1>0
  <2> QED
    BY <1>0, <2>1, SubSeqProperties
<1> HIDE DEF part
<1>2. Linked(part)
  <2> SUFFICES ASSUME NEW i \in 2 .. Len(part) PROVE part[i].prev = part[i - 1].hash
    BY DEF Linked
  <2>1. /\ part[i] = rs[m + i - 1]
        /\ part[i - 1] = rs[m + i - 2]
        /\ m + i - 1 \in 2 .. Len(rs)
        /\ (m + i - 1) - 1 = m + i - 2
    BY <1>0, <1>1
  <2> QED
    BY <2>1 DEF Chain, Linked
<1>3. Ordered(part)
  <2> SUFFICES ASSUME NEW i \in 1 .. Len(part), NEW j \in 1 .. Len(part), i < j
               PROVE  part[i].at < part[j].at
    BY DEF Ordered
  <2>1. /\ part[i] = rs[m + i - 1] /\ m + i - 1 \in 1 .. Len(rs)
        /\ part[j] = rs[m + j - 1] /\ m + j - 1 \in 1 .. Len(rs)
        /\ m + i - 1 < m + j - 1
    BY <1>0, <1>1
  <2> QED
    BY SMTT(30), <2>1 DEF Chain, Ordered
<1> QED
  BY <1>1, <1>2, <1>3 DEF Chain, part

\* A row stamped after the last one and linked to it extends the chain.
LEMMA ExtendChain ==
    ASSUME NEW rs \in Seq(Rows), Chain(rs), NEW row \in Rows,
           row.prev = LastHash(rs),
           rs # <<>> => rs[Len(rs)].at < row.at
    PROVE  Append(rs, row) \in Seq(Rows) /\ Chain(Append(rs, row))
<1> DEFINE longer == Append(rs, row)
<1>1. /\ longer \in Seq(Rows)
      /\ Len(longer) = Len(rs) + 1
      /\ \A i \in 1 .. Len(rs) : longer[i] = rs[i]
      /\ longer[Len(rs) + 1] = row
      /\ Len(rs) \in Nat
      /\ \A i \in 1 .. Len(rs) : rs[i] \in Rows
      /\ Len(rs) >= 1 => rs # <<>>
  OBVIOUS
<1> HIDE DEF longer
<1>2. Linked(longer)
  <2> SUFFICES ASSUME NEW i \in 2 .. Len(longer) PROVE longer[i].prev = longer[i - 1].hash
    BY DEF Linked
  <2>1. CASE i \in 2 .. Len(rs)
    <3>1. longer[i] = rs[i] /\ longer[i - 1] = rs[i - 1]
      BY <1>1, <2>1
    <3> QED
      BY <2>1, <3>1 DEF Chain, Linked
  <2>2. CASE i = Len(rs) + 1
    <3>1. rs # <<>> /\ longer[i - 1] = rs[Len(rs)]
      BY <1>1, <2>2
    <3> QED
      BY <1>1, <2>2, <3>1 DEF LastHash
  <2> QED
    BY <1>1, <2>1, <2>2
<1>3. Ordered(longer)
  <2> SUFFICES ASSUME NEW i \in 1 .. Len(longer), NEW j \in 1 .. Len(longer), i < j
               PROVE  longer[i].at < longer[j].at
    BY DEF Ordered
  <2>1. CASE j \in 1 .. Len(rs)
    <3>1. longer[i] = rs[i] /\ longer[j] = rs[j] /\ i \in 1 .. Len(rs)
      BY <1>1, <2>1
    <3> QED
      BY <2>1, <3>1 DEF Chain, Ordered
  <2>2. CASE j = Len(rs) + 1
    <3>1. i \in 1 .. Len(rs) /\ Len(rs) \in 1 .. Len(rs) /\ rs # <<>>
      BY <1>1, <2>2
    <3>2. rs[i].at \in Nat /\ rs[Len(rs)].at \in Nat /\ row.at \in Nat
      BY <1>1, <3>1, RowTypes
    <3>3. i = Len(rs) \/ rs[i].at < rs[Len(rs)].at
      BY <1>1, <3>1 DEF Chain, Ordered
    <3>4. longer[i] = rs[i] /\ longer[j] = row
      BY <1>1, <2>2, <3>1
    <3> QED
      BY <3>1, <3>2, <3>3, <3>4
  <2> QED
    BY <1>1, <2>1, <2>2
<1> QED
  BY <1>1, <1>2, <1>3 DEF Chain, longer

\* _finalize_entry's row is such a row, whatever the clock says.
LEMMA NewRowExtends ==
    ASSUME NEW rs \in Seq(Rows), NEW now \in Nat, written \in Nat, epoch \in Nat
    PROVE  /\ NewRow(rs, now) \in Rows
           /\ NewRow(rs, now).prev = LastHash(rs)
           /\ NewRow(rs, now).hash = <<written + 1, epoch>>
           /\ rs # <<>> => rs[Len(rs)].at < NewRow(rs, now).at
<1>1. rs # <<>> => rs[Len(rs)] \in Rows
  OBVIOUS
<1>2. rs # <<>> => rs[Len(rs)].at \in Nat /\ rs[Len(rs)].hash \in Nat \X Nat
  BY <1>1, RowTypes
<1>3. LastHash(rs) \in Nat \X Nat
  BY <1>2 DEF LastHash, NoHash
<1> DEFINE stamp == IF rs # <<>> /\ now <= rs[Len(rs)].at THEN rs[Len(rs)].at + 1 ELSE now
<1>4. stamp \in Nat /\ (rs # <<>> => rs[Len(rs)].at < stamp)
  BY SMTT(30), <1>2
<1>5. NewRow(rs, now) = [id |-> written + 1, at |-> stamp, prev |-> LastHash(rs),
                         hash |-> <<written + 1, epoch>>]
  BY DEF NewRow
<1> HIDE DEF stamp
<1> QED
  BY <1>3, <1>4, <1>5 DEF Rows

(***************************************************************************)
(* One chain.                                                              *)
(***************************************************************************)

ChainInv ==
    /\ rows \in Seq(Rows)
    /\ written \in Nat
    /\ epoch \in Nat
    /\ Chain(rows)

\* An append, a prune with its anchor entry, a re-anchoring and a loss at
\* the ends each leave one chain.
LEMMA ChainStep ==
    ASSUME ChainInv, [Next]_vars
    PROVE  ChainInv'
<1> USE DEF ChainInv
<1>0. \A now \in 1 .. MaxClock : now \in Nat
  BY AuditAssumption
<1>1. ASSUME NEW now \in 1 .. MaxClock, LogAction(now) PROVE ChainInv'
  <2>1. rows' = Append(rows, NewRow(rows, now)) /\ written' = written + 1 /\ epoch' = epoch
    BY <1>1 DEF LogAction
  <2>2. Append(rows, NewRow(rows, now)) \in Seq(Rows) /\ Chain(Append(rows, NewRow(rows, now)))
    BY <1>0, NewRowExtends, ExtendChain
  <2> QED
    BY <2>1, <2>2
<1>2. ASSUME NEW now \in 1 .. MaxClock, NEW cutoff \in 1 .. now, Prune(now, cutoff)
      PROVE  ChainInv'
  <2>1. CASE UNCHANGED <<rows, written>>
    BY <1>2, <2>1 DEF Prune
  <2>2. ASSUME NEW n \in 0 .. Len(rows),
               \/ /\ rows' = Append(SubSeq(rows, n + 1, Len(rows)),
                                    NewRow(SubSeq(rows, n + 1, Len(rows)), now))
                  /\ written' = written + 1
               \/ /\ rows' = SubSeq(rows, n + 1, Len(rows))
                  /\ UNCHANGED written
        PROVE  ChainInv'
    <3> DEFINE kept == SubSeq(rows, n + 1, Len(rows))
    <3>0. n + 1 \in 1 .. Len(rows) + 1 /\ Len(rows) \in (n + 1) - 1 .. Len(rows)
      BY LenProperties
    <3>1. kept \in Seq(Rows) /\ Chain(kept)
      BY <3>0, PartOfChain
    <3> HIDE DEF kept
    <3>2. Append(kept, NewRow(kept, now)) \in Seq(Rows) /\ Chain(Append(kept, NewRow(kept, now)))
      BY <1>0, <3>1, NewRowExtends, ExtendChain
    <3>3. epoch' = epoch
      BY <1>2 DEF Prune
    <3>4. \/ rows' = Append(kept, NewRow(kept, now)) /\ written' = written + 1
          \/ rows' = kept /\ written' = written
      BY SMTT(30), <2>2 DEF kept
    <3>5. CASE rows' = Append(kept, NewRow(kept, now)) /\ written' = written + 1
      BY <3>2, <3>3, <3>5
    <3>6. CASE rows' = kept /\ written' = written
      BY <3>1, <3>3, <3>6
    <3> QED
      BY <3>4, <3>5, <3>6
  <2> QED
    BY Zenon, <1>2, <2>1, <2>2 DEF Prune
<1>3. ASSUME NEW now \in 1 .. MaxClock, Reanchor(now) PROVE ChainInv'
  <2> DEFINE dangling == rows # <<>> /\ rows[1].prev # NoHash
             e        == IF dangling THEN epoch + 1 ELSE epoch
             fresh    == [i \in 1 .. Len(rows) |->
                            [id   |-> rows[i].id,
                             at   |-> rows[i].at,
                             prev |-> IF i = 1 THEN NoHash ELSE <<rows[i - 1].id, e>>,
                             hash |-> <<rows[i].id, e>>]]
             relinked == IF ~dangling THEN rows ELSE fresh
             row      == [NewRow(relinked, now) EXCEPT !.hash = <<written + 1, e>>]
  <2>1. /\ rows' = Append(relinked, row)
        /\ epoch' = e
        /\ written' = written + 1
    BY <1>3 DEF Reanchor
  <2>2. e \in Nat
    OBVIOUS
  <2> HIDE DEF e
  <2>3. fresh \in Seq(Rows) /\ Len(fresh) = Len(rows)
    <3>1. \A i \in 1 .. Len(rows) : rows[i].id \in Nat /\ rows[i].at \in Nat
      <4>1. \A i \in 1 .. Len(rows) : rows[i] \in Rows
        OBVIOUS
      <4> QED
        BY <4>1, RowTypes
    <3>2. ASSUME NEW i \in 1 .. Len(rows) PROVE fresh[i] \in Rows
      <4>1. i # 1 => i - 1 \in 1 .. Len(rows)
        BY LenProperties
      <4> DEFINE back == IF i = 1 THEN NoHash ELSE <<rows[i - 1].id, e>>
      <4>2. back \in Nat \X Nat
        BY <2>2, <3>1, <4>1 DEF NoHash
      <4>3. fresh[i] = [id |-> rows[i].id, at |-> rows[i].at, prev |-> back,
                        hash |-> <<rows[i].id, e>>]
        OBVIOUS
      <4> HIDE DEF back, fresh
      <4> QED
        BY <2>2, <3>1, <4>2, <4>3, RowOf
    <3> QED
      BY <3>2, LenProperties
  <2>4. Chain(fresh)
    <3>1. \A i \in 1 .. Len(rows) :
             /\ fresh[i].at = rows[i].at
             /\ fresh[i].hash = <<rows[i].id, e>>
             /\ i # 1 => fresh[i].prev = <<rows[i - 1].id, e>>
      OBVIOUS
    <3> HIDE DEF fresh
    <3>2. Linked(fresh)
      <4> SUFFICES ASSUME NEW i \in 2 .. Len(fresh) PROVE fresh[i].prev = fresh[i - 1].hash
        BY DEF Linked
      <4>1. i \in 1 .. Len(rows) /\ i # 1 /\ i - 1 \in 1 .. Len(rows)
        BY <2>3, LenProperties
      <4> QED
        BY Zenon, <3>1, <4>1
    <3>3. Ordered(fresh)
      BY <2>3, <3>1 DEF Chain, Ordered
    <3> QED
      BY <3>2, <3>3 DEF Chain
  <2> HIDE DEF fresh
  <2>5. relinked \in Seq(Rows) /\ Chain(relinked)
    BY <2>3, <2>4
  <2> HIDE DEF relinked
  <2>6. /\ row \in Rows
        /\ row.prev = LastHash(relinked)
        /\ relinked # <<>> => relinked[Len(relinked)].at < row.at
    BY SMTT(30), <1>0, <2>2, <2>5, NewRowExtends DEF Rows
  <2> HIDE DEF row
  <2>7. Append(relinked, row) \in Seq(Rows) /\ Chain(Append(relinked, row))
    BY <2>5, <2>6, ExtendChain
  <2> QED
    BY <2>1, <2>2, <2>7
<1>4. CASE LoseRows
  <2>1. PICK i \in 1 .. (Len(rows) + 1), j \in 1 .. (Len(rows) + 1) :
           i <= j /\ rows' = SubSeq(rows, i, j - 1)
    BY <1>4 DEF LoseRows
  <2>2. j - 1 \in i - 1 .. Len(rows)
    BY <2>1, LenProperties
  <2> QED
    BY <1>4, <2>1, <2>2, PartOfChain DEF LoseRows
<1>5. CASE UNCHANGED <<rows, written, epoch>>
  BY <1>5
<1> QED
  BY Zenon, <1>1, <1>2, <1>3, <1>4, <1>5
     DEF Next, vars, Heartbeat, EmitAnchor, ReanchorCount, ReanchorLoad, ReanchorWrite,
         StartVerify, VerifyPage, VerifyHighWater

\* An empty table is a chain.
LEMMA ChainInit == Init => ChainInv
<1> SUFFICES ASSUME Init PROVE ChainInv
  OBVIOUS
<1>1. rows = <<>> /\ written = 0 /\ epoch = 0
  BY DEF Init
<1>2. rows \in Seq(Rows) /\ Len(rows) = 0
  BY <1>1
<1>3. Chain(rows)
  BY <1>1, <1>2 DEF Chain, Linked, Ordered
<1> QED
  BY <1>1, <1>2, <1>3 DEF ChainInv

\* The audit table, read in created_at order, is one chain, whichever of
\* appends, prunes, re-anchorings, verifications and losses at its ends
\* occur, and however the clock steps.
THEOREM ChainStaysIntact == Spec => []ChainIntact
<1>1. Init => ChainInv
  BY ChainInit
<1>2. ChainInv /\ [Next]_vars => ChainInv'
  BY ChainStep
<1>3. ChainInv => ChainIntact
  BY DEF ChainInv, Chain, Ordered, ChainIntact
<1> QED
  BY <1>1, <1>2, <1>3, PTL DEF Spec

(***************************************************************************)
(* The high-water row.                                                     *)
(***************************************************************************)

\* HighWaterExact is inductive with the chain (a prune runs only over a
\* chain that verifies), with the emptiness of a table that has no
\* high-water row yet, and without re-anchoring.
Exact(h, n, lost) ==
    /\ h \in HighWaters
    /\ SignatureValid(h)
    /\ h.present => h.count = n + lost
    /\ ~h.present => n = 0 /\ lost = 0

HighWaterInv ==
    /\ ChainInv
    /\ missing \in Nat
    /\ Exact(hw, Len(rows), missing)
    /\ anchorer.pc = "idle"

\* Recording count c gives an exact row for c rows and no loss.
LEMMA RecordExact ==
    ASSUME NEW c \in Nat, NEW n \in Nat, NEW lost \in Nat, c = n + lost,
           NEW head \in Nat \X Nat
    PROVE  Exact(Record(c, head), n, lost)
<1>1. (IF c < 0 THEN 0 ELSE c) = c
  OBVIOUS
<1>2. Record(c, head) = [present |-> TRUE, count |-> c, head |-> head, sig |-> <<c, head>>]
  BY <1>1, Zenon DEF Record
<1>3. Record(c, head) \in HighWaters
  <2>1. ASSUME NEW b \in BOOLEAN, NEW s \in Nat \X (Nat \X Nat)
        PROVE  [present |-> b, count |-> c, head |-> head, sig |-> s] \in HighWaters
    BY DEF HighWaters
  <2>2. TRUE \in BOOLEAN /\ <<c, head>> \in Nat \X (Nat \X Nat)
    OBVIOUS
  <2> QED
    BY <1>2, <2>1, <2>2, Zenon
<1>4. Record(c, head).sig = <<Record(c, head).count, Record(c, head).head>>
  BY <1>2
<1>5. Record(c, head).present = TRUE /\ Record(c, head).count = n + lost
  BY <1>2
<1> QED
  BY <1>3, <1>4, <1>5 DEF Exact, SignatureValid

\* An append advances an exact row to an exact row.
LEMMA BumpExact ==
    ASSUME NEW h, NEW n \in Nat, NEW lost \in Nat, NEW head \in Nat \X Nat,
           Exact(h, n, lost)
    PROVE  Exact(Bump(h, n + 1, head), n + 1, lost)
<1>1. CASE h.present
  <2>1. Bump(h, n + 1, head) = Record(h.count + 1, head)
    BY <1>1, Zenon DEF Bump, Exact
  <2>2. h.count + 1 = (n + 1) + lost /\ h.count + 1 \in Nat /\ n + 1 \in Nat
    BY <1>1 DEF Exact
  <2>3. Exact(Record(h.count + 1, head), n + 1, lost)
    BY <2>2, RecordExact
  <2> QED
    BY <2>1, <2>3
<1>2. CASE ~h.present
  <2>1. Bump(h, n + 1, head) = Record(n + 1, head)
    BY <1>2, Zenon DEF Bump
  <2>2. n + 1 = (n + 1) + lost /\ n + 1 \in Nat
    BY <1>2 DEF Exact
  <2>3. Exact(Record(n + 1, head), n + 1, lost)
    BY <2>2, RecordExact
  <2> QED
    BY <2>1, <2>3
<1> QED
  BY <1>1, <1>2

\* Deleting d rows and lowering the count by d keeps an exact row exact.
LEMMA LowerExact ==
    ASSUME NEW h, NEW n \in Nat, NEW d \in 0 .. n, h.present, Exact(h, n, 0)
    PROVE  Exact(Record(h.count - d, h.head), n - d, 0)
<1>1. h.head \in Nat \X Nat
  BY DEF Exact, HighWaters
<1>2. h.count - d \in Nat /\ n - d \in Nat /\ h.count - d = (n - d) + 0
  BY DEF Exact
<1> QED
  BY <1>1, <1>2, RecordExact

\* The inductive step.
LEMMA HighWaterStep ==
    ASSUME "reanchor" \notin Features, HighWaterInv, [Next]_vars
    PROVE  HighWaterInv'
<1>1. ChainInv'
  BY ChainStep DEF HighWaterInv
<1>2. /\ rows \in Seq(Rows)
      /\ Len(rows) \in Nat
      /\ written \in Nat
      /\ epoch \in Nat
      /\ missing \in Nat
      /\ Chain(rows)
      /\ Exact(hw, Len(rows), missing)
      /\ anchorer.pc = "idle"
  BY LenProperties DEF HighWaterInv, ChainInv
<1> SUFFICES /\ missing' \in Nat
             /\ Exact(hw', Len(rows'), missing')
             /\ anchorer'.pc = "idle"
  BY <1>1 DEF HighWaterInv
<1> DEFINE Goal == missing' \in Nat /\ Exact(hw', Len(rows'), missing') /\ anchorer'.pc = "idle"
<1>0. ASSUME NEW rs \in Seq(Rows), NEW now \in 1 .. MaxClock PROVE NewRow(rs, now).hash \in Nat \X Nat
  <2>1. now \in Nat
    BY AuditAssumption
  <2> QED
    BY <1>2, <2>1, NewRowExtends, RowTypes
<1>3. ASSUME NEW now \in 1 .. MaxClock, LogAction(now) PROVE Goal
  <2>1. /\ hw' = Bump(hw, Len(rows) + 1, NewRow(rows, now).hash)
        /\ rows' = Append(rows, NewRow(rows, now))
        /\ UNCHANGED <<missing, anchorer>>
    BY <1>3 DEF LogAction
  <2>2. Len(rows') = Len(rows) + 1
    BY <1>2, <2>1
  <2>3. Exact(Bump(hw, Len(rows) + 1, NewRow(rows, now).hash), Len(rows) + 1, missing)
    BY Zenon, <1>0, <1>2, BumpExact
  <2> QED
    BY <1>2, <2>1, <2>2, <2>3
<1>4. ASSUME NEW now \in 1 .. MaxClock, NEW cutoff \in 1 .. now, Prune(now, cutoff)
      PROVE  Goal
  <2>0. UNCHANGED <<missing, anchorer>>
    BY <1>4 DEF Prune
  <2>1. CASE UNCHANGED <<rows, hw>>
    BY <1>2, <2>0, <2>1
  <2>2. ASSUME HighWaterOk,
               NEW n \in 0 .. Len(rows), NEW kept, NEW lowered,
               kept = SubSeq(rows, n + 1, Len(rows)),
               lowered = (IF n > 0 /\ hw.present /\ SignatureValid(hw)
                          THEN Record(hw.count - n, hw.head) ELSE hw),
               \/ /\ rows' = Append(kept, NewRow(kept, now))
                  /\ hw' = Bump(lowered, Len(kept) + 1, NewRow(kept, now).hash)
               \/ rows' = kept /\ hw' = lowered
        PROVE  Goal
    <3>1. kept \in Seq(Rows) /\ Len(kept) = Len(rows) - n /\ Len(kept) \in Nat
      <4>1. n + 1 \in 1 .. Len(rows) + 1 /\ Len(rows) \in (n + 1) - 1 .. Len(rows)
        BY <1>2
      <4>2. kept \in Seq(Rows) /\ Len(kept) = Len(rows) - (n + 1) + 1
        BY <1>2, <2>2, <4>1, PartOfChain
      <4> QED
        BY <1>2, <4>2
    <3>2. missing = 0
      <4>1. hw.present => Len(rows) >= Len(rows) + missing
        BY <1>2, <2>2 DEF HighWaterOk, Exact
      <4>2. ~hw.present => missing = 0
        BY <1>2 DEF Exact
      <4> QED
        BY <1>2, <4>1, <4>2
    <3>3. Exact(lowered, Len(kept), 0)
      <4>1. CASE n > 0 /\ hw.present
        <5>1. lowered = Record(hw.count - n, hw.head)
          BY <1>2, <2>2, <4>1 DEF Exact
        <5>2. Exact(Record(hw.count - n, hw.head), Len(rows) - n, 0)
          BY <1>2, <3>2, <4>1, LowerExact
        <5> QED
          BY <3>1, <5>1, <5>2
      <4>2. CASE ~(n > 0 /\ hw.present)
        <5>1. lowered = hw
          BY <2>2, <4>2
        <5>2. ~hw.present => Len(rows) = 0
          BY <1>2 DEF Exact
        <5>3. Len(kept) = Len(rows)
          BY <1>2, <3>1, <4>2, <5>2
        <5> QED
          BY <1>2, <3>2, <5>1, <5>3
      <4> QED
        BY <4>1, <4>2
    <3>4. CASE rows' = kept /\ hw' = lowered
      BY <1>2, <2>0, <3>2, <3>3, <3>4
    <3>5. CASE /\ rows' = Append(kept, NewRow(kept, now))
               /\ hw' = Bump(lowered, Len(kept) + 1, NewRow(kept, now).hash)
      <4>1. Len(rows') = Len(kept) + 1
        BY <3>1, <3>5
      <4>2. Exact(Bump(lowered, Len(kept) + 1, NewRow(kept, now).hash), Len(kept) + 1, 0)
        BY Zenon, <1>0, <3>1, <3>3, BumpExact
      <4> QED
        BY <1>2, <2>0, <3>2, <3>5, <4>1, <4>2
    <3> QED
      BY <2>2, <3>4, <3>5
  <2> HIDE DEF Goal
  <2> QED
    BY Zenon, <1>4, <2>1, <2>2 DEF Prune
<1>5. CASE LoseRows
  <2>1. PICK i \in 1 .. (Len(rows) + 1), j \in 1 .. (Len(rows) + 1) :
           /\ i <= j /\ j - i < Len(rows)
           /\ rows' = SubSeq(rows, i, j - 1)
           /\ missing' = missing + Len(rows) - (j - i)
    BY <1>5 DEF LoseRows
  <2>2. UNCHANGED <<hw, anchorer>>
    BY <1>5 DEF LoseRows
  <2>3. Len(rows') = j - i
    <3>1. j - 1 \in i - 1 .. Len(rows)
      BY <1>2, <2>1
    <3>2. Len(SubSeq(rows, i, j - 1)) = (j - 1) - i + 1
      BY <1>2, <3>1, PartOfChain
    <3> QED
      BY <1>2, <2>1, <3>2
  <2>4. /\ missing' \in Nat
        /\ Len(rows) + missing = Len(rows') + missing'
        /\ Len(rows) # 0
    BY <1>2, <2>1, <2>3
  <2>5. Exact(hw, Len(rows'), missing')
    BY <1>2, <2>4 DEF Exact
  <2> QED
    BY <1>2, <2>2, <2>4, <2>5
<1>6. CASE UNCHANGED <<rows, hw, missing, anchorer>>
  BY <1>2, <1>6
<1>7. ~\E now \in 1 .. MaxClock : Reanchor(now)
  BY Zenon DEF Reanchor
<1>8. ~(ReanchorCount \/ ReanchorLoad \/ ReanchorWrite)
  BY <1>2 DEF ReanchorCount, ReanchorLoad, ReanchorWrite
<1>9. CASE \/ Heartbeat \/ EmitAnchor \/ StartVerify \/ VerifyPage \/ VerifyHighWater
           \/ UNCHANGED vars
  BY Zenon, <1>6, <1>9 DEF vars, Heartbeat, EmitAnchor, StartVerify, VerifyPage, VerifyHighWater
<1> QED
  BY <1>3, <1>4, <1>5, <1>7, <1>8, <1>9 DEF Next

\* The initial table is empty and has no high-water row.
LEMMA HighWaterInit == Init => HighWaterInv
<1> SUFFICES ASSUME Init PROVE HighWaterInv
  OBVIOUS
<1>1. ChainInv
  BY ChainInit
<1>2. hw \in HighWaters /\ SignatureValid(hw) /\ ~hw.present
  BY DEF Init, HighWaters, NoHash, SignatureValid
<1>3. Len(rows) = 0 /\ missing = 0 /\ anchorer.pc = "idle"
  BY DEF Init
<1> QED
  BY <1>1, <1>2, <1>3 DEF HighWaterInv, Exact

\* Without re-anchoring, the signed count is always the number of rows the
\* table would have if none had been removed out of band.
THEOREM HighWaterIsExact ==
    ASSUME "reanchor" \notin Features
    PROVE  Spec => []HighWaterExact
<1>1. Init => HighWaterInv
  BY HighWaterInit
<1>2. HighWaterInv /\ [Next]_vars => HighWaterInv'
  BY HighWaterStep
<1>3. HighWaterInv => HighWaterExact
  BY DEF HighWaterInv, Exact, HighWaterExact
<1> QED
  BY <1>1, <1>2, <1>3, PTL DEF Spec

\* Rows are missing only more and more.
LEMMA MissingGrows ==
    ASSUME "reanchor" \notin Features, HighWaterInv, [Next]_vars
    PROVE  missing' \in Nat /\ missing' >= missing /\ (LoseRows => missing' > 0)
<1>1. missing \in Nat /\ missing' \in Nat /\ Len(rows) \in Nat /\ anchorer.pc = "idle"
  BY HighWaterStep, LenProperties DEF HighWaterInv, ChainInv
<1>2. CASE LoseRows
  <2>1. PICK i \in 1 .. (Len(rows) + 1), j \in 1 .. (Len(rows) + 1) :
           /\ i <= j /\ j - i < Len(rows)
           /\ missing' = missing + Len(rows) - (j - i)
    BY <1>2 DEF LoseRows
  <2> QED
    BY <1>1, <2>1
<1>3. CASE ~LoseRows
  <2>1. missing' = missing
    BY Zenon, <1>1, <1>3
       DEF Next, vars, LogAction, Prune, Reanchor, Heartbeat, EmitAnchor, ReanchorCount, ReanchorLoad,
           ReanchorWrite, StartVerify, VerifyPage, VerifyHighWater
  <2> QED
    BY <1>1, <1>3, <2>1
<1> QED
  BY <1>2, <1>3

(***************************************************************************)
(* Alarms of verify_chain.                                                 *)
(***************************************************************************)

\* While nothing is missing, the cursor of a verification between two pages
\* is a row of the table.  A prune would take that row away.
CursorInv == walk.pc = "walk" /\ missing = 0 =>
                 \E i \in 1 .. Len(rows) : walk.at = rows[i].at /\ walk.hash = rows[i].hash

AlarmInv ==
    /\ HighWaterInv
    /\ NoFalseAlarm
    /\ walk.pc \in {"idle", "head", "walk", "check"}
    /\ "verify" \notin Features => walk.pc = "idle"
    /\ CursorInv

\* A chain with an exact high-water row from which nothing is missing passes.
LEMMA ExactPasses ==
    ASSUME HighWaterInv, missing = 0
    PROVE  Linked(rows) /\ HighWaterOk
<1>1. Len(rows) \in Nat
  BY LenProperties DEF HighWaterInv, ChainInv
<1> QED
  BY <1>1 DEF HighWaterInv, ChainInv, Chain, Exact, HighWaterOk

\* The next page, read while nothing is missing, continues the chain, and the
\* new cursor is a row of the table.
LEMMA PageContinues ==
    ASSUME AlarmInv, VerifyPage, missing = 0
    PROVE  (alarm' => alarm) /\ CursorInv'
<1>1. /\ rows \in Seq(Rows) /\ Len(rows) \in Nat /\ PageSize \in Nat /\ PageSize >= 1
      /\ Linked(rows) /\ Ordered(rows)
      /\ \A i \in 1 .. Len(rows) : rows[i] \in Rows
  BY LenProperties, AuditAssumption DEF AlarmInv, HighWaterInv, ChainInv, Chain
<1>2. \A i \in 1 .. Len(rows) : rows[i].at \in Nat
  BY <1>1, RowTypes
<1>3. PICK n \in 0 .. Len(rows) :
         /\ \A i \in 1 .. n : rows[i].at <= walk.at
         /\ \A i \in (n + 1) .. Len(rows) : rows[i].at > walk.at
         /\ LET short == Len(rows) - n < PageSize
                last  == IF short THEN Len(rows) ELSE n + PageSize
                bad   == \E i \in (n + 1) .. last :
                            /\ ~(i = n + 1 /\ walk.pc = "head")
                            /\ rows[i].prev # (IF i = n + 1 THEN walk.hash ELSE rows[i - 1].hash)
            IN /\ alarm' = (alarm \/ bad)
               /\ walk' = IF bad \/ short
                          THEN [walk EXCEPT !.pc = IF bad THEN "idle" ELSE "check"]
                          ELSE [pc |-> "walk", at |-> rows[last].at, hash |-> rows[last].hash]
  BY Zenon DEF VerifyPage
<1> DEFINE short == Len(rows) - n < PageSize
           last  == IF short THEN Len(rows) ELSE n + PageSize
           bad   == \E i \in (n + 1) .. last :
                       /\ ~(i = n + 1 /\ walk.pc = "head")
                       /\ rows[i].prev # (IF i = n + 1 THEN walk.hash ELSE rows[i - 1].hash)
<1>4. last \in n .. Len(rows) /\ (~short => last \in 1 .. Len(rows))
  BY <1>1
<1>5. UNCHANGED <<rows, missing>>
  BY DEF VerifyPage
<1> HIDE DEF short, last
<1>6. ~bad
  <2> SUFFICES ASSUME NEW i \in (n + 1) .. last, ~(i = n + 1 /\ walk.pc = "head")
               PROVE  rows[i].prev = (IF i = n + 1 THEN walk.hash ELSE rows[i - 1].hash)
    OBVIOUS
  <2>1. i \in 1 .. Len(rows) /\ i \in Nat /\ n \in Nat
    BY <1>1, <1>4
  <2>2. CASE i # n + 1
    <3>1. i \in 2 .. Len(rows)
      BY <1>1, <2>1, <2>2
    <3> QED
      BY <1>1, <2>2, <3>1 DEF Linked
  <2>3. CASE i = n + 1
    <3>1. walk.pc = "walk"
      BY <2>3 DEF VerifyPage
    <3>2. PICK k \in 1 .. Len(rows) : walk.at = rows[k].at /\ walk.hash = rows[k].hash
      BY <3>1 DEF AlarmInv, CursorInv
    <3>3. k <= n
      <4>1. k \in (n + 1) .. Len(rows) => rows[k].at > rows[k].at
        BY <1>3, <3>2
      <4> QED
        BY <1>1, <1>2, <3>2, <4>1
    <3>4. n \in 1 .. Len(rows) /\ k \in Nat /\ k <= n
      BY <1>1, <3>2, <3>3
    <3>5. rows[n].at <= rows[k].at
      BY <1>3, <3>2, <3>4
    <3>6. k = n
      <4>1. k < n => rows[k].at < rows[n].at
        BY <1>1, <3>2, <3>4 DEF Ordered
      <4> QED
        BY <1>2, <3>2, <3>4, <3>5, <4>1
    <3>7. i \in 2 .. Len(rows) /\ i - 1 = n
      BY <2>1, <2>3, <3>4
    <3>8. rows[i].prev = rows[i - 1].hash
      BY <1>1, <3>7 DEF Linked
    <3> QED
      BY Zenon, <2>3, <3>2, <3>6, <3>7, <3>8
  <2> QED
    BY <2>2, <2>3
<1>7. /\ alarm' = (alarm \/ bad)
      /\ walk' = IF bad \/ short
                 THEN [walk EXCEPT !.pc = IF bad THEN "idle" ELSE "check"]
                 ELSE [pc |-> "walk", at |-> rows[last].at, hash |-> rows[last].hash]
  BY Zenon, <1>3 DEF short, last
<1>8. CursorInv'
  <2>1. CASE short
    <3>1. walk'.pc # "walk"
      BY <1>6, <1>7, <2>1 DEF VerifyPage
    <3> QED
      BY <3>1 DEF CursorInv
  <2>2. CASE ~short
    BY <1>4, <1>5, <1>6, <1>7, <2>2 DEF CursorInv
  <2> QED
    BY <2>1, <2>2
<1>9. alarm' = (alarm \/ FALSE)
  BY Zenon, <1>6, <1>7
<1> QED
  BY Zenon, <1>8, <1>9

\* The inductive step: the retention task looks at a chain that passes unless
\* rows are missing, and so does every page of a verification that no prune
\* can overtake.
LEMMA AlarmStep ==
    ASSUME "reanchor" \notin Features, ~({"prune", "verify"} \subseteq Features), AlarmInv, [Next]_vars
    PROVE  AlarmInv'
<1>1. HighWaterInv' /\ missing' \in Nat /\ missing' >= missing /\ missing \in Nat
  BY HighWaterStep, MissingGrows DEF AlarmInv, HighWaterInv
<1>2. /\ rows \in Seq(Rows) /\ Len(rows) \in Nat
      /\ anchorer.pc = "idle"
  BY LenProperties DEF AlarmInv, HighWaterInv, ChainInv
<1>3. missing = 0 => Linked(rows) /\ HighWaterOk
  BY ExactPasses DEF AlarmInv
<1>4. ASSUME NEW now \in 1 .. MaxClock, LogAction(now) PROVE AlarmInv'
  <2>1. /\ rows' = Append(rows, NewRow(rows, now))
        /\ UNCHANGED <<walk, alarm, missing>>
    BY <1>4 DEF LogAction
  <2>2. Len(rows') = Len(rows) + 1 /\ \A i \in 1 .. Len(rows) : rows'[i] = rows[i]
    BY <1>2, <2>1
  <2>3. CursorInv'
    <3>1. \A i \in 1 .. Len(rows) : i \in 1 .. Len(rows')
      BY <1>2, <2>2
    <3> QED
      BY Zenon, <2>1, <2>2, <3>1 DEF AlarmInv, CursorInv
  <2> QED
    BY <1>1, <2>1, <2>3 DEF AlarmInv, NoFalseAlarm
<1>5. ASSUME NEW now \in 1 .. MaxClock, NEW cutoff \in 1 .. now, Prune(now, cutoff)
      PROVE  AlarmInv'
  <2>1. "prune" \in Features /\ UNCHANGED <<missing, walk>>
    BY <1>5 DEF Prune
  <2>2. walk.pc = "idle"
    BY <2>1 DEF AlarmInv
  <2>3. alarm' => alarm \/ ~(Linked(rows) /\ HighWaterOk)
    BY Zenon, <1>5 DEF Prune
  <2>4. NoFalseAlarm'
    BY <1>1, <1>3, <2>1, <2>3 DEF AlarmInv, NoFalseAlarm
  <2> QED
    BY <1>1, <2>1, <2>2, <2>4 DEF AlarmInv, CursorInv
<1>6. CASE StartVerify
  <2>1. "verify" \in Features /\ walk'.pc = "head" /\ UNCHANGED <<alarm, missing>>
    BY <1>6 DEF StartVerify
  <2> QED
    BY <1>1, <2>1 DEF AlarmInv, CursorInv, NoFalseAlarm
<1>7. CASE VerifyPage
  <2>1. /\ UNCHANGED <<rows, missing>>
        /\ walk.pc \in {"head", "walk"}
        /\ walk'.pc \in {"idle", "check", "walk"}
    BY <1>7 DEF VerifyPage
  <2>2. "verify" \in Features
    BY <2>1 DEF AlarmInv
  <2>3. CASE missing = 0
    <3>1. (alarm' => alarm) /\ CursorInv'
      BY <1>7, <2>3, PageContinues
    <3> QED
      BY <1>1, <2>1, <2>2, <3>1 DEF AlarmInv, NoFalseAlarm
  <2>4. CASE missing # 0
    BY <1>1, <2>1, <2>2, <2>4 DEF AlarmInv, NoFalseAlarm, CursorInv
  <2> QED
    BY <2>3, <2>4
<1>8. CASE VerifyHighWater
  <2>1. /\ alarm' = (alarm \/ ~HighWaterOk)
        /\ walk'.pc = "idle"
        /\ UNCHANGED missing
    BY <1>8 DEF VerifyHighWater, AlarmInv
  <2>2. alarm' => alarm \/ ~HighWaterOk
    BY Zenon, <2>1
  <2> QED
    BY <1>1, <1>3, <2>1, <2>2 DEF AlarmInv, NoFalseAlarm, CursorInv
<1>9. CASE LoseRows
  <2>1. missing' > 0 /\ UNCHANGED <<walk, alarm>>
    BY <1>9, MissingGrows DEF LoseRows, AlarmInv
  <2> QED
    BY <1>1, <2>1 DEF AlarmInv, NoFalseAlarm, CursorInv
<1>10. CASE UNCHANGED <<rows, missing, walk, alarm>>
  BY <1>1, <1>10 DEF AlarmInv, NoFalseAlarm, CursorInv
<1>11. ~\E now \in 1 .. MaxClock : Reanchor(now)
  BY Zenon DEF Reanchor
<1>12. ~(ReanchorCount \/ ReanchorLoad \/ ReanchorWrite)
  BY <1>2 DEF ReanchorCount, ReanchorLoad, ReanchorWrite
<1>13. CASE Heartbeat \/ EmitAnchor \/ UNCHANGED vars
  BY Zenon, <1>10, <1>13 DEF Heartbeat, EmitAnchor, vars
<1> QED
  BY <1>4, <1>5, <1>6, <1>7, <1>8, <1>9, <1>11, <1>12, <1>13 DEF Next

\* verify_chain, called by the retention task before it prunes or by an
\* operator, reports a broken chain only when rows were removed out of band:
\* unless a prune may overtake an operator's verification, or somebody
\* re-anchors.
THEOREM AlarmsAreTrue ==
    ASSUME "reanchor" \notin Features, ~({"prune", "verify"} \subseteq Features)
    PROVE  Spec => []NoFalseAlarm
<1>1. Init => AlarmInv
  <2> SUFFICES ASSUME Init PROVE AlarmInv
    OBVIOUS
  <2>1. walk.pc = "idle" /\ alarm = FALSE
    BY DEF Init
  <2> QED
    BY <2>1, HighWaterInit DEF AlarmInv, NoFalseAlarm, CursorInv
<1>2. AlarmInv /\ [Next]_vars => AlarmInv'
  BY AlarmStep
<1>3. AlarmInv => NoFalseAlarm
  BY DEF AlarmInv
<1> QED
  BY <1>1, <1>2, <1>3, PTL DEF Spec

(***************************************************************************)
(* Alarms of the receiver of the anchors.                                  *)
(***************************************************************************)

\* What the receiver holds is covered by the rows that are or ought to be in
\* the table and the deletions it is about to be told of.
ObserverInv ==
    /\ HighWaterInv
    /\ ObserverNotMisled
    /\ pruner.deleted \in Nat
    /\ observer.count \in Int
    /\ pruner.pc = "idle" => observer.count <= Len(rows) + missing
    /\ pruner.pc = "emit" => observer.count <= Len(rows) + missing + pruner.deleted

\* The inductive step: a prune removes as many rows as it will tell of.
LEMMA ObserverStep ==
    ASSUME Features \cap {"reanchor", "lossy"} = {}, ObserverInv, [Next]_vars
    PROVE  ObserverInv'
<1>0. "reanchor" \notin Features /\ "lossy" \notin Features
  OBVIOUS
<1>1. HighWaterInv'
  BY <1>0, HighWaterStep DEF ObserverInv
<1>2. /\ rows \in Seq(Rows)
      /\ Len(rows) \in Nat
      /\ missing \in Nat
      /\ Chain(rows)
      /\ anchorer.pc = "idle"
  BY LenProperties DEF ObserverInv, HighWaterInv, ChainInv
<1>3. Len(rows') \in Nat /\ missing' \in Nat
  BY <1>1, LenProperties DEF HighWaterInv, ChainInv
<1>4. ASSUME NEW now \in 1 .. MaxClock, LogAction(now) PROVE ObserverInv'
  <2>1. Len(rows') = Len(rows) + 1 /\ UNCHANGED <<missing, pruner, observer>>
    BY <1>2, <1>4 DEF LogAction
  <2> QED
    BY <1>1, <1>2, <2>1 DEF ObserverInv, ObserverNotMisled
<1>5. ASSUME NEW now \in 1 .. MaxClock, NEW cutoff \in 1 .. now, Prune(now, cutoff)
      PROVE  ObserverInv'
  <2>0. UNCHANGED <<missing, observer>> /\ pruner.pc = "idle"
    BY <1>5 DEF Prune
  <2>1. CASE ~(Linked(rows) /\ HighWaterOk)
    <3>1. UNCHANGED <<rows, pruner>>
      BY <1>5, <2>1 DEF Prune
    <3> QED
      BY <1>1, <2>0, <3>1 DEF ObserverInv, ObserverNotMisled
  <2>2. CASE Linked(rows) /\ HighWaterOk
    <3>1. PICK n \in 0 .. Len(rows) :
             /\ pruner' = [pc |-> "emit", deleted |-> n]
             /\ \/ rows' = SubSeq(rows, n + 1, Len(rows))
                \/ rows' = Append(SubSeq(rows, n + 1, Len(rows)),
                                  NewRow(SubSeq(rows, n + 1, Len(rows)), now))
      BY <1>5, <2>2 DEF Prune
    <3> DEFINE kept == SubSeq(rows, n + 1, Len(rows))
    <3>2. kept \in Seq(Rows) /\ Len(kept) = Len(rows) - n
      <4>1. n + 1 \in 1 .. Len(rows) + 1 /\ Len(rows) \in (n + 1) - 1 .. Len(rows)
        BY <1>2
      <4>2. kept \in Seq(Rows) /\ Len(kept) = Len(rows) - (n + 1) + 1
        BY <1>2, <4>1, PartOfChain
      <4> QED
        BY <1>2, <4>2
    <3> HIDE DEF kept
    <3>3. rows' = kept \/ rows' = Append(kept, NewRow(kept, now))
      BY <3>1 DEF kept
    <3>4. Len(rows') >= Len(rows) - n
      BY <1>2, <3>2, <3>3
    <3> QED
      BY <1>1, <1>2, <1>3, <2>0, <3>1, <3>4 DEF ObserverInv, ObserverNotMisled
  <2> QED
    BY <2>1, <2>2
<1>6. CASE EmitAnchor
  <2>1. /\ UNCHANGED <<rows, missing>>
        /\ pruner.pc = "emit"
        /\ pruner' = [pc |-> "idle", deleted |-> 0]
        /\ observer' = [count |-> Len(rows),
                        alarm |-> observer.alarm \/ Len(rows) < observer.count - pruner.deleted]
    BY <1>0, <1>6 DEF EmitAnchor
  <2>2. Len(rows) < observer.count - pruner.deleted => missing > 0
    BY <1>2, <2>1 DEF ObserverInv
  <2>3. observer'.alarm => missing > 0
    BY Zenon, <2>1, <2>2 DEF ObserverInv, ObserverNotMisled
  <2> QED
    BY <1>1, <1>2, <2>1, <2>3 DEF ObserverInv, ObserverNotMisled
<1>7. CASE LoseRows
  <2>1. PICK i \in 1 .. (Len(rows) + 1), j \in 1 .. (Len(rows) + 1) :
           /\ i <= j /\ j - i < Len(rows)
           /\ rows' = SubSeq(rows, i, j - 1)
           /\ missing' = missing + Len(rows) - (j - i)
    BY <1>7 DEF LoseRows
  <2>2. UNCHANGED <<observer, pruner>>
    BY <1>7 DEF LoseRows
  <2>3. Len(rows') = j - i
    <3>1. j - 1 \in i - 1 .. Len(rows)
      BY <1>2, <2>1
    <3>2. Len(SubSeq(rows, i, j - 1)) = (j - 1) - i + 1
      BY <1>2, <3>1, PartOfChain
    <3> QED
      BY <1>2, <2>1, <3>2
  <2>4. Len(rows') + missing' = Len(rows) + missing /\ missing' > 0
    <3>1. ASSUME NEW n \in Nat, NEW m \in Nat, NEW k \in Nat, k < n
          PROVE  k + (m + n - k) = n + m /\ m + n - k > 0
      BY <3>1
    <3>2. j - i \in Nat /\ j - i < Len(rows) /\ missing' = missing + Len(rows) - (j - i)
      BY <1>2, <2>1
    <3> QED
      BY <1>2, <2>3, <3>1, <3>2
  <2> QED
    BY <1>1, <1>2, <1>3, <2>2, <2>4 DEF ObserverInv, ObserverNotMisled
<1>8. CASE Heartbeat
  BY <1>1, <1>2, <1>8 DEF Heartbeat, ObserverInv, ObserverNotMisled
<1>9. CASE UNCHANGED <<rows, missing, pruner, observer>>
  BY <1>1, <1>9 DEF ObserverInv, ObserverNotMisled
<1>10. ~\E now \in 1 .. MaxClock : Reanchor(now)
  BY Zenon, <1>0 DEF Reanchor
<1>11. ~(ReanchorCount \/ ReanchorLoad \/ ReanchorWrite)
  BY <1>2 DEF ReanchorCount, ReanchorLoad, ReanchorWrite
<1>12. CASE StartVerify \/ VerifyPage \/ VerifyHighWater \/ UNCHANGED vars
  BY Zenon, <1>9, <1>12 DEF StartVerify, VerifyPage, VerifyHighWater, vars
<1> QED
  BY <1>4, <1>5, <1>6, <1>7, <1>8, <1>10, <1>11, <1>12 DEF Next

\* When no anchor is lost and nobody re-anchors, the off-box receiver sees
\* fewer rows than the anchors account for only when rows were removed out of
\* band, whatever is appended, pruned or verified in between.
THEOREM AnchorsAreTrue ==
    ASSUME Features \cap {"reanchor", "lossy"} = {}
    PROVE  Spec => []ObserverNotMisled
<1>1. Init => ObserverInv
  <2> SUFFICES ASSUME Init PROVE ObserverInv
    OBVIOUS
  <2>1. /\ Len(rows) = 0 /\ missing = 0 /\ observer.alarm = FALSE /\ observer.count = -1
        /\ pruner.deleted = 0 /\ pruner.pc = "idle"
    BY DEF Init, NoCount
  <2> QED
    BY <2>1, HighWaterInit DEF ObserverInv, ObserverNotMisled
<1>2. ObserverInv /\ [Next]_vars => ObserverInv'
  BY ObserverStep
<1>3. ObserverInv => ObserverNotMisled
  BY DEF ObserverInv
<1> QED
  BY <1>1, <1>2, <1>3, PTL DEF Spec

(***************************************************************************)
(* Types.                                                                  *)
(***************************************************************************)

Hashes == Nat \X Nat
Signatures == Nat \X Hashes
Pruners == [pc : {"idle", "emit"}, deleted : Nat]
Walks == [pc : {"idle", "head", "walk", "check"}, at : Nat, hash : Hashes]
Observers == [count : Nat \cup {NoCount}, alarm : BOOLEAN]
Anchorers ==
    [pc : {"idle", "count", "load", "write"}, count : Nat, head : Hashes,
     seen : Nat \X Hashes \X Signatures]

\* TypeOK, the chain, and what the second transaction of reanchor_chain holds.
AuditTypeInv ==
    /\ TypeOK
    /\ ChainInv
    /\ anchorer \in Anchorers

\* A count that may be negative is recorded as a high-water row.
LEMMA RecordType ==
    ASSUME NEW c \in Int, NEW head \in Hashes
    PROVE  Record(c, head) \in HighWaters
<1> DEFINE n == IF c < 0 THEN 0 ELSE c
<1>1. n \in Nat
  OBVIOUS
<1>2. Record(c, head) = [present |-> TRUE, count |-> n, head |-> head, sig |-> <<n, head>>]
  BY Zenon DEF Record
<1> HIDE DEF n
<1> QED
  BY <1>1, <1>2 DEF HighWaters, Hashes

\* So is the row after an append.
LEMMA BumpType ==
    ASSUME NEW h \in HighWaters, NEW n \in Nat, NEW head \in Hashes
    PROVE  Bump(h, n, head) \in HighWaters
<1>1. h.count \in Nat
  BY DEF HighWaters
<1>2. Record(n, head) \in HighWaters /\ Record(h.count + 1, head) \in HighWaters
  BY <1>1, RecordType
<1> QED
  BY Zenon, <1>2 DEF Bump

\* The inductive step.
LEMMA TypeStep ==
    ASSUME AuditTypeInv, [Next]_vars
    PROVE  AuditTypeInv'
<1>1. ChainInv'
  BY ChainStep DEF AuditTypeInv
<1>2. /\ rows \in Seq(Rows) /\ Len(rows) \in Nat
      /\ hw \in HighWaters
      /\ written \in 0 .. MaxRows /\ epoch \in Nat /\ missing \in Nat
      /\ alarm \in BOOLEAN
      /\ MaxRows \in Nat /\ PageSize \in Nat /\ PageSize >= 1
  BY LenProperties, AuditAssumption DEF AuditTypeInv, TypeOK
<1>3. pruner \in Pruners /\ walk \in Walks /\ observer \in Observers /\ anchorer \in Anchorers
  BY DEF AuditTypeInv, TypeOK, Pruners, Walks, Observers, Hashes
<1>4. rows' \in Seq(Rows) /\ epoch' \in Nat
  BY <1>1 DEF ChainInv
<1>5. hw.count \in Nat /\ hw.head \in Hashes /\ hw.present \in BOOLEAN /\ hw.sig \in Signatures
  BY <1>2 DEF HighWaters, Hashes, Signatures
<1> DEFINE Rest == /\ hw' \in HighWaters
                   /\ written' \in 0 .. MaxRows /\ missing' \in Nat
                   /\ alarm' \in BOOLEAN
                   /\ pruner' \in Pruners /\ walk' \in Walks
                   /\ observer' \in Observers /\ anchorer' \in Anchorers
<1> SUFFICES Rest
  <2>1. ASSUME Rest PROVE anchorer'.pc \in {"idle", "count", "load", "write"}
    BY <2>1 DEF Anchorers
  <2> QED
    BY <1>1, <1>4, <2>1 DEF AuditTypeInv, TypeOK, Pruners, Walks, Observers, Hashes
<1>6. ASSUME NEW rs \in Seq(Rows), NEW now \in 1 .. MaxClock PROVE NewRow(rs, now).hash \in Hashes
  <2>1. now \in Nat /\ written \in Nat
    BY <1>2, AuditAssumption
  <2> QED
    BY Zenon, <1>2, <2>1, NewRowExtends, RowTypes DEF Hashes
<1>7. ASSUME NEW now \in 1 .. MaxClock, LogAction(now) PROVE Rest
  <2>1. hw' = Bump(hw, Len(rows) + 1, NewRow(rows, now).hash) /\ Len(rows) + 1 \in Nat
    BY <1>2, <1>7 DEF LogAction
  <2>2. hw' \in HighWaters
    BY Zenon, <1>2, <1>6, <2>1, BumpType
  <2> QED
    BY <1>2, <1>3, <1>7, <2>2 DEF LogAction
<1>8. ASSUME NEW now \in 1 .. MaxClock, NEW cutoff \in 1 .. now, Prune(now, cutoff)
      PROVE  Rest
  <2>0. /\ UNCHANGED <<missing, walk, observer, anchorer>>
        /\ written < MaxRows
        /\ written' \in {written, written + 1}
    BY Zenon, <1>8 DEF Prune
  <2>1. CASE UNCHANGED <<hw, written, pruner>> /\ alarm' = TRUE
    BY <1>2, <1>3, <2>0, <2>1
  <2>2. ASSUME UNCHANGED alarm, NEW n \in 0 .. Len(rows), NEW kept, NEW lowered,
               pruner' = [pc |-> "emit", deleted |-> n],
               kept = SubSeq(rows, n + 1, Len(rows)),
               lowered = (IF n > 0 /\ hw.present /\ SignatureValid(hw)
                          THEN Record(hw.count - n, hw.head) ELSE hw),
               hw' = Bump(lowered, Len(kept) + 1, NewRow(kept, now).hash) \/ hw' = lowered
        PROVE  Rest
    <3>1. /\ n + 1 \in 1 .. Len(rows) + 1 /\ Len(rows) \in (n + 1) - 1 .. Len(rows) /\ n \in Nat
          /\ hw.count - n \in Int
      BY <1>2, <1>5
    <3>2. kept \in Seq(Rows)
      BY <2>2, <3>1, PartOfChain DEF AuditTypeInv, ChainInv
    <3>3. Len(kept) + 1 \in Nat
      BY <3>2, LenProperties
    <3>4. lowered \in HighWaters
      <4>1. Record(hw.count - n, hw.head) \in HighWaters
        BY Zenon, <1>5, <3>1, RecordType
      <4> QED
        BY Zenon, <1>2, <2>2, <4>1
    <3>5. hw' \in HighWaters
      BY Zenon, <1>6, <2>2, <3>2, <3>3, <3>4, BumpType
    <3>6. pruner' \in Pruners
      BY <2>2, <3>1 DEF Pruners
    <3> QED
      BY <1>2, <1>3, <2>0, <2>2, <3>5, <3>6
  <2> HIDE DEF Rest
  <2> QED
    BY Zenon, <1>8, <2>1, <2>2 DEF Prune
<1>9. ASSUME NEW now \in 1 .. MaxClock, Reanchor(now) PROVE Rest
  <2> DEFINE dangling == rows # <<>> /\ rows[1].prev # NoHash
             e        == IF dangling THEN epoch + 1 ELSE epoch
             relinked == IF ~dangling THEN rows
                         ELSE [i \in 1 .. Len(rows) |->
                                 [id   |-> rows[i].id,
                                  at   |-> rows[i].at,
                                  prev |-> IF i = 1 THEN NoHash ELSE <<rows[i - 1].id, e>>,
                                  hash |-> <<rows[i].id, e>>]]
             row      == [NewRow(relinked, now) EXCEPT !.hash = <<written + 1, e>>]
  <2>1. /\ hw' = Bump(hw, Len(rows) + 1, row.hash)
        /\ anchorer' = [anchorer EXCEPT !.pc = "count", !.head = row.hash]
        /\ written < MaxRows /\ written' = written + 1
        /\ UNCHANGED <<missing, pruner, walk, alarm, observer>>
    BY Zenon, <1>9 DEF Reanchor
  <2>2. e \in Nat
    BY <1>2
  <2> HIDE DEF e, relinked
  <2>3. row.hash = <<written + 1, e>>
    BY DEF NewRow
  <2> HIDE DEF row
  <2>4. row.hash \in Hashes
    BY <1>2, <2>2, <2>3 DEF Hashes
  <2>5. Len(rows) + 1 \in Nat
    BY <1>2
  <2>6. hw' \in HighWaters
    BY Zenon, <1>2, <2>1, <2>4, <2>5, BumpType
  <2>7. anchorer' \in Anchorers
    BY Zenon, <1>3, <2>1, <2>4 DEF Anchorers
  <2> QED
    BY <1>2, <1>3, <2>1, <2>6, <2>7
<1>10. CASE Heartbeat
  <2>1. pruner' \in Pruners
    BY <1>10 DEF Heartbeat, Pruners
  <2> QED
    BY <1>2, <1>3, <1>10, <2>1 DEF Heartbeat
<1>11. CASE EmitAnchor
  <2>1. pruner' \in Pruners
    BY <1>11 DEF EmitAnchor, Pruners
  <2> DEFINE behind == observer.alarm \/ Len(rows) < observer.count - pruner.deleted
  <2>2. behind \in BOOLEAN
    OBVIOUS
  <2>3. observer' = [count |-> Len(rows), alarm |-> behind] \/ observer' = observer
    BY Zenon, <1>11 DEF EmitAnchor
  <2> HIDE DEF behind
  <2>4. observer' \in Observers
    BY <1>2, <1>3, <2>2, <2>3 DEF Observers
  <2> QED
    BY <1>2, <1>3, <1>11, <2>1, <2>4 DEF EmitAnchor
<1>12. CASE ReanchorCount
  <2>1. anchorer' \in Anchorers
    BY Zenon, <1>2, <1>3, <1>12 DEF ReanchorCount, Anchorers
  <2> QED
    BY <1>2, <1>3, <1>12, <2>1 DEF ReanchorCount
<1>13. CASE ReanchorLoad
  <2>1. anchorer' \in Anchorers
    BY Zenon, <1>3, <1>5, <1>13 DEF ReanchorLoad, Anchorers
  <2> QED
    BY <1>2, <1>3, <1>13, <2>1 DEF ReanchorLoad
<1>14. CASE ReanchorWrite
  <2> DEFINE new == Record(anchorer.count, anchorer.head)
  <2>1. anchorer.count \in Int /\ anchorer.head \in Hashes
    BY <1>3 DEF Anchorers
  <2>2. new \in HighWaters
    BY Zenon, <2>1, RecordType
  <2>3. new.count \in Nat /\ new.head \in Hashes /\ new.sig \in Signatures
    BY <2>2 DEF HighWaters, Hashes, Signatures
  <2>4. hw' = [hw EXCEPT !.count = IF new.count # anchorer.seen[1] THEN new.count ELSE @,
                         !.head  = IF new.head # anchorer.seen[2] THEN new.head ELSE @,
                         !.sig   = IF new.sig # anchorer.seen[3] THEN new.sig ELSE @]
    BY Zenon, <1>14 DEF ReanchorWrite
  <2> HIDE DEF new
  <2>5. hw' \in HighWaters
    BY Zenon, <1>2, <1>5, <2>3, <2>4 DEF HighWaters, Hashes, Signatures
  <2>6. anchorer' \in Anchorers
    BY <1>3, <1>14 DEF ReanchorWrite, Anchorers
  <2> QED
    BY Zenon, <1>2, <1>3, <1>14, <2>5, <2>6 DEF ReanchorWrite
<1>15. CASE StartVerify
  <2>1. walk' \in Walks
    BY <1>15 DEF StartVerify, Walks, NoHash, Hashes
  <2> QED
    BY <1>2, <1>3, <1>15, <2>1 DEF StartVerify
<1>16. CASE VerifyHighWater
  <2>1. walk' \in Walks
    BY <1>3, <1>16 DEF VerifyHighWater, Walks
  <2> QED
    BY <1>2, <1>3, <1>16, <2>1 DEF VerifyHighWater
<1>17. CASE VerifyPage
  <2>1. UNCHANGED <<hw, written, missing, pruner, anchorer, observer>>
    BY <1>17 DEF VerifyPage
  <2>2. PICK n \in 0 .. Len(rows), bad \in BOOLEAN :
           LET short == Len(rows) - n < PageSize
               last  == IF short THEN Len(rows) ELSE n + PageSize
           IN /\ alarm' = (alarm \/ bad)
              /\ walk' = IF bad \/ short
                         THEN [walk EXCEPT !.pc = IF bad THEN "idle" ELSE "check"]
                         ELSE [pc |-> "walk", at |-> rows[last].at, hash |-> rows[last].hash]
    BY Zenon, <1>17 DEF VerifyPage
  <2>3. /\ alarm' \in BOOLEAN
        /\ \/ \E pc \in {"idle", "check"} : walk' = [walk EXCEPT !.pc = pc]
           \/ \E last \in 1 .. Len(rows) : walk' = [pc |-> "walk", at |-> rows[last].at, hash |-> rows[last].hash]
    <3>1. CASE bad \/ Len(rows) - n < PageSize
      <4>1. walk' = [walk EXCEPT !.pc = IF bad THEN "idle" ELSE "check"]
        BY Zenon, <2>2, <3>1
      <4>2. (IF bad THEN "idle" ELSE "check") \in {"idle", "check"}
        BY Zenon
      <4> QED
        BY Zenon, <2>2, <4>1, <4>2
    <3>2. CASE ~(bad \/ Len(rows) - n < PageSize)
      <4>1. n + PageSize \in 1 .. Len(rows)
        BY <1>2, <3>2
      <4>2. walk' = [pc |-> "walk", at |-> rows[n + PageSize].at, hash |-> rows[n + PageSize].hash]
        BY Zenon, <2>2, <3>2
      <4> QED
        BY Zenon, <2>2, <4>1, <4>2
    <3> QED
      BY <3>1, <3>2
  <2>4. \A last \in 1 .. Len(rows) : rows[last].at \in Nat /\ rows[last].hash \in Hashes
    BY Zenon, <1>2, RowTypes, ElementOfSeq DEF Hashes
  <2>5. walk' \in Walks
    BY <1>3, <2>3, <2>4 DEF Walks
  <2> QED
    BY <1>2, <1>3, <2>1, <2>3, <2>5
<1>18. CASE LoseRows
  <2>1. missing' \in Nat
    BY <1>2, <1>18 DEF LoseRows
  <2> QED
    BY <1>2, <1>3, <1>18, <2>1 DEF LoseRows
<1>19. CASE UNCHANGED vars
  BY <1>2, <1>3, <1>19 DEF vars
<1> HIDE DEF Rest
<1> QED
  BY Zenon, <1>7, <1>8, <1>9, <1>10, <1>11, <1>12, <1>13, <1>14, <1>15, <1>16, <1>17, <1>18, <1>19 DEF Next

\* The rows, the high-water row and the local state of the retention task,
\* the re-anchoring, the verification and the receiver keep their types,
\* whichever of them run.
THEOREM AuditTypes == Spec => []TypeOK
<1>1. Init => AuditTypeInv
  <2> SUFFICES ASSUME Init PROVE AuditTypeInv
    OBVIOUS
  <2>1. ChainInv
    BY ChainInit
  <2>2. hw \in HighWaters
    BY DEF Init, HighWaters, NoHash
  <2>3. written \in 0 .. MaxRows /\ missing \in Nat /\ alarm \in BOOLEAN
    <3>1. written = 0 /\ missing = 0 /\ alarm = FALSE /\ MaxRows \in Nat
      BY Zenon, AuditAssumption DEF Init
    <3>2. alarm \in BOOLEAN
      BY Zenon, <3>1
    <3>3. written \in 0 .. MaxRows /\ missing \in Nat
      BY <3>1
    <3> QED
      BY <3>2, <3>3
  <2>4. pruner \in Pruners /\ walk \in Walks /\ observer \in Observers
    BY DEF Init, NoHash, Hashes, Pruners, Walks, Observers
  <2>5. anchorer \in Anchorers /\ anchorer.pc = "idle"
    BY DEF Init, NoHash, Hashes, Signatures, Anchorers
  <2>6. rows \in Seq(Rows) /\ epoch \in Nat
    BY <2>1 DEF ChainInv
  <2>7. TypeOK
    BY Zenon, <2>2, <2>3, <2>4, <2>5, <2>6 DEF TypeOK, Hashes, Pruners, Walks, Observers
  <2> QED
    BY <2>1, <2>5, <2>7 DEF AuditTypeInv
<1>2. AuditTypeInv /\ [Next]_vars => AuditTypeInv'
  BY TypeStep
<1>3. AuditTypeInv => TypeOK
  BY DEF AuditTypeInv
<1> QED
  BY <1>1, <1>2, <1>3, PTL DEF Spec
=============================================================================
