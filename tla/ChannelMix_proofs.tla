------------------------- MODULE ChannelMix_proofs -------------------------
(***************************************************************************)
(* What the channel-mix executor guarantees for any number of workers,     *)
(* channels, peers and retries.                                            *)
(***************************************************************************)
EXTENDS ChannelMix, TLAPS

(***************************************************************************)
(* The inductive invariant.                                                *)
(***************************************************************************)

\* What is committed of a bootstrap round is possible: retries are below
\* their limits while it goes on, and only a round that drains has a swap.
RoundOK(e) ==
    /\ e.state \in RoundStates
    /\ e.seed = "skipped"
    /\ e.state = "opening" => e.connect_attempts < MaxConnects
    /\ e.state \notin RoundTerminal => e.swap_attempts < MaxDrains
    /\ e.state \in {"opening", "open_pending", "open_active"} => e.swap_id = 0
    /\ e.state = "swap_pending" => e.swap_id # 0

\* All rounds but the last are settled.
RoundsOK(s) ==
    /\ s \in Seq(Entries)
    /\ Len(s) <= Planned
    /\ \A c \in 1..Len(s) : RoundOK(s[c])
    /\ \A c \in 1..Len(s) : c < Len(s) => s[c].state = "settled"

\* The state of the last round, if there is one.
LastIn(s, states) == Len(s) > 0 => s[Len(s)].state \in states

Going == RoundStates \ RoundTerminal

\* A failed round is committed with the end of the run; and the rounds of a
\* run that is not in progress wait for nothing but a swap.
BootRow(r) ==
    /\ RoundsOK(r.channels)
    /\ r.state \notin Terminal => LastIn(r.channels, Going \cup {"settled"})
    /\ r.state \notin Terminal \cup {"in_progress"} => LastIn(r.channels, {"settled", "swap_pending"})

BootPcs == {"idle", "advance", "round", "opened", "made", "after", "start"}

\* A bootstrap tick: what its copy may be at each place.
BootTask(t) ==
    /\ t.pc \in BootPcs
    /\ RoundsOK(t.copy.channels)
    /\ t.pc # "idle" => t.copy.state \notin Terminal
    /\ t.pc \in {"round", "opened", "made", "after"} => t.slot = Len(t.copy.channels) /\ t.slot > 0
    /\ t.pc = "advance" => t.copy = t.base
    /\ t.pc = "round" => /\ t.copy.channels[t.slot].state \in Going
                         /\ t.copy.channels[t.slot].state # "swap_pending" => t.copy.state = "in_progress"
    /\ t.pc = "opened" => t.copy.channels[t.slot].state = "open_pending" /\ t.copy.state = "in_progress"
    /\ t.pc = "made" => /\ t.copy.channels[t.slot].state = "open_active" /\ t.copy.state = "in_progress"
                        /\ t.made # 0 /\ t.base = t.copy
    /\ t.pc = "start" => LastIn(t.copy.channels, {"settled"})

\* A bootstrap tick that has lost the row: what it committed last is its
\* copy, and its round goes on.
BootFree(t) ==
    /\ t.pc \in {"made", "after"}
    /\ t.base = t.copy
    /\ t.copy.state = "in_progress"
    /\ t.copy.channels[t.slot].state \in Going

ParRow(r) ==
    /\ Len(r.channels) = Planned
    /\ \A c \in Slots : r.channels[c].state \in OpenStates

\* A tick of a parallel run; and one that has lost the row.
ParTask(t) ==
    /\ t.pc \in {"idle", "open", "resolve", "seed", "seeded"}
    /\ t.pc # "idle" => ParRow(t.copy) /\ t.copy.state = "in_progress"

ParFree(t) == t.pc \in {"seed", "seeded"} /\ t.base.state = "in_progress"

Pcs == BootPcs \cup {"open", "resolve", "seed", "seeded"}

Tasks ==
    [pc : Pcs, base : Rows, copy : Rows, slot : Nat, made : Swaps \cup {0}, fresh : SUBSET Slots]

\* The row and the ticks fit together: whoever holds the row has loaded it as
\* it is, and it has not ended.
TickOK(w) ==
    /\ mode = "bootstrap" => BootTask(task[w])
    /\ mode = "parallel" => ParTask(task[w])
    /\ task[w].pc = "idle" => task[w] = Idle
    /\ lock = w => Busy(w) /\ task[w].base = run /\ ~Ended
    /\ lock # w /\ Busy(w) => /\ mode = "bootstrap" => BootFree(task[w])
                              /\ mode = "parallel" => ParFree(task[w])

TicksInv ==
    /\ task \in [Workers -> Tasks]
    /\ run \in Rows
    /\ mode \in Modes
    /\ lock \in Workers \cup {Nobody}
    /\ mode = "bootstrap" => BootRow(run)
    /\ mode = "parallel" => ParRow(run)
    /\ \A w \in Workers : TickOK(w)

WorldInv ==
    /\ chan \in [Slots -> {"none", "down", "active", "gone"}]
    /\ opened \in [Slots -> 0..MaxOpens]
    /\ swaps \in [Swaps -> SwapRows]
    /\ \A i \in Swaps : Truthful(swaps[i])
    /\ owner \in [Swaps -> Slots \cup {0}]
    /\ events \in 0..MaxEvents
    /\ {others, overlap, lost} \subseteq BOOLEAN

(***************************************************************************)
(* The operators.                                                          *)
(***************************************************************************)

\* Writing a field keeps the fields of a record. The fact is in sight of every proof below, for what
\* it contains: before an update of a record the SMT backend gives up its type synthesis, the cost
\* of which grows with every obligation, and takes the untyped encoding.
LEMMA FieldsStay == DOMAIN [run EXCEPT !.stop_requested = TRUE] = DOMAIN run
  OBVIOUS

USE FieldsStay

\* The entry a round starts with.
LEMMA NewRound ==
    ASSUME mode = "bootstrap"
    PROVE  /\ NewEntry("skipped") \in Entries
           /\ RoundOK(NewEntry("skipped"))
           /\ NewEntry("skipped").state = "opening"
           /\ NewEntry("skipped").swap_attempts = 0
           /\ NewEntry("skipped").seed = "skipped"
BY MixAssumption DEF NewEntry, Entries, RoundOK, RoundStates, RoundTerminal, SeedStates

\* The entries of a parallel plan.
LEMMA NewChannel ==
    ASSUME mode = "parallel", NEW seed \in {"skipped", "queued"}
    PROVE  NewEntry(seed) \in Entries /\ NewEntry(seed).state = "queued"
BY MixAssumption DEF NewEntry, Entries, OpenStates, SeedStates

\* The next peer is tried from the start; without one the round has failed.
LEMMA PeerChanges ==
    ASSUME NEW e \in Entries, e.state = "opening", e.seed = "skipped",
           e.swap_attempts < MaxDrains, e.swap_id = 0
    PROVE  /\ NextPeer(e) \in Entries /\ RoundOK(NextPeer(e))
           /\ NextPeer(e).swap_attempts = e.swap_attempts /\ NextPeer(e).swap_id = 0
           /\ NextPeer(e).state \in {"opening", "open_failed"}
<1> USE DEF Entries
<1>1. CASE e.peer < Peers
  <2> DEFINE f == [e EXCEPT !.peer = @ + 1, !.connect_attempts = 0]
  <2>1. NextPeer(e) = f
    BY <1>1 DEF NextPeer
  <2>2. /\ f.state = "opening" /\ f.seed = "skipped" /\ f.connect_attempts = 0
        /\ f.swap_attempts = e.swap_attempts /\ f.swap_id = 0
    OBVIOUS
  <2>3. e.peer + 1 \in 1..Peers /\ 0 \in 0..MaxConnects /\ 0 < MaxConnects
    BY <1>1, MixAssumption
  <2>4. f \in Entries
    BY Zenon, <2>3
  <2> HIDE DEF f
  <2> QED
    BY <2>1, <2>2, <2>3, <2>4 DEF RoundOK, RoundStates, RoundTerminal
<1>2. CASE ~(e.peer < Peers)
  <2> DEFINE f == [e EXCEPT !.state = "open_failed"]
  <2>1. NextPeer(e) = f
    BY <1>2 DEF NextPeer
  <2>2. /\ f.state = "open_failed" /\ f.seed = "skipped"
        /\ f.swap_attempts = e.swap_attempts /\ f.swap_id = 0
    OBVIOUS
  <2>3. f \in Entries
    BY DEF RoundStates
  <2> HIDE DEF f
  <2> QED
    BY <2>1, <2>2, <2>3 DEF RoundOK, RoundStates, RoundTerminal
<1> QED
  BY <1>1, <1>2

\* A round that cannot open tries again, goes on to the next peer, or ends.
LEMMA RoundOpens ==
    ASSUME NEW e \in Entries, RoundOK(e), e.state = "opening",
           NEW f \in {NextPeer(e), NotOnline(e), [e EXCEPT !.state = "open_failed"]}
    PROVE  /\ f \in Entries /\ RoundOK(f)
           /\ f.swap_attempts = e.swap_attempts /\ f.swap_id = 0
           /\ f.state \in {"opening", "open_failed"}
<1>1. /\ e.seed = "skipped" /\ e.swap_attempts < MaxDrains /\ e.swap_id = 0
      /\ e.connect_attempts < MaxConnects
  BY DEF RoundOK, RoundTerminal
<1>2. CASE f = NextPeer(e)
  BY <1>1, <1>2, PeerChanges
<1>3. CASE f = NotOnline(e)
  <2> DEFINE tried == [e EXCEPT !.connect_attempts = @ + 1]
  <2>1. /\ tried.state = "opening" /\ tried.seed = "skipped" /\ tried.swap_id = 0
        /\ tried.swap_attempts = e.swap_attempts
    BY <1>1 DEF Entries
  <2>2. tried \in Entries
    BY <1>1, MixAssumption DEF Entries
  <2>3. f = IF tried.connect_attempts < MaxConnects THEN tried ELSE NextPeer(tried)
    BY <1>3 DEF NotOnline
  <2> HIDE DEF tried
  <2>4. tried.connect_attempts < MaxConnects => RoundOK(tried)
    BY <1>1, <2>1 DEF RoundOK, RoundStates, RoundTerminal
  <2>5. /\ NextPeer(tried) \in Entries /\ RoundOK(NextPeer(tried))
        /\ NextPeer(tried).swap_attempts = tried.swap_attempts /\ NextPeer(tried).swap_id = 0
        /\ NextPeer(tried).state \in {"opening", "open_failed"}
    BY <1>1, <2>1, <2>2, PeerChanges
  <2> QED
    BY <2>1, <2>2, <2>3, <2>4, <2>5
<1>4. CASE f = [e EXCEPT !.state = "open_failed"]
  <2>1. /\ f.state = "open_failed" /\ f.seed = "skipped" /\ f.swap_id = 0
        /\ f.swap_attempts = e.swap_attempts
    BY <1>1, <1>4 DEF Entries
  <2>2. f \in Entries
    BY <1>4 DEF Entries, RoundStates
  <2> QED
    BY <2>1, <2>2 DEF RoundOK, RoundStates, RoundTerminal
<1> QED
  BY <1>2, <1>3, <1>4

\* A failed attempt to drain is counted; the last one fails the round.
LEMMA RoundDrains ==
    ASSUME NEW e \in Entries, RoundOK(e), e.state \notin RoundTerminal
    PROVE  /\ DrainFails(e) \in Entries /\ RoundOK(DrainFails(e))
           /\ DrainFails(e).state \in {e.state, "swap_failed"}
           /\ DrainFails(e).state # "swap_failed" => DrainFails(e).swap_attempts < MaxDrains
           /\ DrainFails(e).swap_attempts = e.swap_attempts + 1
           /\ DrainFails(e).swap_id = e.swap_id /\ DrainFails(e).waiting = e.waiting
<1> DEFINE tried == [e EXCEPT !.swap_attempts = @ + 1]
<1> DEFINE over == [tried EXCEPT !.state = "swap_failed"]
<1>0. /\ e.swap_attempts < MaxDrains /\ e.swap_attempts \in Nat /\ MaxDrains \in Nat
      /\ e.seed = "skipped" /\ e.state # "swap_failed" /\ e.state \in RoundStates
  BY MixAssumption DEF RoundOK, Entries, RoundTerminal
<1>1. /\ tried.state = e.state /\ tried.seed = e.seed /\ tried.swap_id = e.swap_id
      /\ tried.swap_attempts = e.swap_attempts + 1 /\ tried.waiting = e.waiting
      /\ tried.connect_attempts = e.connect_attempts
  BY DEF Entries
<1>2. tried \in Entries
  BY <1>0, MixAssumption DEF Entries
<1>3. DrainFails(e) = IF tried.swap_attempts >= MaxDrains THEN over ELSE tried
  BY DEF DrainFails
<1> HIDE DEF tried
<1>4. /\ over.state = "swap_failed" /\ over.seed = tried.seed /\ over.swap_id = tried.swap_id
      /\ over.swap_attempts = tried.swap_attempts /\ over.waiting = tried.waiting
  BY <1>2 DEF Entries
<1>5. over \in Entries
  BY <1>2 DEF Entries, RoundStates
<1> HIDE DEF over
<1>6. RoundOK(over)
  BY <1>0, <1>1, <1>4 DEF RoundOK, RoundStates, RoundTerminal
<1>7. tried.swap_attempts < MaxDrains => RoundOK(tried)
  BY <1>1 DEF RoundOK, RoundTerminal
<1> QED
  BY <1>0, <1>1, <1>2, <1>3, <1>4, <1>5, <1>6, <1>7

\* A round that is given up has failed.
LEMMA RoundGivenUp ==
    ASSUME NEW e \in Entries, RoundOK(e)
    PROVE  /\ GiveUp(e) \in Entries /\ RoundOK(GiveUp(e))
           /\ GiveUp(e).state \in {"open_failed", "swap_failed"}
           /\ GiveUp(e).swap_attempts = e.swap_attempts
BY Zenon DEF GiveUp, Entries, RoundOK, RoundStates, RoundTerminal

\* The channel is opened.
LEMMA RoundOpened ==
    ASSUME NEW e \in Entries, RoundOK(e), e.state = "opening",
           NEW f, f = [e EXCEPT !.open_txid = TRUE, !.state = "open_pending", !.peer = 1]
    PROVE  /\ f \in Entries /\ RoundOK(f)
           /\ f.state = "open_pending" /\ f.swap_attempts = e.swap_attempts /\ f.swap_id = e.swap_id
<1>1. /\ f.state = "open_pending" /\ f.swap_id = e.swap_id /\ f.waiting \in BOOLEAN
      /\ f.seed = e.seed /\ f.swap_attempts = e.swap_attempts
      /\ f.connect_attempts = e.connect_attempts
  BY DEF Entries
<1>2. f \in Entries
  <2>1. 1 \in 1..Peers
    BY MixAssumption
  <2> QED
    BY Zenon, <2>1 DEF Entries, RoundStates
<1>3. RoundOK(f)
  BY <1>1, MixAssumption DEF RoundOK, RoundStates, RoundTerminal
<1> QED
  BY <1>1, <1>2, <1>3

\* It becomes active.
LEMMA RoundActive ==
    ASSUME NEW e \in Entries, RoundOK(e), e.state = "open_pending",
           NEW f, f = [e EXCEPT !.state = "open_active", !.waiting = FALSE]
    PROVE  /\ f \in Entries /\ RoundOK(f)
           /\ f.state = "open_active" /\ f.swap_attempts = e.swap_attempts /\ f.swap_id = e.swap_id
<1>1. /\ f.state = "open_active" /\ f.swap_id = e.swap_id /\ f.waiting \in BOOLEAN
      /\ f.seed = e.seed /\ f.swap_attempts = e.swap_attempts
      /\ f.connect_attempts = e.connect_attempts
  BY DEF Entries
<1>2. f \in Entries
  BY Zenon DEF Entries, RoundStates
<1>3. RoundOK(f)
  BY <1>1, MixAssumption DEF RoundOK, RoundStates, RoundTerminal
<1> QED
  BY <1>1, <1>2, <1>3

\* There is nothing to drain, or it has been drained.
LEMMA RoundSettled ==
    ASSUME NEW e \in Entries, RoundOK(e), e.state \notin RoundTerminal,
           NEW f, f = [e EXCEPT !.state = "settled"]
    PROVE  /\ f \in Entries /\ RoundOK(f)
           /\ f.state = "settled" /\ f.swap_attempts = e.swap_attempts /\ f.swap_id = e.swap_id
<1>1. /\ f.state = "settled" /\ f.swap_id = e.swap_id /\ f.waiting \in BOOLEAN
      /\ f.seed = e.seed /\ f.swap_attempts = e.swap_attempts
      /\ f.connect_attempts = e.connect_attempts
  BY DEF Entries
<1>2. f \in Entries
  BY DEF Entries, RoundStates
<1>3. RoundOK(f)
  BY <1>1, MixAssumption DEF RoundOK, RoundStates, RoundTerminal
<1> QED
  BY <1>1, <1>2, <1>3

Linked(e, i) == [e EXCEPT !.swap_id = i, !.state = "swap_pending", !.waiting = FALSE]

\* A swap is linked to the round.
LEMMA RoundLinked ==
    ASSUME NEW e \in Entries, RoundOK(e), e.state = "open_active", NEW i \in Swaps
    PROVE  /\ Linked(e, i) \in Entries /\ RoundOK(Linked(e, i))
           /\ Linked(e, i).state = "swap_pending"
           /\ Linked(e, i).swap_attempts = e.swap_attempts /\ Linked(e, i).swap_id = i
<1> DEFINE f == Linked(e, i)
<1> USE DEF Linked
<1>1. /\ f.state = "swap_pending" /\ f.swap_id = i /\ f.waiting \in BOOLEAN
      /\ f.seed = e.seed /\ f.swap_attempts = e.swap_attempts
      /\ f.connect_attempts = e.connect_attempts
  BY DEF Entries
<1>2. f \in Entries
  BY Zenon DEF Entries, RoundStates
<1>3. RoundOK(f)
  BY <1>1, MixAssumption DEF RoundOK, RoundStates, RoundTerminal
<1> HIDE DEF Linked
<1> QED
  BY <1>1, <1>2, <1>3

\* The round waits, or no longer.
LEMMA RoundWaits ==
    ASSUME NEW e \in Entries, RoundOK(e), NEW b \in BOOLEAN,
           NEW f, f = [e EXCEPT !.waiting = b]
    PROVE  /\ f \in Entries /\ RoundOK(f)
           /\ f.state = e.state /\ f.swap_attempts = e.swap_attempts /\ f.swap_id = e.swap_id
<1>1. /\ f.state = e.state /\ f.swap_id = e.swap_id /\ f.waiting \in BOOLEAN
      /\ f.seed = e.seed /\ f.swap_attempts = e.swap_attempts
      /\ f.connect_attempts = e.connect_attempts
  BY DEF Entries
<1>2. f \in Entries
  BY DEF Entries, RoundStates
<1>3. RoundOK(f)
  BY <1>1, MixAssumption DEF RoundOK, RoundStates, RoundTerminal
<1> QED
  BY <1>1, <1>2, <1>3

\* The round is drained anew.
LEMMA RoundRetries ==
    ASSUME NEW e \in Entries, RoundOK(e), e.state = "swap_pending",
           NEW f, f = [e EXCEPT !.state = "open_active", !.swap_id = 0]
    PROVE  /\ f \in Entries /\ RoundOK(f)
           /\ f.state = "open_active" /\ f.swap_attempts = e.swap_attempts /\ f.swap_id = 0
<1>1. /\ f.state = "open_active" /\ f.swap_id = 0 /\ f.waiting \in BOOLEAN
      /\ f.seed = e.seed /\ f.swap_attempts = e.swap_attempts
      /\ f.connect_attempts = e.connect_attempts
  BY DEF Entries
<1>2. f \in Entries
  BY Zenon DEF Entries, RoundStates
<1>3. RoundOK(f)
  BY <1>1, MixAssumption DEF RoundOK, RoundStates, RoundTerminal
<1> QED
  BY <1>1, <1>2, <1>3

\* The last round is replaced.
LEMMA PutLast ==
    ASSUME NEW s, RoundsOK(s), Len(s) > 0, NEW e \in Entries, RoundOK(e)
    PROVE  LET r == [s EXCEPT ![Len(s)] = e]
           IN /\ RoundsOK(r) /\ Len(r) = Len(s) /\ DOMAIN r = 1..Len(s)
              /\ r[Len(s)] = e
              /\ \A c \in 1..Len(s) : c # Len(s) => r[c] = s[c]
<1> DEFINE r == [s EXCEPT ![Len(s)] = e]
<1>1. s \in Seq(Entries) /\ Len(s) \in Nat /\ Planned \in Nat
  BY MixAssumption DEF RoundsOK
<1>2. r \in Seq(Entries) /\ Len(r) = Len(s) /\ DOMAIN r = 1..Len(s)
  BY <1>1
<1>3. r[Len(s)] = e /\ \A c \in 1..Len(s) : c # Len(s) => r[c] = s[c]
  BY <1>1
<1>4. RoundsOK(r)
  <2>1. \A c \in 1..Len(s) : RoundOK(s[c]) /\ (c < Len(s) => s[c].state = "settled")
    BY DEF RoundsOK
  <2>2. Len(r) <= Planned
    BY <1>2 DEF RoundsOK
  <2>3. \A c \in 1..Len(r) : RoundOK(r[c])
    BY <1>2, <1>3, <2>1
  <2>4. \A c \in 1..Len(r) : c < Len(r) => r[c].state = "settled"
    BY <1>1, <1>2, <1>3, <2>1
  <2> QED
    BY Zenon, <1>2, <2>2, <2>3, <2>4 DEF RoundsOK
<1> QED
  BY Zenon, <1>1, <1>2, <1>3, <1>4

\* A round is added to settled ones.
LEMMA AppendRound ==
    ASSUME NEW s, RoundsOK(s), LastIn(s, {"settled"}), Len(s) < Planned,
           NEW e \in Entries, RoundOK(e)
    PROVE  LET r == Append(s, e)
           IN /\ RoundsOK(r) /\ Len(r) = Len(s) + 1 /\ DOMAIN r = 1..(Len(s) + 1)
              /\ r[Len(s) + 1] = e
              /\ \A c \in 1..Len(s) : r[c] = s[c]
<1> DEFINE r == Append(s, e)
<1>1. s \in Seq(Entries) /\ Len(s) \in Nat /\ Planned \in Nat
  BY MixAssumption DEF RoundsOK
<1>2. r \in Seq(Entries) /\ Len(r) = Len(s) + 1 /\ DOMAIN r = 1..(Len(s) + 1)
  BY <1>1
<1>3. r[Len(s) + 1] = e /\ \A c \in 1..Len(s) : r[c] = s[c]
  BY <1>1
<1>4. RoundsOK(r)
  <2>1. \A c \in 1..Len(s) : RoundOK(s[c]) /\ s[c].state = "settled"
    BY <1>1 DEF RoundsOK, LastIn
  <2>2. Len(r) <= Planned
    BY <1>1, <1>2
  <2>3. \A c \in 1..Len(r) : RoundOK(r[c])
    BY <1>1, <1>2, <1>3, <2>1
  <2>4. \A c \in 1..Len(r) : c < Len(r) => r[c].state = "settled"
    BY <1>1, <1>2, <1>3, <2>1
  <2> QED
    BY <1>2, <2>2, <2>3, <2>4 DEF RoundsOK
<1> QED
  BY <1>2, <1>3, <1>4

\* At most the last round is in flight.
LEMMA OneInFlight ==
    ASSUME NEW r, RoundsOK(r.channels)
    PROVE  /\ InFlight(r) = {} <=> LastIn(r.channels, RoundTerminal)
           /\ \A c \in InFlight(r) : /\ c = Len(r.channels) /\ Len(r.channels) > 0
                                     /\ r.channels[c].state \in Going
<1>1. r.channels \in Seq(Entries) /\ Len(r.channels) \in Nat /\ DOMAIN r.channels = 1..Len(r.channels)
  BY DEF RoundsOK
<1>2. ASSUME NEW c \in InFlight(r)
      PROVE  /\ c = Len(r.channels) /\ Len(r.channels) > 0
             /\ r.channels[c].state \in Going
  <2>1. c \in 1..Len(r.channels) /\ r.channels[c].state \notin RoundTerminal
    BY <1>1, <1>2 DEF InFlight
  <2>2. ~(c < Len(r.channels))
    BY <2>1 DEF RoundsOK, RoundTerminal
  <2> QED
    BY <1>1, <2>1, <2>2 DEF RoundsOK, RoundOK, Going
<1>3. ASSUME LastIn(r.channels, RoundTerminal) PROVE InFlight(r) = {}
  BY <1>1, <1>2, <1>3 DEF LastIn, Going
<1>4. ASSUME InFlight(r) = {} PROVE LastIn(r.channels, RoundTerminal)
  BY <1>1, <1>4 DEF LastIn, InFlight
<1> QED
  BY <1>2, <1>3, <1>4

\* The settled rounds, when the last one is.
LEMMA AllSettled ==
    ASSUME NEW r, RoundsOK(r.channels), LastIn(r.channels, {"settled"})
    PROVE  Settled(r) = 1..Len(r.channels) /\ Len(r.channels) \in 0..Planned
<1>1. r.channels \in Seq(Entries) /\ Len(r.channels) \in Nat /\ DOMAIN r.channels = 1..Len(r.channels)
  BY DEF RoundsOK
<1>2. \A c \in 1..Len(r.channels) : r.channels[c].state = "settled"
  BY <1>1 DEF RoundsOK, LastIn
<1> QED
  BY <1>1, <1>2, MixAssumption DEF Settled, RoundsOK

(***************************************************************************)
(* Steps of a tick, in general.                                            *)
(***************************************************************************)

\* Work in memory changes the copy and the place of one tick.
LEMMA GotoFields ==
    ASSUME task \in [Workers -> Tasks], NEW w \in Workers, NEW copy \in Rows, NEW pc \in Pcs,
           Goto(w, copy, pc)
    PROVE  /\ task' \in [Workers -> Tasks]
           /\ UNCHANGED <<run, lock>>
           /\ \A v \in Workers : v # w => task'[v] = task[v]
           /\ task'[w].pc = pc /\ task'[w].copy = copy
           /\ task'[w].base = task[w].base /\ task'[w].slot = task[w].slot
           /\ task'[w].made = task[w].made /\ task'[w].fresh = task[w].fresh
BY Zenon DEF Goto, Tasks

\* What a commit does: each attribute that differs from what was loaded is
\* written, and the tick goes on from what it wrote.
Committed(w, copy, pc, made) ==
    /\ run' \in Rows
    /\ run'.state = IF copy.state # task[w].base.state THEN copy.state ELSE run.state
    /\ run'.channels = IF copy.channels # task[w].base.channels THEN copy.channels ELSE run.channels
    /\ run'.realized = IF copy.realized # task[w].base.realized THEN copy.realized ELSE run.realized
    /\ lock \in {Nobody, w} /\ lock' = Nobody
    /\ \A v \in Workers : v # w => task'[v] = task[v]
    /\ pc = "idle" => task'[w] = Idle
    /\ pc # "idle" => /\ task'[w] \in Tasks
                      /\ task'[w].pc = pc /\ task'[w].copy = copy /\ task'[w].base = copy
                      /\ task'[w].made = made /\ task'[w].slot = task[w].slot
                      /\ task'[w].fresh = task[w].fresh
    /\ task' = [v \in Workers |-> task'[v]]

\* A commit does that.
LEMMA CommitFields ==
    ASSUME task \in [Workers -> Tasks], run \in Rows, NEW w \in Workers, NEW copy \in Rows,
           NEW pc \in Pcs, NEW made \in Swaps \cup {0}, Commit(w, copy, pc, made)
    PROVE  Committed(w, copy, pc, made)
<1> USE DEF Commit
<1>1. DOMAIN run = {"state", "stop_requested", "awaiting_since", "realized", "channels"}
  BY DEF Rows
<1>2. /\ run'.state = IF copy.state # task[w].base.state THEN copy.state ELSE run.state
      /\ run'.channels = IF copy.channels # task[w].base.channels THEN copy.channels ELSE run.channels
      /\ run'.realized = IF copy.realized # task[w].base.realized THEN copy.realized ELSE run.realized
      /\ run'.stop_requested = IF copy.stop_requested # task[w].base.stop_requested
                               THEN copy.stop_requested ELSE run.stop_requested
      /\ run'.awaiting_since = IF copy.awaiting_since # task[w].base.awaiting_since
                               THEN copy.awaiting_since ELSE run.awaiting_since
  BY <1>1
<1>3. run' = [state |-> run'.state, stop_requested |-> run'.stop_requested,
              awaiting_since |-> run'.awaiting_since, realized |-> run'.realized, channels |-> run'.channels]
  BY <1>1
<1>4. run' \in Rows
  <2>1. /\ run'.state \in Terminal \cup {"queued", "in_progress", "awaiting_funds"}
        /\ run'.realized \in Nat
        /\ run'.channels \in Seq(Entries)
    BY <1>2 DEF Rows
  <2>2. run'.stop_requested \in BOOLEAN /\ run'.awaiting_since \in BOOLEAN
    BY <1>2 DEF Rows
  <2> QED
    BY <1>3, <2>1, <2>2 DEF Rows
<1>5. pc # "idle" => task'[w] = [task[w] EXCEPT !.pc = pc, !.base = copy, !.copy = copy, !.made = made]
  BY DEF Tasks
<1>6. task[w] \in Tasks
  OBVIOUS
<1>8. pc # "idle" => /\ task'[w] \in Tasks
                     /\ task'[w].pc = pc /\ task'[w].copy = copy /\ task'[w].base = copy
                     /\ task'[w].made = made /\ task'[w].slot = task[w].slot
                     /\ task'[w].fresh = task[w].fresh
  <2> DEFINE old == task[w]
  <2>1. old \in Tasks
    BY <1>6
  <2> HIDE DEF old, Commit
  <2>2. LET t == [old EXCEPT !.pc = pc, !.base = copy, !.copy = copy, !.made = made]
        IN /\ t \in Tasks /\ t.pc = pc /\ t.copy = copy /\ t.base = copy
           /\ t.made = made /\ t.slot = old.slot /\ t.fresh = old.fresh
    BY Zenon, <2>1 DEF Tasks
  <2> QED
    BY Zenon, <1>5, <2>2 DEF old
<1>7. /\ lock \in {Nobody, w} /\ lock' = Nobody
      /\ \A v \in Workers : v # w => task'[v] = task[v]
      /\ pc = "idle" => task'[w] = Idle
      /\ task' = [v \in Workers |-> task'[v]]
  BY Zenon
<1> HIDE DEF Commit
<1> QED
  BY <1>2, <1>4, <1>7, <1>8 DEF Committed

\* A worker without a message.
LEMMA IdleOK ==
    /\ Idle \in Tasks /\ Idle.pc = "idle" /\ Idle.made = 0 /\ Idle.fresh = {}
    /\ BootTask(Idle) /\ ParTask(Idle)
<1>1. <<>> \in Seq(Entries) /\ Len(<<>>) = 0
  OBVIOUS
<1>2. NoRow \in Rows /\ NoRow.channels = <<>>
  BY <1>1 DEF NoRow, Rows, Terminal
<1>3. RoundsOK(<<>>)
  BY <1>1, MixAssumption DEF RoundsOK
<1>4. /\ Idle.pc = "idle" /\ Idle.base = NoRow /\ Idle.copy = NoRow
      /\ Idle.slot = 0 /\ Idle.made = 0 /\ Idle.fresh = {}
  BY DEF Idle, Loaded
<1>5. Idle \in Tasks
  BY <1>2 DEF Idle, Loaded, Tasks, Pcs, BootPcs
<1>6. BootTask(Idle)
  BY <1>2, <1>3, <1>4 DEF BootTask, BootPcs
<1>7. ParTask(Idle)
  BY <1>4 DEF ParTask
<1> QED
  BY <1>4, <1>5, <1>6, <1>7

\* A tick that works in memory.
LEMMA MemoryStep ==
    ASSUME TicksInv, NEW w \in Workers, Busy(w), UNCHANGED <<mode, run, lock>>,
           task' \in [Workers -> Tasks],
           \A v \in Workers : v # w => task'[v] = task[v],
           task'[w].pc # "idle", task'[w].base = task[w].base,
           mode = "bootstrap" => BootTask(task'[w]) /\ lock = w,
           mode = "parallel" => ParTask(task'[w]) /\ (lock = w \/ ParFree(task'[w]))
    PROVE  TicksInv'
<1>1. ASSUME NEW v \in Workers, v # w PROVE TickOK(v)'
  <2>1. TickOK(v) /\ task'[v] = task[v]
    BY <1>1 DEF TicksInv
  <2> QED
    BY <2>1 DEF TickOK, Busy, Ended
<1>2. TickOK(w)'
  <2>1. lock = w => task[w].base = run /\ ~Ended
    BY DEF TicksInv, TickOK
  <2>2. Modes \subseteq {"parallel", "bootstrap"} /\ mode \in Modes
    BY MixAssumption DEF TicksInv
  <2> QED
    BY <2>1, <2>2 DEF TickOK, Busy, Ended
<1> QED
  BY <1>1, <1>2 DEF TicksInv

\* A tick that commits, and goes on or not.
LEMMA CommitStep ==
    ASSUME TicksInv, NEW w \in Workers, Busy(w), UNCHANGED mode, NEW copy \in Rows,
           NEW pc \in Pcs, NEW made \in Swaps \cup {0}, Commit(w, copy, pc, made),
           mode = "bootstrap" => BootRow(run'),
           mode = "parallel" => ParRow(run'),
           pc # "idle" => /\ mode = "bootstrap" => BootTask(task'[w]) /\ BootFree(task'[w])
                          /\ mode = "parallel" => ParTask(task'[w]) /\ ParFree(task'[w])
    PROVE  TicksInv'
<1>0. task \in [Workers -> Tasks] /\ run \in Rows /\ Nobody \notin Workers
  BY MixAssumption DEF TicksInv
<1>1. /\ run' \in Rows /\ lock \in {Nobody, w} /\ lock' = Nobody
      /\ \A v \in Workers : v # w => task'[v] = task[v]
      /\ pc = "idle" => task'[w] = Idle
      /\ pc # "idle" => task'[w] \in Tasks /\ task'[w].pc = pc
      /\ task' = [v \in Workers |-> task'[v]]
  <2>1. Committed(w, copy, pc, made)
    BY Zenon, <1>0, CommitFields
  <2> QED
    BY <2>1 DEF Committed
<1>2. ASSUME NEW v \in Workers, v # w PROVE TickOK(v)'
  <2>1. TickOK(v) /\ task'[v] = task[v] /\ lock # v /\ lock' # v
    BY <1>0, <1>1, <1>2 DEF TicksInv
  <2> QED
    BY <2>1 DEF TickOK, Busy
<1>3. TickOK(w)'
  <2>1. lock' # w
    BY <1>0, <1>1
  <2>2. CASE pc = "idle"
    BY <1>1, <2>1, <2>2, IdleOK DEF TickOK, Busy
  <2>3. CASE pc # "idle"
    BY <1>1, <2>1, <2>3 DEF TickOK, Busy
  <2> QED
    BY <2>2, <2>3
<1>4. task' \in [Workers -> Tasks]
  BY <1>0, <1>1, IdleOK
<1> QED
  BY <1>1, <1>2, <1>3, <1>4 DEF TicksInv

(***************************************************************************)
(* Bootstrap ticks.                                                        *)
(***************************************************************************)

\* Where a bootstrap tick stands, and whether it still holds the row.
InBoot(w) ==
    /\ mode = "bootstrap" /\ Busy(w)
    /\ task[w] \in Tasks /\ task[w].copy \in Rows /\ task[w].base \in Rows
    /\ BootTask(task[w]) /\ BootRow(run)
    /\ lock = w => task[w].base = run /\ ~Ended
    /\ lock # w => BootFree(task[w])
    /\ task[w].pc \notin {"made", "after"} => lock = w

\* Every bootstrap tick is of that form.
LEMMA BootFacts ==
    ASSUME TicksInv, NEW w \in Workers, task[w].pc \in BootPcs \ {"idle"}
    PROVE  InBoot(w)
<1>1. mode = "bootstrap"
  <2>1. mode \in {"parallel", "bootstrap"}
    BY MixAssumption DEF TicksInv
  <2>2. mode # "parallel"
    BY DEF TicksInv, TickOK, ParTask, BootPcs
  <2> QED
    BY <2>1, <2>2
<1>2. TickOK(w) /\ task[w] \in Tasks /\ BootRow(run) /\ Busy(w)
  BY <1>1 DEF TicksInv, Busy
<1>3. lock # w => BootFree(task[w])
  BY <1>1, <1>2 DEF TickOK
<1>4. task[w].pc \notin {"made", "after"} => lock = w
  BY <1>3 DEF BootFree
<1> QED
  BY <1>1, <1>2, <1>3, <1>4 DEF TickOK, Tasks, InBoot

\* The round a tick works on.
RoundPcs == {"round", "opened", "made", "after"}

InRound(w) ==
    /\ task[w].copy.channels \in Seq(Entries) /\ RoundsOK(task[w].copy.channels)
    /\ task[w].slot = Len(task[w].copy.channels) /\ task[w].slot > 0
    /\ task[w].slot \in Slots
    /\ Entry(w) \in Entries /\ RoundOK(Entry(w))
    /\ task[w].copy.state \notin Terminal

\* It is the last one of the copy.
LEMMA RoundFacts ==
    ASSUME TicksInv, NEW w \in Workers, task[w].pc \in RoundPcs
    PROVE  InBoot(w) /\ InRound(w)
<1>0. InBoot(w)
  BY BootFacts DEF BootPcs, RoundPcs
<1>1. BootTask(task[w]) /\ task[w] \in Tasks
  BY <1>0 DEF InBoot
<1>2. /\ RoundsOK(task[w].copy.channels) /\ task[w].copy.state \notin Terminal
      /\ task[w].slot = Len(task[w].copy.channels) /\ task[w].slot > 0
  BY <1>1 DEF BootTask, RoundPcs
<1>3. /\ task[w].copy.channels \in Seq(Entries)
      /\ Len(task[w].copy.channels) <= Planned
      /\ \A c \in 1..Len(task[w].copy.channels) : RoundOK(task[w].copy.channels[c])
  BY <1>2 DEF RoundsOK
<1>4. task[w].slot \in 1..Len(task[w].copy.channels) /\ Planned \in Nat
  BY <1>2, <1>3, MixAssumption
<1>5. Entry(w) \in Entries /\ RoundOK(Entry(w))
  BY <1>3, <1>4 DEF Entry
<1> QED
  BY <1>0, <1>2, <1>3, <1>4, <1>5 DEF Slots, InRound

\* What the entries s are to those of w's copy: round e in place of the last.
Replaces(w, e, s) ==
    /\ RoundsOK(s)
    /\ Len(s) = task[w].slot
    /\ s[task[w].slot] = e
    /\ DOMAIN s = 1..task[w].slot
    /\ DOMAIN task[w].copy.channels = 1..task[w].slot
    /\ \A c \in 1..task[w].slot : c # task[w].slot => s[c] = task[w].copy.channels[c]

Replaced(w, e) ==
    /\ With(w, e) \in Rows
    /\ Replaces(w, e, With(w, e).channels)
    /\ With(w, e).state = task[w].copy.state
    /\ With(w, e).realized = task[w].copy.realized

\* The copy with the round replaced.
LEMMA WithFields ==
    ASSUME TicksInv, NEW w \in Workers, task[w].pc \in RoundPcs,
           NEW e \in Entries, RoundOK(e)
    PROVE  Replaced(w, e)
<1>1. /\ task[w].copy.channels \in Seq(Entries) /\ RoundsOK(task[w].copy.channels)
      /\ task[w].slot = Len(task[w].copy.channels) /\ Len(task[w].copy.channels) > 0
      /\ task[w].copy \in Rows
  BY RoundFacts DEF InBoot, InRound
<1> DEFINE r == [task[w].copy.channels EXCEPT ![Len(task[w].copy.channels)] = e]
<1>2. /\ RoundsOK(r) /\ Len(r) = Len(task[w].copy.channels)
      /\ DOMAIN r = 1..Len(task[w].copy.channels)
      /\ r[Len(task[w].copy.channels)] = e
      /\ \A c \in 1..Len(task[w].copy.channels) :
            c # Len(task[w].copy.channels) => r[c] = task[w].copy.channels[c]
  BY <1>1, PutLast
<1>3. With(w, e) = [task[w].copy EXCEPT !.channels = r]
  BY <1>1 DEF With
<1>4. r \in Seq(Entries) /\ DOMAIN task[w].copy.channels = 1..Len(task[w].copy.channels)
  BY <1>1, <1>2 DEF RoundsOK
<1> HIDE DEF r
<1>5. /\ With(w, e) \in Rows /\ With(w, e).channels = r
      /\ With(w, e).state = task[w].copy.state
      /\ With(w, e).realized = task[w].copy.realized
  BY <1>1, <1>3, <1>4 DEF Rows
<1> QED
  BY <1>1, <1>2, <1>4, <1>5 DEF Replaced, Replaces

\* A step of the round in memory, that leads to the end of the step, or to
\* the commit that records a channel.
LEMMA RoundStep ==
    ASSUME TicksInv, NEW w \in Workers, At(w, "round"), UNCHANGED mode,
           NEW e \in Entries, RoundOK(e), NEW copy \in Rows,
           copy.channels = With(w, e).channels, copy.state = task[w].copy.state,
           NEW pc \in {"after", "opened"}, Goto(w, copy, pc),
           pc = "opened" => e.state = "open_pending" /\ copy.state = "in_progress"
    PROVE  TicksInv'
<1>1. task[w].pc = "round" /\ task[w].pc \in RoundPcs /\ task \in [Workers -> Tasks]
  BY DEF At, RoundPcs, TicksInv
<1>2. InBoot(w) /\ InRound(w) /\ Replaced(w, e)
  BY Zenon, <1>1, RoundFacts, WithFields
<1>3. mode = "bootstrap" /\ lock = w /\ Busy(w)
  BY <1>1, <1>2 DEF InBoot
<1>4. /\ RoundsOK(copy.channels) /\ Len(copy.channels) = task[w].slot
      /\ copy.channels[task[w].slot] = e /\ task[w].slot > 0
      /\ copy.state \notin Terminal
  BY <1>2 DEF InRound, Replaced, Replaces
<1>5. /\ task' \in [Workers -> Tasks] /\ UNCHANGED <<run, lock>>
      /\ \A v \in Workers : v # w => task'[v] = task[v]
      /\ task'[w].pc = pc /\ task'[w].copy = copy
      /\ task'[w].base = task[w].base /\ task'[w].slot = task[w].slot
  BY <1>1, GotoFields DEF Pcs, BootPcs
<1>6. BootTask(task'[w])
  BY <1>4, <1>5 DEF BootTask, BootPcs
<1> QED
  BY <1>3, <1>5, <1>6, MemoryStep

\* What a step of the round in memory may do: the round becomes e, counting
\* each failed swap and only swaps whose coin came back; a channel is opened
\* only for a round that has none, and recorded next unless it is lost.
RoundMoves(w, e, copy, pc) ==
    /\ e \in Entries /\ RoundOK(e) /\ copy \in Rows /\ pc \in {"after", "opened"}
    /\ copy.channels = With(w, e).channels /\ copy.state = task[w].copy.state
    /\ Goto(w, copy, pc)
    /\ pc = "opened" => e.state = "open_pending" /\ copy.state = "in_progress"
    /\ e.swap_attempts >= Entry(w).swap_attempts
    /\ Entry(w).state = "swap_pending" /\ e.state \in {"opening", "open_pending", "open_active"}
          => e.swap_attempts > Entry(w).swap_attempts
    /\ e.state = "opening" => Entry(w).state = "opening"
    /\ e.state = "settled" /\ e.swap_id # 0
          => copy.realized = task[w].copy.realized + 1 /\ swaps[e.swap_id].coin = "claimed"
    /\ ~(e.state = "settled" /\ e.swap_id # 0) => copy.realized = task[w].copy.realized

RoundAction(w) ==
    \/ OpeningFails(w) \/ Opening(w) \/ OpenPending(w) \/ OpenActiveNoSwap(w)
    \/ SwapPending(w) \/ Wait(w) \/ WaitLate(w) \/ NoAnswer(w)

\* A round that is left as it is.
LEMMA RoundLeft ==
    ASSUME TicksInv, NEW w \in Workers, At(w, "round"), Goto(w, task[w].copy, "after")
    PROVE  RoundMoves(w, Entry(w), task[w].copy, "after")
<1>1. task[w].pc = "round" /\ task[w].pc \in RoundPcs
  BY DEF At, RoundPcs
<1>2. InBoot(w) /\ InRound(w)
  BY <1>1, RoundFacts
<1>3. /\ task[w].copy.channels \in Seq(Entries) /\ task[w].copy \in Rows
      /\ task[w].slot = Len(task[w].copy.channels) /\ task[w].slot > 0
      /\ Entry(w) \in Entries /\ RoundOK(Entry(w))
      /\ task[w].copy.channels[task[w].slot].state \in Going
  BY <1>1, <1>2 DEF InBoot, InRound, BootTask
<1>4. Replaced(w, Entry(w))
  BY <1>1, <1>3, WithFields
<1>5. With(w, Entry(w)).channels = task[w].copy.channels
  <2> DEFINE a == With(w, Entry(w)).channels
             b == task[w].copy.channels
  <2>1. DOMAIN a = 1..task[w].slot /\ DOMAIN b = 1..task[w].slot /\ a \in Seq(Entries) /\ b \in Seq(Entries)
    BY <1>3, <1>4 DEF Replaced, Replaces, RoundsOK
  <2>2. a[task[w].slot] = b[task[w].slot] /\ \A c \in 1..task[w].slot : c # task[w].slot => a[c] = b[c]
    BY Zenon, <1>4 DEF Replaced, Replaces, Entry
  <2> HIDE DEF a, b
  <2>3. \A c \in 1..task[w].slot : a[c] = b[c]
    BY Zenon, <2>2
  <2>4. a = [c \in 1..task[w].slot |-> a[c]] /\ b = [c \in 1..task[w].slot |-> b[c]]
    BY <2>1
  <2>5. a = b
    BY Zenon, <2>3, <2>4
  <2> QED
    BY <2>5 DEF a, b
<1>6. Entry(w).state # "settled" /\ Entry(w).swap_attempts \in Nat
  <2>1. Entry(w).swap_attempts \in Nat
    BY <1>3, MixAssumption DEF Entries
  <2> QED
    BY Zenon, <1>3, <2>1 DEF Entry, Going, RoundTerminal
<1> QED
  BY <1>3, <1>5, <1>6 DEF RoundMoves

\* Every step of the round is of that form.
LEMMA RoundActions ==
    ASSUME TicksInv, WorldInv, NEW w \in Workers, RoundAction(w)
    PROVE  At(w, "round") /\ \E e, copy, pc : RoundMoves(w, e, copy, pc)
<1>1. At(w, "round") /\ task[w].pc = "round" /\ task[w].pc \in RoundPcs
  BY DEF RoundAction, OpeningFails, Opening, OpenPending, OpenActiveNoSwap, SwapPending, Wait,
         WaitLate, NoAnswer, NotThere, Round, At, RoundPcs
<1>2. InBoot(w) /\ InRound(w)
  BY <1>1, RoundFacts
<1> SUFFICES \E e, copy, pc : RoundMoves(w, e, copy, pc)
  BY <1>1
<1> DEFINE old == Entry(w)
<1>3. /\ task[w].copy \in Rows /\ old \in Entries /\ RoundOK(old)
      /\ old.state \notin RoundTerminal /\ old.state \in RoundStates
      /\ old.state # "swap_pending" => task[w].copy.state = "in_progress"
      /\ old.swap_attempts \in Nat
      /\ old.state \in {"opening", "open_pending", "open_active"} => old.swap_id = 0
      /\ old.state = "swap_pending" => old.swap_id \in Swaps
  <2>1. /\ task[w].copy \in Rows /\ old \in Entries /\ RoundOK(old)
        /\ task[w].copy.channels[task[w].slot].state \in Going
        /\ task[w].copy.channels[task[w].slot].state # "swap_pending" => task[w].copy.state = "in_progress"
    BY <1>1, <1>2 DEF InBoot, InRound, BootTask
  <2>2. old.swap_attempts \in Nat /\ old.swap_id \in Swaps \cup {0}
    BY <2>1 DEF Entries
  <2> QED
    BY Zenon, <2>1, <2>2 DEF Entry, Going, RoundOK
<1> HIDE DEF old
<1>4. ASSUME NEW e \in Entries, RoundOK(e), NEW pc \in {"after", "opened"}, Goto(w, With(w, e), pc),
             pc = "opened" => e.state = "open_pending" /\ task[w].copy.state = "in_progress",
             e.swap_attempts >= old.swap_attempts,
             old.state = "swap_pending" /\ e.state \in {"opening", "open_pending", "open_active"}
                => e.swap_attempts > old.swap_attempts,
             e.state = "opening" => old.state = "opening",
             ~(e.state = "settled" /\ e.swap_id # 0)
      PROVE  \E f, copy, q : RoundMoves(w, f, copy, q)
  <2>1. Replaced(w, e)
    BY <1>1, <1>4, WithFields
  <2>2. RoundMoves(w, e, With(w, e), pc)
    BY <1>4, <2>1 DEF RoundMoves, Replaced, old
  <2> QED
    BY <2>2
<1>5. CASE OpeningFails(w)
  <2>1. CASE Goto(w, task[w].copy, "after")
    BY <1>1, <2>1, RoundLeft
  <2>2. ASSUME NEW f \in {NextPeer(old), NotOnline(old), [old EXCEPT !.state = "open_failed"]},
               Goto(w, With(w, f), "after"), old.state = "opening"
        PROVE  \E e, copy, pc : RoundMoves(w, e, copy, pc)
    <3>1. /\ f \in Entries /\ RoundOK(f)
          /\ f.swap_attempts = old.swap_attempts /\ f.swap_id = 0
          /\ f.state \in {"opening", "open_failed"}
      BY Zenon, <1>3, <2>2, RoundOpens
    <3> QED
      BY <1>3, <1>4, <2>2, <3>1
  <2> QED
    BY <1>5, <2>1, <2>2 DEF OpeningFails, Round, old
<1>6. CASE Opening(w)
  <2>0. old.state = "opening"
    BY <1>6 DEF Opening, Round, old
  <2>1. CASE Goto(w, With(w, NextPeer(old)), "after")
    <3>1. /\ NextPeer(old) \in Entries /\ RoundOK(NextPeer(old))
          /\ NextPeer(old).swap_attempts = old.swap_attempts /\ NextPeer(old).swap_id = 0
          /\ NextPeer(old).state \in {"opening", "open_failed"}
      BY Zenon, <1>3, <2>0, RoundOpens
    <3> QED
      BY <1>3, <1>4, <2>0, <2>1, <3>1
  <2>2. CASE Goto(w, With(w, [old EXCEPT !.open_txid = TRUE, !.state = "open_pending", !.peer = 1]), "opened")
    <3> DEFINE f == [old EXCEPT !.open_txid = TRUE, !.state = "open_pending", !.peer = 1]
    <3>1. /\ f \in Entries /\ RoundOK(f)
          /\ f.state = "open_pending" /\ f.swap_attempts = old.swap_attempts /\ f.swap_id = old.swap_id
      BY Zenon, <1>3, <2>0, RoundOpened
    <3>2. Goto(w, With(w, f), "opened")
      BY <2>2
    <3> HIDE DEF f
    <3> QED
      BY <1>3, <1>4, <2>0, <3>1, <3>2
  <2> QED
    BY <1>6, <2>1, <2>2 DEF Opening, old
<1>7. CASE OpenPending(w)
  <2> DEFINE f == [old EXCEPT !.state = "open_active", !.waiting = FALSE]
  <2>1. old.state = "open_pending" /\ Goto(w, With(w, f), "after")
    BY <1>7 DEF OpenPending, Round, old
  <2>2. /\ f \in Entries /\ RoundOK(f)
        /\ f.state = "open_active" /\ f.swap_attempts = old.swap_attempts /\ f.swap_id = old.swap_id
    BY Zenon, <1>3, <2>1, RoundActive
  <2> HIDE DEF f
  <2> QED
    BY <1>3, <1>4, <2>1, <2>2
<1>8. CASE OpenActiveNoSwap(w)
  <2>1. /\ old.state = "open_active"
        /\ \E f \in {[old EXCEPT !.state = "settled"], DrainFails(old)} : Goto(w, With(w, f), "after")
    BY <1>8 DEF OpenActiveNoSwap, Round, old
  <2>2. CASE Goto(w, With(w, DrainFails(old)), "after")
    <3>1. /\ DrainFails(old) \in Entries /\ RoundOK(DrainFails(old))
          /\ DrainFails(old).state \in {old.state, "swap_failed"}
          /\ DrainFails(old).swap_attempts = old.swap_attempts + 1
      BY <1>3, RoundDrains
    <3> QED
      BY <1>3, <1>4, <2>1, <2>2, <3>1
  <2>3. CASE Goto(w, With(w, [old EXCEPT !.state = "settled"]), "after")
    <3> DEFINE f == [old EXCEPT !.state = "settled"]
    <3>1. /\ f \in Entries /\ RoundOK(f)
          /\ f.state = "settled" /\ f.swap_attempts = old.swap_attempts /\ f.swap_id = old.swap_id
      BY <1>3, RoundSettled
    <3>2. Goto(w, With(w, f), "after")
      BY <2>3
    <3> HIDE DEF f
    <3> QED
      BY <1>3, <1>4, <2>1, <3>1, <3>2
  <2> QED
    BY <2>1, <2>2, <2>3
<1>9. CASE Wait(w) \/ WaitLate(w)
  <2>1. CASE Goto(w, With(w, GiveUp(old)), "after")
    <3>1. /\ GiveUp(old) \in Entries /\ RoundOK(GiveUp(old))
          /\ GiveUp(old).state \in {"open_failed", "swap_failed"}
          /\ GiveUp(old).swap_attempts = old.swap_attempts
      BY <1>3, RoundGivenUp
    <3> QED
      BY <1>3, <1>4, <2>1, <3>1
  <2>2. CASE Goto(w, With(w, [old EXCEPT !.waiting = TRUE]), "after")
    <3> DEFINE f == [old EXCEPT !.waiting = TRUE]
    <3>1. /\ f \in Entries /\ RoundOK(f)
          /\ f.state = old.state /\ f.swap_attempts = old.swap_attempts /\ f.swap_id = old.swap_id
      BY Zenon, <1>3, RoundWaits
    <3>2. Goto(w, With(w, f), "after")
      BY <2>2
    <3> HIDE DEF f
    <3> QED
      BY <1>3, <1>4, <3>1, <3>2 DEF RoundTerminal
  <2> QED
    BY <1>9, <2>1, <2>2 DEF Wait, WaitLate, old
<1>10. CASE NoAnswer(w)
  BY <1>1, <1>10, RoundLeft DEF NoAnswer
<1>11. CASE SwapPending(w)
  <2> DEFINE over == [old EXCEPT !.waiting = FALSE]
             tried == DrainFails(over)
             again == [tried EXCEPT !.state = "open_active", !.swap_id = 0]
             done == [over EXCEPT !.state = "settled"]
  <2>0. old.state = "swap_pending"
    BY <1>11 DEF SwapPending, Round, old
  <2>1. \/ /\ swaps[over.swap_id].status = "completed"
           /\ Goto(w, [With(w, done) EXCEPT !.realized = @ + 1], "after")
        \/ Goto(w, With(w, IF tried.state = "swap_failed" THEN tried ELSE again), "after")
    BY <1>11 DEF SwapPending, old
  <2>2. /\ over \in Entries /\ RoundOK(over)
        /\ over.state = old.state /\ over.swap_attempts = old.swap_attempts /\ over.swap_id = old.swap_id
    BY Zenon, <1>3, RoundWaits
  <2> HIDE DEF over
  <2>3. /\ tried \in Entries /\ RoundOK(tried)
        /\ tried.state \in {over.state, "swap_failed"}
        /\ tried.swap_attempts = over.swap_attempts + 1
    BY <1>3, <2>2, RoundDrains
  <2>4. /\ done \in Entries /\ RoundOK(done)
        /\ done.state = "settled" /\ done.swap_attempts = over.swap_attempts /\ done.swap_id = over.swap_id
    BY <1>3, <2>2, RoundSettled
  <2> HIDE DEF tried, done
  <2>5. CASE Goto(w, With(w, tried), "after") /\ tried.state = "swap_failed"
    BY <1>3, <1>4, <2>2, <2>3, <2>5
  <2>6. CASE Goto(w, With(w, again), "after") /\ tried.state # "swap_failed"
    <3>1. /\ again \in Entries /\ RoundOK(again)
          /\ again.state = "open_active" /\ again.swap_attempts = tried.swap_attempts
      BY Zenon, <2>0, <2>2, <2>3, <2>6, RoundRetries
    <3> HIDE DEF again
    <3> QED
      BY <1>3, <1>4, <2>2, <2>3, <2>6, <3>1
  <2>7. CASE /\ swaps[over.swap_id].status = "completed"
             /\ Goto(w, [With(w, done) EXCEPT !.realized = @ + 1], "after")
    <3> DEFINE copy == [With(w, done) EXCEPT !.realized = @ + 1]
    <3>1. Replaced(w, done)
      BY <1>1, <2>4, WithFields
    <3>2. /\ copy \in Rows /\ copy.channels = With(w, done).channels
          /\ copy.state = task[w].copy.state /\ copy.realized = task[w].copy.realized + 1
      BY <3>1 DEF Replaced, Rows
    <3>3. Goto(w, copy, "after")
      BY <2>7
    <3>4. swaps[done.swap_id].coin = "claimed" /\ done.swap_id # 0
      BY <1>3, <2>0, <2>2, <2>4, <2>7, MixAssumption DEF WorldInv, Truthful
    <3> HIDE DEF copy
    <3>5. RoundMoves(w, done, copy, "after")
      BY <1>3, <2>2, <2>4, <3>2, <3>3, <3>4 DEF RoundMoves, old
    <3> QED
      BY <3>5
  <2> QED
    BY <2>1, <2>5, <2>6, <2>7
<1> QED
  BY <1>1, <1>5, <1>6, <1>7, <1>8, <1>9, <1>10, <1>11 DEF RoundAction

\* What whoever holds the row commits is the row.
LEMMA HolderWrites ==
    ASSUME TicksInv, NEW w \in Workers, lock = w, NEW copy \in Rows,
           NEW pc \in Pcs, NEW made \in Swaps \cup {0}, Commit(w, copy, pc, made)
    PROVE  /\ Committed(w, copy, pc, made)
           /\ run'.state = copy.state /\ run'.channels = copy.channels /\ run'.realized = copy.realized
<1>1. task \in [Workers -> Tasks] /\ run \in Rows /\ task[w].base = run
  BY DEF TicksInv, TickOK
<1>2. Committed(w, copy, pc, made)
  BY Zenon, <1>1, CommitFields
<1> QED
  BY <1>1, <1>2 DEF Committed

\* The commit that records a channel or makes a swap.
LEMMA GoesOn ==
    ASSUME TicksInv, NEW w \in Workers, task[w].pc \in {"round", "opened"}, UNCHANGED mode,
           Entry(w).state \in {"open_pending", "open_active"},
           NEW pc \in {"after", "made"}, pc = "made" => Entry(w).state = "open_active",
           NEW made \in Swaps \cup {0}, pc = "made" => made # 0, Commit(w, task[w].copy, pc, made)
    PROVE  TicksInv'
<1>1. InBoot(w) /\ InRound(w)
  BY RoundFacts DEF RoundPcs
<1> DEFINE copy == task[w].copy
<1>2. /\ mode = "bootstrap" /\ Busy(w) /\ lock = w /\ copy \in Rows
      /\ RoundsOK(copy.channels) /\ task[w].slot = Len(copy.channels) /\ task[w].slot > 0
      /\ copy.state = "in_progress"
  BY <1>1 DEF InBoot, InRound, BootTask, Entry
<1>3. pc \in Pcs
  BY DEF Pcs, BootPcs
<1>4. Committed(w, copy, pc, made) /\ run'.state = copy.state /\ run'.channels = copy.channels
  BY <1>2, <1>3, HolderWrites
<1>5. Entry(w).state \in Going /\ Entry(w) = copy.channels[Len(copy.channels)]
  BY <1>2 DEF Going, RoundStates, RoundTerminal, Entry
<1>6. BootRow(run')
  BY <1>2, <1>4, <1>5 DEF BootRow, LastIn, Terminal
<1>7. /\ task'[w].pc = pc /\ task'[w].copy = copy /\ task'[w].base = copy
      /\ task'[w].slot = task[w].slot /\ task'[w].made = made
  BY <1>4 DEF Committed
<1>8. BootTask(task'[w]) /\ BootFree(task'[w])
  BY <1>2, <1>5, <1>7 DEF BootTask, BootFree, BootPcs, Terminal, Entry
<1> QED
  BY <1>2, <1>3, <1>6, <1>8, CommitStep

\* The commit that links the swap, with the row in hand or not.
LEMMA Links ==
    ASSUME TicksInv, NEW w \in Workers, LinkSwap(w)
    PROVE  TicksInv'
<1>1. task[w].pc = "made" /\ task[w].pc \in RoundPcs /\ UNCHANGED mode
  BY DEF LinkSwap, At, RoundPcs
<1>2. InBoot(w) /\ InRound(w)
  BY <1>1, RoundFacts
<1> DEFINE linked == [Entry(w) EXCEPT !.swap_id = task[w].made, !.state = "swap_pending", !.waiting = FALSE]
           copy == With(w, linked)
<1>3. Commit(w, copy, "after", 0)
  BY DEF LinkSwap
<1>4. /\ mode = "bootstrap" /\ Busy(w) /\ task[w].made \in Swaps /\ Entry(w).state = "open_active"
      /\ Entry(w) \in Entries /\ RoundOK(Entry(w))
      /\ task[w].copy.state = "in_progress" /\ task[w].slot > 0
      /\ lock # w => task[w].base = task[w].copy
      /\ lock = w => task[w].base = run
  <2>1. task[w].made # 0 /\ task[w].made \in Swaps \cup {0}
    BY <1>1, <1>2 DEF InBoot, BootTask, Tasks
  <2> QED
    BY <1>1, <1>2, <2>1 DEF InBoot, InRound, BootTask, BootFree, Entry
<1>5. linked \in Entries /\ RoundOK(linked) /\ linked.state = "swap_pending"
  <2> DEFINE e == Entry(w)
             i == task[w].made
  <2>1. e \in Entries /\ RoundOK(e) /\ e.state = "open_active" /\ i \in Swaps
    BY <1>4
  <2>2. linked = Linked(e, i)
    BY DEF Linked
  <2> HIDE DEF e, i, linked
  <2> QED
    BY <2>1, <2>2, RoundLinked
<1> HIDE DEF linked
<1>6. Replaced(w, linked)
  BY <1>1, <1>5, WithFields
<1>7. /\ copy \in Rows /\ RoundsOK(copy.channels) /\ copy.state = "in_progress"
      /\ Len(copy.channels) = task[w].slot /\ copy.channels[task[w].slot] = linked
  BY <1>4, <1>6 DEF Replaced, Replaces
<1>8. copy.channels # task[w].copy.channels
  BY <1>4, <1>5, <1>7 DEF Entry
<1> HIDE DEF copy
<1>9. Committed(w, copy, "after", 0)
  BY <1>3, <1>7, CommitFields DEF TicksInv, Pcs, BootPcs
<1>10. run'.channels = copy.channels
  BY <1>4, <1>8, <1>9 DEF Committed
<1>11. BootRow(run')
  BY <1>4, <1>5, <1>7, <1>10 DEF BootRow, LastIn, Going, RoundStates, RoundTerminal
<1>12. /\ task'[w].pc = "after" /\ task'[w].copy = copy /\ task'[w].base = copy
       /\ task'[w].slot = task[w].slot
  BY <1>9 DEF Committed
<1>13. BootTask(task'[w]) /\ BootFree(task'[w])
  BY <1>4, <1>5, <1>7, <1>12 DEF BootTask, BootFree, BootPcs, Terminal, Going, RoundStates, RoundTerminal
<1>14. "after" \in Pcs /\ 0 \in Swaps \cup {0}
  BY DEF Pcs, BootPcs
<1> QED
  BY <1>1, <1>3, <1>4, <1>7, <1>11, <1>13, <1>14, CommitStep

\* A tick that holds the row ends by committing it.
LEMMA HolderEnds ==
    ASSUME TicksInv, NEW w \in Workers, lock = w, UNCHANGED mode, mode = "bootstrap",
           NEW copy \in Rows, BootRow(copy), Commit(w, copy, "idle", 0)
    PROVE  TicksInv'
<1>1. Busy(w) /\ "idle" \in Pcs /\ 0 \in Swaps \cup {0}
  BY DEF TicksInv, TickOK, Pcs, BootPcs
<1>2. run'.state = copy.state /\ run'.channels = copy.channels
  BY <1>1, HolderWrites
<1>3. BootRow(run')
  BY <1>2 DEF BootRow
<1> QED
  BY <1>1, <1>3, CommitStep

\* The end of a step: the round goes on, or the run has failed, or the next
\* round is up.
LEMMA Ends ==
    ASSUME TicksInv, NEW w \in Workers, After(w)
    PROVE  TicksInv'
<1>1. task[w].pc = "after" /\ task[w].pc \in RoundPcs /\ UNCHANGED mode
  BY DEF After, At, RoundPcs
<1>2. InBoot(w) /\ InRound(w)
  BY <1>1, RoundFacts
<1> DEFINE copy == task[w].copy
           last == copy.channels[Len(copy.channels)]
<1>3. /\ mode = "bootstrap" /\ Busy(w) /\ copy \in Rows /\ task[w] \in Tasks
      /\ RoundsOK(copy.channels) /\ copy.state \notin Terminal
      /\ Len(copy.channels) > 0 /\ task[w].slot = Len(copy.channels)
      /\ lock # w => task[w].base = copy /\ copy.state = "in_progress" /\ last.state \in Going
      /\ BootRow(run)
  BY <1>1, <1>2 DEF InBoot, InRound, BootFree
<1>4. /\ InFlight(copy) = {} <=> LastIn(copy.channels, RoundTerminal)
      /\ \A c \in InFlight(copy) : /\ c = Len(copy.channels) /\ Len(copy.channels) > 0
                                   /\ copy.channels[c].state \in Going
  BY <1>3, OneInFlight
<1>5. InFlight(copy) = {} => lock = w /\ last.state \in RoundTerminal
  BY <1>3, <1>4 DEF LastIn, Going
<1>6. InFlight(copy) # {} => last.state \in Going
  BY <1>4
<1>7. CASE InFlight(copy) # {} /\ Commit(w, [copy EXCEPT !.state = "in_progress"], "idle", 0)
  <2> DEFINE new == [copy EXCEPT !.state = "in_progress"]
  <2>1. new \in Rows /\ new.state = "in_progress" /\ new.channels = copy.channels
    BY <1>3 DEF Rows
  <2>2. BootRow(new)
    BY <1>3, <1>6, <1>7, <2>1 DEF BootRow, LastIn
  <2>3. Commit(w, new, "idle", 0)
    BY <1>7
  <2> HIDE DEF new
  <2>4. CASE lock = w
    BY <1>1, <1>3, <2>1, <2>2, <2>3, <2>4, HolderEnds
  <2>5. CASE lock # w
    <3>1. Committed(w, new, "idle", 0)
      BY <2>1, <2>3, CommitFields DEF TicksInv, Pcs, BootPcs
    <3>2. run'.state = run.state /\ run'.channels = run.channels
      BY <1>3, <2>1, <2>5, <3>1 DEF Committed
    <3>3. BootRow(run')
      BY <1>3, <3>2 DEF BootRow
    <3>4. "idle" \in Pcs /\ 0 \in Swaps \cup {0}
      BY DEF Pcs, BootPcs
    <3> QED
      BY <1>1, <1>3, <2>1, <2>3, <3>3, <3>4, CommitStep
  <2> QED
    BY <2>4, <2>5
<1>8. CASE InFlight(copy) = {} /\ Commit(w, Finalize(copy, "partial_failure"), "idle", 0)
  <2> DEFINE new == Finalize(copy, "partial_failure")
  <2>1. new \in Rows /\ new.state = "partial_failure" /\ new.channels = copy.channels
    BY <1>3 DEF Rows, Finalize, Terminal
  <2>2. BootRow(new)
    BY <1>3, <2>1 DEF BootRow, Terminal
  <2>3. Commit(w, new, "idle", 0)
    BY <1>8
  <2> HIDE DEF new
  <2> QED
    BY <1>1, <1>3, <1>5, <1>8, <2>1, <2>2, <2>3, HolderEnds
<1>9. CASE InFlight(copy) = {} /\ last.state = "settled" /\ Goto(w, copy, "start")
  <2>1. /\ task' \in [Workers -> Tasks] /\ UNCHANGED <<run, lock>>
        /\ \A v \in Workers : v # w => task'[v] = task[v]
        /\ task'[w].pc = "start" /\ task'[w].copy = copy /\ task'[w].base = task[w].base
    BY <1>3, <1>9, GotoFields DEF TicksInv, Pcs, BootPcs
  <2>2. BootTask(task'[w])
    BY <1>3, <1>9, <2>1 DEF BootTask, BootPcs, LastIn
  <2> QED
    BY <1>1, <1>3, <1>5, <1>9, <2>1, <2>2, MemoryStep
<1> QED
  BY <1>7, <1>8, <1>9 DEF After

\* Where a tick takes up the run.
LEMMA Advances ==
    ASSUME TicksInv, NEW w \in Workers, Advance(w)
    PROVE  TicksInv'
<1>1. task[w].pc = "advance" /\ UNCHANGED <<mode, run, lock>>
  BY DEF Advance, At
<1>2. InBoot(w)
  BY <1>1, BootFacts DEF BootPcs
<1> DEFINE copy == task[w].copy
<1>3. /\ mode = "bootstrap" /\ Busy(w) /\ lock = w /\ copy = run /\ task[w] \in Tasks
      /\ BootRow(copy) /\ copy.state \notin Terminal /\ RoundsOK(copy.channels)
      /\ task \in [Workers -> Tasks]
  BY <1>1, <1>2 DEF InBoot, BootTask, TicksInv
<1>4. /\ InFlight(copy) = {} <=> LastIn(copy.channels, RoundTerminal)
      /\ \A c \in InFlight(copy) : /\ c = Len(copy.channels) /\ Len(copy.channels) > 0
                                   /\ copy.channels[c].state \in Going
  BY <1>3, OneInFlight
<1>5. CASE InFlight(copy) = {} /\ task' = [task EXCEPT ![w].pc = "start"]
  <2>1. LastIn(copy.channels, {"settled"})
    BY <1>3, <1>4, <1>5 DEF BootRow, LastIn, Going
  <2>2. /\ task' \in [Workers -> Tasks] /\ \A v \in Workers : v # w => task'[v] = task[v]
        /\ task'[w].pc = "start" /\ task'[w].copy = copy /\ task'[w].base = task[w].base
    BY Zenon, <1>3, <1>5 DEF Tasks, Pcs, BootPcs
  <2>3. BootTask(task'[w])
    BY <1>3, <2>1, <2>2 DEF BootTask, BootPcs
  <2> QED
    BY <1>1, <1>3, <2>2, <2>3, MemoryStep
<1>6. ASSUME NEW c \in InFlight(copy), task' = [task EXCEPT ![w].pc = "round", ![w].slot = c]
      PROVE  TicksInv'
  <2>1. /\ c = Len(copy.channels) /\ c > 0 /\ copy.channels[c].state \in Going /\ c \in Nat
    BY <1>3, <1>4, <1>6 DEF RoundsOK
  <2>2. copy.channels[c].state # "swap_pending" => copy.state = "in_progress"
    BY <1>3, <2>1 DEF BootRow, LastIn, Going, RoundTerminal
  <2>3. /\ task' \in [Workers -> Tasks] /\ \A v \in Workers : v # w => task'[v] = task[v]
        /\ task'[w].pc = "round" /\ task'[w].copy = copy /\ task'[w].base = task[w].base
        /\ task'[w].slot = c
    BY Zenon, <1>3, <1>6, <2>1 DEF Tasks, Pcs, BootPcs
  <2>4. BootTask(task'[w])
    BY <1>3, <2>1, <2>2, <2>3 DEF BootTask, BootPcs
  <2> QED
    BY <1>1, <1>3, <2>3, <2>4, MemoryStep
<1> QED
  BY <1>5, <1>6 DEF Advance

\* Between two rounds.
InStart(w) ==
    /\ mode = "bootstrap" /\ Busy(w) /\ lock = w
    /\ task[w] \in Tasks /\ task[w].copy \in Rows /\ task[w].copy.state \notin Terminal
    /\ RoundsOK(task[w].copy.channels) /\ LastIn(task[w].copy.channels, {"settled"})

\* What a tick knows where it starts a round.
LEMMA StartFacts ==
    ASSUME TicksInv, NEW w \in Workers, At(w, "start")
    PROVE  InStart(w)
<1>1. task[w].pc = "start"
  BY DEF At
<1>2. InBoot(w)
  BY <1>1, BootFacts DEF BootPcs
<1> QED
  BY <1>1, <1>2 DEF InBoot, InStart, BootTask

\* The run ends or waits between two rounds.
LEMMA Pauses ==
    ASSUME TicksInv, NEW w \in Workers, EndRun(w) \/ AwaitFunds(w) \/ AwaitLate(w)
    PROVE  TicksInv'
<1>1. At(w, "start") /\ UNCHANGED mode
  BY DEF EndRun, AwaitFunds, AwaitLate
<1>2. InStart(w)
  BY <1>1, StartFacts
<1> DEFINE copy == task[w].copy
<1>3. /\ mode = "bootstrap" /\ lock = w /\ copy \in Rows /\ copy.state \notin Terminal
      /\ RoundsOK(copy.channels) /\ LastIn(copy.channels, {"settled"})
  BY <1>2 DEF InStart
<1> HIDE DEF copy
<1>4. \/ \E state \in Terminal \cup {"in_progress", "awaiting_funds"} :
            Commit(w, [copy EXCEPT !.state = state], "idle", 0)
      \/ Commit(w, [copy EXCEPT !.state = "awaiting_funds", !.awaiting_since = TRUE], "idle", 0)
  BY Zenon, <1>3 DEF EndRun, AwaitFunds, AwaitLate, Finalize, EndStates, Terminal, copy
<1>5. ASSUME NEW new \in Rows, new.channels = copy.channels, Commit(w, new, "idle", 0)
      PROVE  TicksInv'
  <2>1. BootRow(new)
    BY <1>3, <1>5 DEF BootRow, LastIn
  <2> QED
    BY <1>1, <1>3, <1>5, <2>1, HolderEnds
<1>6. ASSUME NEW state \in Terminal \cup {"in_progress", "awaiting_funds"}
      PROVE  /\ [copy EXCEPT !.state = state] \in Rows
             /\ [copy EXCEPT !.state = state].channels = copy.channels
  BY <1>3 DEF Rows
<1>7. /\ [copy EXCEPT !.state = "awaiting_funds", !.awaiting_since = TRUE] \in Rows
      /\ [copy EXCEPT !.state = "awaiting_funds", !.awaiting_since = TRUE].channels = copy.channels
  BY Zenon, <1>3 DEF Rows
<1> QED
  BY Zenon, <1>4, <1>5, <1>6, <1>7

\* The copy with a new round.
Extended(w) ==
    [task[w].copy EXCEPT !.channels = Append(@, NewEntry("skipped")), !.state = "in_progress",
                         !.awaiting_since = FALSE]

Extends(w) ==
    /\ Extended(w) \in Rows /\ Extended(w).state = "in_progress"
    /\ Extended(w).realized = task[w].copy.realized
    /\ RoundsOK(Extended(w).channels)
    /\ Len(Extended(w).channels) = Len(task[w].copy.channels) + 1
    /\ DOMAIN Extended(w).channels = 1..(Len(task[w].copy.channels) + 1)
    /\ Extended(w).channels[Len(task[w].copy.channels) + 1] = NewEntry("skipped")
    /\ \A c \in 1..Len(task[w].copy.channels) : Extended(w).channels[c] = task[w].copy.channels[c]

\* A round is started only when all the rounds before are settled, and there
\* is one left to start.
LEMMA ExtendFields ==
    ASSUME TicksInv, NEW w \in Workers, At(w, "start"), MayGoOn(task[w].copy)
    PROVE  Extends(w)
<1>1. InStart(w)
  BY StartFacts
<1> DEFINE copy == task[w].copy
           s == copy.channels
           r == Append(s, NewEntry("skipped"))
<1>2. /\ mode = "bootstrap" /\ copy \in Rows /\ RoundsOK(s) /\ LastIn(s, {"settled"})
  BY <1>1 DEF InStart
<1>3. Len(s) < Planned
  BY <1>2, AllSettled, MixAssumption DEF MayGoOn, Slots
<1>4. NewEntry("skipped") \in Entries /\ RoundOK(NewEntry("skipped"))
  BY <1>2, NewRound
<1>5. /\ RoundsOK(r) /\ Len(r) = Len(s) + 1 /\ DOMAIN r = 1..(Len(s) + 1)
      /\ r[Len(s) + 1] = NewEntry("skipped")
      /\ \A c \in 1..Len(s) : r[c] = s[c]
  BY <1>2, <1>3, <1>4, AppendRound
<1>6. /\ Extended(w) = [copy EXCEPT !.channels = r, !.state = "in_progress", !.awaiting_since = FALSE]
      /\ r \in Seq(Entries)
  BY <1>2, <1>5 DEF Extended, Rows, RoundsOK
<1> HIDE DEF r
<1>7. /\ Extended(w) \in Rows /\ Extended(w).state = "in_progress"
      /\ Extended(w).realized = copy.realized /\ Extended(w).channels = r
  BY Zenon, <1>2, <1>6 DEF Rows
<1> QED
  BY <1>5, <1>7 DEF Extends

\* The next round starts.
LEMMA Starts ==
    ASSUME TicksInv, NEW w \in Workers, StartRound(w)
    PROVE  TicksInv'
<1>1. At(w, "start") /\ MayGoOn(task[w].copy) /\ UNCHANGED <<mode, run, lock>>
  BY DEF StartRound
<1>2. InStart(w) /\ Extends(w)
  BY <1>1, StartFacts, ExtendFields
<1> DEFINE n == Len(task[w].copy.channels) + 1
<1>3. task' = [task EXCEPT ![w].copy = Extended(w), ![w].slot = n, ![w].pc = "round"]
  BY DEF StartRound, Extended
<1>4. n \in Nat /\ n > 0 /\ task \in [Workers -> Tasks]
  BY <1>2 DEF InStart, RoundsOK, TicksInv
<1>5. Extended(w) \in Rows
  BY <1>2 DEF Extends
<1> HIDE DEF n
<1> DEFINE t == [task[w] EXCEPT !.copy = Extended(w), !.slot = n, !.pc = "round"]
<1>a. task' = [task EXCEPT ![w] = t]
  BY Zenon, <1>3, <1>4
<1>b. /\ t \in Tasks /\ t.pc = "round" /\ t.copy = Extended(w) /\ t.base = task[w].base
      /\ t.slot = n /\ t.made = task[w].made /\ t.fresh = task[w].fresh
  BY Zenon, <1>4, <1>5 DEF Tasks, Pcs, BootPcs
<1> HIDE DEF t
<1>6. /\ task' \in [Workers -> Tasks] /\ \A v \in Workers : v # w => task'[v] = task[v]
      /\ task'[w].pc = "round" /\ task'[w].copy = Extended(w) /\ task'[w].base = task[w].base
      /\ task'[w].slot = n
  BY <1>4, <1>a, <1>b
<1>7. /\ RoundsOK(Extended(w).channels) /\ Len(Extended(w).channels) = n
      /\ Extended(w).channels[n] = NewEntry("skipped") /\ Extended(w).state = "in_progress"
  BY <1>2 DEF Extends, n
<1>8. NewEntry("skipped").state \in Going
  BY <1>2, NewRound DEF InStart, Going, RoundStates, RoundTerminal
<1>9. BootTask(task'[w])
  BY <1>4, <1>6, <1>7, <1>8 DEF BootTask, BootPcs, Terminal
<1>10. mode = "bootstrap" /\ lock = w /\ Busy(w)
  BY <1>2 DEF InStart
<1> QED
  BY <1>1, <1>6, <1>9, <1>10, MemoryStep

(***************************************************************************)
(* Parallel ticks.                                                         *)
(***************************************************************************)

InPar(w) ==
    /\ mode = "parallel" /\ Busy(w)
    /\ task[w] \in Tasks /\ task[w].copy \in Rows /\ task[w].base \in Rows
    /\ ParTask(task[w]) /\ ParRow(run) /\ run \in Rows
    /\ task[w].copy.channels \in [Slots -> Entries] /\ task[w].copy.channels \in Seq(Entries)
    /\ \A c \in Slots : task[w].copy.channels[c].state \in OpenStates
    /\ task[w].copy.state = "in_progress"
    /\ lock = w => task[w].base = run /\ ~Ended
    /\ lock # w => ParFree(task[w])

\* Every parallel tick is of that form.
LEMMA ParFacts ==
    ASSUME TicksInv, NEW w \in Workers, task[w].pc \in {"open", "resolve", "seed", "seeded"}
    PROVE  InPar(w)
<1>1. mode = "parallel"
  <2>1. mode \in {"parallel", "bootstrap"}
    BY MixAssumption DEF TicksInv
  <2>2. mode # "bootstrap"
    BY DEF TicksInv, TickOK, BootTask, BootPcs
  <2> QED
    BY <2>1, <2>2
<1>2. TickOK(w) /\ task[w] \in Tasks /\ ParRow(run) /\ Busy(w) /\ run \in Rows
  BY <1>1 DEF TicksInv, Busy
<1>3. task[w].copy \in Rows /\ task[w].base \in Rows
  BY <1>2 DEF Tasks
<1>4. ParTask(task[w]) /\ ParRow(task[w].copy) /\ task[w].copy.state = "in_progress"
  BY <1>1, <1>2 DEF TickOK, ParTask
<1>5. task[w].copy.channels \in Seq(Entries)
  BY <1>3 DEF Rows
<1>6. task[w].copy.channels \in [Slots -> Entries]
  BY <1>4, <1>5 DEF ParRow, Slots
<1>7. lock # w => ParFree(task[w])
  BY <1>1, <1>2 DEF TickOK
<1> QED
  BY <1>1, <1>2, <1>3, <1>4, <1>5, <1>6, <1>7 DEF TickOK, InPar, ParRow

\* What a step makes of the channels: none is queued again, neither to open
\* nor to seed.
Onward(s, r) ==
    /\ r \in [Slots -> Entries]
    /\ \A c \in Slots : /\ r[c].state \in OpenStates
                        /\ r[c].state = "queued" => s[c].state = "queued"
                        /\ r[c].seed = "queued" => s[c].seed = "queued"
                        /\ r[c].swap_attempts = s[c].swap_attempts

\* The copy of a tick, with its channels one step on.
LEMMA ParCopy ==
    ASSUME TicksInv, NEW w \in Workers, InPar(w), NEW r, Onward(task[w].copy.channels, r)
    PROVE  LET copy == [task[w].copy EXCEPT !.channels = r]
           IN copy \in Rows /\ ParRow(copy) /\ copy.state = "in_progress" /\ copy.channels = r
<1>1. r \in [1..Planned -> Entries] /\ Planned \in Nat /\ \A c \in Slots : r[c].state \in OpenStates
  BY MixAssumption DEF Onward, Slots
<1>2. r \in Seq(Entries) /\ Len(r) = Planned
  BY <1>1
<1> DEFINE copy == [task[w].copy EXCEPT !.channels = r]
<1>3. copy \in Rows /\ copy.channels = r /\ copy.state = "in_progress"
  BY <1>2 DEF InPar, Rows
<1> QED
  BY <1>1, <1>2, <1>3 DEF ParRow

\* One channel of them is changed.
LEMMA OneChannel ==
    ASSUME NEW w \in Workers, InPar(w), NEW k, NEW f \in Entries,
           k \in Slots => /\ f.state \in OpenStates
                          /\ f.state = "queued" => task[w].copy.channels[k].state = "queued"
                          /\ f.seed = "queued" => task[w].copy.channels[k].seed = "queued"
                          /\ f.swap_attempts = task[w].copy.channels[k].swap_attempts
    PROVE  Onward(task[w].copy.channels, [task[w].copy.channels EXCEPT ![k] = f])
<1> DEFINE s == task[w].copy.channels
           r == [s EXCEPT ![k] = f]
<1>1. s \in [Slots -> Entries] /\ \A c \in Slots : s[c].state \in OpenStates
  BY DEF InPar
<1> HIDE DEF s
<1>2. r \in [Slots -> Entries] /\ \A c \in Slots : r[c] = IF c = k THEN f ELSE s[c]
  BY Zenon, <1>1
<1>3. \A c \in Slots : /\ r[c].state \in OpenStates
                       /\ r[c].state = "queued" => s[c].state = "queued"
                       /\ r[c].seed = "queued" => s[c].seed = "queued"
                       /\ r[c].swap_attempts = s[c].swap_attempts
  <2> HIDE DEF r
  <2> QED
    BY <1>1, <1>2 DEF s
<1> QED
  BY <1>2, <1>3 DEF Onward, s

\* A channel that failed.
LEMMA ChannelFailed ==
    ASSUME NEW e \in Entries
    PROVE  /\ OpenFailed(e) \in Entries /\ OpenFailed(e).state = "open_failed"
           /\ OpenFailed(e).seed = "queued" => e.seed = "queued"
           /\ OpenFailed(e).swap_attempts = e.swap_attempts
BY Zenon DEF OpenFailed, Entries, OpenStates, SeedStates

\* A step of a parallel tick in memory.
ParMoves(w, r, t) ==
    /\ UNCHANGED <<mode, run, lock>>
    /\ Onward(task[w].copy.channels, r)
    /\ t \in Tasks /\ task' = [task EXCEPT ![w] = t]
    /\ t.copy = [task[w].copy EXCEPT !.channels = r]
    /\ t.base = task[w].base /\ t.made = task[w].made /\ task[w].fresh \subseteq t.fresh
    /\ t.pc \in {"open", "resolve", "seed"}
    /\ t.pc # "seed" => lock = w

\* It keeps the ticks in order.
LEMMA ParStep ==
    ASSUME TicksInv, NEW w \in Workers, InPar(w), NEW r, NEW t, ParMoves(w, r, t)
    PROVE  TicksInv'
<1> USE DEF ParMoves
<1>1. t.copy \in Rows /\ ParRow(t.copy) /\ t.copy.state = "in_progress"
  BY ParCopy
<1>2. /\ task' \in [Workers -> Tasks] /\ task'[w] = t /\ \A v \in Workers : v # w => task'[v] = task[v]
  BY DEF TicksInv
<1>3. ParTask(t)
  BY <1>1 DEF ParTask
<1>4. lock = w \/ ParFree(t)
  BY DEF InPar, ParFree
<1>5. mode = "parallel" /\ Busy(w) /\ t.pc # "idle"
  BY DEF InPar
<1> QED
  BY <1>2, <1>3, <1>4, <1>5, MemoryStep

\* Goto is one.
LEMMA ParGoto ==
    ASSUME TicksInv, NEW w \in Workers, InPar(w), UNCHANGED mode,
           NEW r, Onward(task[w].copy.channels, r), NEW pc \in {"resolve", "seed"},
           pc = "resolve" => lock = w, Goto(w, [task[w].copy EXCEPT !.channels = r], pc)
    PROVE  \E t : ParMoves(w, r, t)
<1> DEFINE copy == [task[w].copy EXCEPT !.channels = r]
           t == [task[w] EXCEPT !.copy = copy, !.pc = pc]
<1>1. copy \in Rows
  BY ParCopy
<1>2. Goto(w, copy, pc) /\ task \in [Workers -> Tasks] /\ pc \in Pcs
  BY DEF TicksInv, Pcs
<1> HIDE DEF copy
<1>3. task' = [task EXCEPT ![w] = t] /\ UNCHANGED <<run, lock>>
  BY Zenon, <1>2 DEF Goto
<1>4. /\ t \in Tasks /\ t.copy = copy /\ t.base = task[w].base /\ t.made = task[w].made
      /\ t.fresh = task[w].fresh /\ t.pc = pc
  BY Zenon, <1>1, <1>2 DEF Tasks
<1> HIDE DEF t
<1>5. ParMoves(w, r, t)
  BY <1>3, <1>4 DEF ParMoves, copy
<1> QED
  BY <1>5

\* A loop comes to a channel of the copy.
LEMMA FirstQueued ==
    ASSUME NEW w \in Workers, NEW c \in First(w, Queued)
    PROVE  c \in Slots /\ task[w].copy.channels[c].state = "queued"
BY DEF First, Queued

\* The slot that is seeded is open and waits for it.
LEMMA FirstSeedable ==
    ASSUME NEW w \in Workers, NEW c \in First(w, Seedable)
    PROVE  /\ c \in Slots /\ task[w].copy.channels[c].state = "open_active"
           /\ task[w].copy.channels[c].seed = "queued"
BY DEF First, Seedable

\* A channel is opened, or fails.
LEMMA Opens ==
    ASSUME TicksInv, NEW w \in Workers, OpenOne(w)
    PROVE  /\ InPar(w)
           /\ \E c \in Slots : \E r, t :
                 /\ ParMoves(w, r, t)
                 /\ task[w].copy.channels[c].state = "queued"
                 /\ r[c].state # "queued" /\ c \in t.fresh /\ t.pc = "open"
                 /\ MakeChannel(c) \/ UNCHANGED <<chan, opened>>
<1>1. task[w].pc = "open" /\ UNCHANGED <<mode, run, lock>>
  BY DEF OpenOne, At
<1>2. InPar(w) /\ lock = w
  BY <1>1, ParFacts DEF InPar, ParFree
<1> DEFINE s == task[w].copy.channels
<1>3. task \in [Workers -> Tasks] /\ task[w] \in Tasks /\ task[w].copy \in Rows
  BY <1>2 DEF TicksInv, InPar
<1>4. ASSUME NEW c \in First(w, Queued), NEW f,
             f \in {[s[c] EXCEPT !.state = "open_pending", !.open_txid = TRUE], OpenFailed(s[c])},
             task' = [task EXCEPT ![w].copy.channels[c] = f, ![w].fresh = @ \cup {c}],
             MakeChannel(c) \/ UNCHANGED <<chan, opened>>
      PROVE  \E d \in Slots : \E r, t :
                /\ ParMoves(w, r, t)
                /\ s[d].state = "queued"
                /\ r[d].state # "queued" /\ d \in t.fresh /\ t.pc = "open"
                /\ MakeChannel(d) \/ UNCHANGED <<chan, opened>>
  <2>1. c \in Slots /\ s[c].state = "queued"
    BY <1>4, FirstQueued
  <2>2. s[c] \in Entries
    BY <1>2, <2>1 DEF InPar
  <2>3. /\ f \in Entries /\ f.state \in {"open_pending", "open_failed"}
        /\ f.seed = "queued" => s[c].seed = "queued"
        /\ f.swap_attempts = s[c].swap_attempts
    <3> DEFINE e == s[c]
               g == [e EXCEPT !.state = "open_pending", !.open_txid = TRUE]
    <3>1. e \in Entries
      BY <2>2
    <3>2. f \in {g, OpenFailed(e)}
      BY <1>4
    <3> HIDE DEF e
    <3>3. /\ g \in Entries /\ g.state = "open_pending" /\ g.seed = e.seed
          /\ g.swap_attempts = e.swap_attempts
      BY Zenon, <3>1 DEF Entries, OpenStates
    <3> HIDE DEF g
    <3> QED
      BY <3>1, <3>2, <3>3, ChannelFailed DEF e
  <2> DEFINE r == [s EXCEPT ![c] = f]
             t == [task[w] EXCEPT !.copy = [task[w].copy EXCEPT !.channels = r], !.fresh = @ \cup {c}]
  <2>4. Onward(s, r)
    BY Zenon, <1>2, <2>1, <2>3, OneChannel DEF OpenStates
  <2>5. r[c] = f
    BY <1>2, <2>1 DEF InPar
  <2>6. [task[w].copy EXCEPT !.channels = r] \in Rows
    BY <1>2, <2>4, ParCopy
  <2>7. task' = [task EXCEPT ![w] = t]
    BY Zenon, <1>3, <1>4 DEF Tasks, Rows
  <2> HIDE DEF r
  <2>8. /\ t \in Tasks /\ t.copy = [task[w].copy EXCEPT !.channels = r] /\ t.base = task[w].base
        /\ t.made = task[w].made /\ t.fresh = task[w].fresh \cup {c} /\ t.pc = task[w].pc
    BY Zenon, <1>3, <2>1, <2>6 DEF Tasks
  <2> HIDE DEF t
  <2>9. ParMoves(w, r, t)
    BY <1>1, <1>2, <2>4, <2>7, <2>8 DEF ParMoves
  <2> QED
    BY <1>1, <1>4, <2>1, <2>3, <2>5, <2>8, <2>9
<1>5. \E c \in First(w, Queued) : \E f :
         /\ f \in {[s[c] EXCEPT !.state = "open_pending", !.open_txid = TRUE], OpenFailed(s[c])}
         /\ task' = [task EXCEPT ![w].copy.channels[c] = f, ![w].fresh = @ \cup {c}]
         /\ MakeChannel(c) \/ UNCHANGED <<chan, opened>>
  BY Zenon DEF OpenOne
<1> QED
  BY Zenon, <1>2, <1>4, <1>5

\* The channels are looked up, given up, or get their swap.
LEMMA Looks ==
    ASSUME TicksInv, NEW w \in Workers, Refresh(w) \/ Resolve(w) \/ ResolveLate(w) \/ Seeded(w)
    PROVE  InPar(w) /\ \E r, t : ParMoves(w, r, t)
<1>1. /\ task[w].pc \in {"open", "resolve", "seeded"}
      /\ UNCHANGED mode
  BY Zenon DEF Refresh, Resolve, ResolveLate, ResolveAs, Seeded, At
<1>2. InPar(w) /\ (task[w].pc = "open" => lock = w)
  BY <1>1, ParFacts DEF InPar, ParFree
<1> SUFFICES \E r, t : ParMoves(w, r, t)
  BY <1>2
<1> DEFINE s == task[w].copy.channels
<1>3. /\ s \in [Slots -> Entries] /\ (\A c \in Slots : s[c].state \in OpenStates)
      /\ task[w].copy \in Rows /\ task[w].made \in Swaps \cup {0}
  BY <1>2 DEF InPar, Tasks
<1>4. task[w].copy = [task[w].copy EXCEPT !.channels = s]
  BY <1>3 DEF Rows
<1>5. Onward(s, s)
  BY <1>3 DEF Onward
<1>6. ASSUME NEW pc \in {"resolve", "seed"}, pc = "resolve" => lock = w, Goto(w, task[w].copy, pc)
      PROVE  \E r, t : ParMoves(w, r, t)
  BY <1>1, <1>2, <1>4, <1>5, <1>6, ParGoto
<1>7. ASSUME NEW r, Onward(s, r), NEW pc \in {"resolve", "seed"}, pc = "resolve" => lock = w,
             Goto(w, [task[w].copy EXCEPT !.channels = r], pc)
      PROVE  \E q, t : ParMoves(w, q, t)
  BY <1>1, <1>2, <1>7, ParGoto
<1>8. CASE Refresh(w)
  <2> DEFINE up(e, last, c) ==
               IF e.state = "open_pending" /\ \E d \in last : chan[d] = "active" /\ PeerOf[d] = PeerOf[c]
               THEN [e EXCEPT !.state = "open_active"] ELSE e
             R(last) == [c \in Slots |-> up(s[c], last, c)]
  <2>0. \/ \E last \in LastListed : Goto(w, [task[w].copy EXCEPT !.channels = R(last)], "resolve")
        \/ Goto(w, task[w].copy, "resolve")
    BY <1>3, <1>8 DEF Refresh, Rows
  <2>5. lock = w
    BY <1>2, <1>8 DEF Refresh, At
  <2>6. CASE Goto(w, task[w].copy, "resolve")
    BY <1>6, <2>5, <2>6
  <2> SUFFICES ASSUME NEW last \in LastListed, Goto(w, [task[w].copy EXCEPT !.channels = R(last)], "resolve")
               PROVE  \E q, t : ParMoves(w, q, t)
    BY <2>0, <2>6
  <2> DEFINE r == R(last)
  <2>1. Goto(w, [task[w].copy EXCEPT !.channels = r], "resolve")
    OBVIOUS
  <2>2. ASSUME NEW c \in Slots
        PROVE  /\ r[c] \in Entries /\ r[c].state \in OpenStates
               /\ r[c].state = "queued" => s[c].state = "queued"
               /\ r[c].seed = s[c].seed /\ r[c].swap_attempts = s[c].swap_attempts
    <3> DEFINE e == s[c]
               f == [e EXCEPT !.state = "open_active"]
    <3>1. e \in Entries /\ e.state \in OpenStates
      BY <1>3
    <3>2. r[c] \in {e, f}
      OBVIOUS
    <3> HIDE DEF e, r
    <3>3. /\ f \in Entries /\ f.state = "open_active" /\ f.seed = e.seed
          /\ f.swap_attempts = e.swap_attempts
      BY Zenon, <3>1 DEF Entries, OpenStates
    <3> HIDE DEF f
    <3>4. r[c] = e \/ r[c] = f
      BY <3>2
    <3>5. e = s[c]
      BY DEF e
    <3> QED
      BY <3>1, <3>3, <3>4, <3>5 DEF OpenStates
  <2>3. r \in [Slots -> Entries]
    BY <2>2
  <2> HIDE DEF r
  <2>4. Onward(s, r)
    BY <2>2, <2>3 DEF Onward
  <2> QED
    BY <1>7, <2>1, <2>4, <2>5
<1>9. ASSUME NEW failed, ResolveAs(w, failed)
      PROVE  \E q, t : ParMoves(w, q, t)
  <2> DEFINE r == [c \in Slots |-> IF c \in failed THEN OpenFailed(s[c]) ELSE s[c]]
  <2>1. Goto(w, [task[w].copy EXCEPT !.channels = r], "seed")
    BY <1>3, <1>9 DEF ResolveAs, Rows
  <2>2. r \in [Slots -> Entries]
    BY <1>3, ChannelFailed
  <2>3. ASSUME NEW c \in Slots
        PROVE  /\ r[c].state \in OpenStates
               /\ r[c].state = "queued" => s[c].state = "queued"
               /\ r[c].seed = "queued" => s[c].seed = "queued"
               /\ r[c].swap_attempts = s[c].swap_attempts
    <3>1. r[c] = s[c] \/ r[c] = OpenFailed(s[c])
      OBVIOUS
    <3>2. s[c] \in Entries /\ s[c].state \in OpenStates
      BY <1>3
    <3> HIDE DEF r
    <3> QED
      BY <3>1, <3>2, ChannelFailed DEF OpenStates
  <2> HIDE DEF r
  <2>4. Onward(s, r)
    BY <2>2, <2>3 DEF Onward
  <2> QED
    BY <1>7, <2>1, <2>4
<1>10. CASE Resolve(w) \/ ResolveLate(w)
  BY <1>9, <1>10 DEF Resolve, ResolveLate
<1>11. CASE Seeded(w)
  <2> DEFINE i == task[w].made
             k == owner[i]
             r == [s EXCEPT ![k] = [s[k] EXCEPT !.seed = "seeded", !.swap_id = i]]
  <2>1. Goto(w, [task[w].copy EXCEPT !.channels = r], "seed")
    BY <1>3, <1>11 DEF Seeded, Rows
  <2>2. CASE k \in Slots
    <3> DEFINE e == s[k]
               f == [e EXCEPT !.seed = "seeded", !.swap_id = i]
    <3>1. e \in Entries /\ e.state \in OpenStates /\ i \in Swaps \cup {0}
      BY <1>3, <2>2
    <3> HIDE DEF e, i
    <3>2. /\ f \in Entries /\ f.state = e.state /\ f.seed = "seeded"
          /\ f.swap_attempts = e.swap_attempts
      BY Zenon, <3>1 DEF Entries, SeedStates
    <3> HIDE DEF f
    <3>3. Onward(s, [s EXCEPT ![k] = f])
      BY Zenon, <1>2, <2>2, <3>1, <3>2, OneChannel DEF e
    <3>4. r = [s EXCEPT ![k] = f]
      BY DEF f, e
    <3> QED
      BY <1>7, <2>1, <3>3, <3>4
  <2>3. CASE k \notin Slots
    <3>1. r = s
      BY <1>3, <2>3
    <3> QED
      BY <1>5, <1>7, <2>1, <3>1
  <2> QED
    BY <2>2, <2>3
<1> QED
  BY <1>2, <1>8, <1>10, <1>11

\* A tick commits, between or at its end.
LEMMA ParCommits ==
    ASSUME TicksInv, NEW w \in Workers, InPar(w), UNCHANGED mode,
           NEW copy \in Rows, ParRow(copy), NEW pc \in {"idle", "seeded"},
           NEW made \in Swaps \cup {0}, pc = "seeded" => copy.state = "in_progress",
           Commit(w, copy, pc, made)
    PROVE  TicksInv'
<1>1. /\ pc \in Pcs /\ task \in [Workers -> Tasks] /\ run \in Rows /\ ParRow(run)
      /\ mode = "parallel" /\ Busy(w)
  BY DEF TicksInv, Pcs, BootPcs, InPar
<1>2. Committed(w, copy, pc, made)
  BY <1>1, CommitFields
<1>3. run'.channels \in {copy.channels, run.channels}
  BY <1>2 DEF Committed
<1>4. ParRow(run')
  BY <1>1, <1>3 DEF ParRow
<1>5. pc # "idle" => /\ task'[w].pc = "seeded" /\ task'[w].copy = copy /\ task'[w].base = copy
  BY <1>2 DEF Committed
<1>6. pc # "idle" => ParTask(task'[w]) /\ ParFree(task'[w])
  BY <1>5 DEF ParTask, ParFree
<1> QED
  BY <1>1, <1>4, <1>6, CommitStep

\* What a tick that seeds does: the seed fails, or its swap is made and the
\* commit says so.
Seeds(w, c, r) ==
    /\ c \in Slots
    /\ task[w].copy.channels[c].seed = "queued" /\ r[c].seed # "queued"
    /\ Onward(task[w].copy.channels, r)
    /\ MakeSwap(w, c, [task[w].copy EXCEPT !.channels = r], "seeded")

\* A step of the seeding moves a slot, or makes a swap for one.
LEMMA SeedSteps ==
    ASSUME TicksInv, NEW w \in Workers, SeedOne(w)
    PROVE  /\ InPar(w)
           /\ \/ \E r, t : ParMoves(w, r, t) /\ UNCHANGED <<swaps, owner>>
              \/ \E c, r : Seeds(w, c, r)
<1>1. task[w].pc = "seed" /\ UNCHANGED mode
  BY DEF SeedOne, At
<1>2. InPar(w)
  BY <1>1, ParFacts
<1> DEFINE s == task[w].copy.channels
<1>3. /\ s \in [Slots -> Entries] /\ (\A c \in Slots : s[c].state \in OpenStates)
      /\ task[w].copy \in Rows /\ task[w] \in Tasks /\ task \in [Workers -> Tasks]
  BY <1>2 DEF InPar, TicksInv
<1>4. ASSUME NEW c \in First(w, Seedable), NEW seed \in {"seed_failed", "swapping"}
      PROVE  LET r == [s EXCEPT ![c] = [s[c] EXCEPT !.seed = seed]]
             IN c \in Slots /\ s[c].seed = "queued" /\ Onward(s, r) /\ r[c].seed # "queued"
  <2> DEFINE e == s[c]
             f == [e EXCEPT !.seed = seed]
  <2>1. c \in Slots /\ e.seed = "queued" /\ e \in Entries /\ e.state \in OpenStates
    BY <1>3, FirstSeedable
  <2> HIDE DEF e
  <2>2. f \in Entries /\ f.state = e.state /\ f.seed = seed /\ f.swap_attempts = e.swap_attempts
    BY Zenon, <2>1 DEF Entries, SeedStates
  <2> HIDE DEF f
  <2>3. Onward(s, [s EXCEPT ![c] = f])
    BY Zenon, <1>2, <2>1, <2>2, OneChannel DEF e
  <2>4. [s EXCEPT ![c] = f][c] = f
    BY <1>3, <2>1
  <2> QED
    BY Zenon, <2>1, <2>2, <2>3, <2>4 DEF e, f
<1>5. ASSUME NEW c \in First(w, Seedable),
             task' = [task EXCEPT ![w].copy.channels[c].seed = "seed_failed"],
             UNCHANGED <<run, lock, swaps, owner>>
      PROVE  \E r, t : ParMoves(w, r, t)
  <2> DEFINE r == [s EXCEPT ![c] = [s[c] EXCEPT !.seed = "seed_failed"]]
             t == [task[w] EXCEPT !.copy = [task[w].copy EXCEPT !.channels = r]]
  <2>1. Onward(s, r)
    BY Zenon, <1>4
  <2>2. [task[w].copy EXCEPT !.channels = r] \in Rows
    BY <1>2, <2>1, ParCopy
  <2>3. task' = [task EXCEPT ![w] = t]
    BY <1>3, <1>5 DEF Tasks, Rows
  <2> HIDE DEF r
  <2>4. /\ t \in Tasks /\ t.copy = [task[w].copy EXCEPT !.channels = r] /\ t.base = task[w].base
        /\ t.made = task[w].made /\ t.fresh = task[w].fresh /\ t.pc = task[w].pc
    BY Zenon, <1>3, <2>2 DEF Tasks
  <2> HIDE DEF t
  <2>5. ParMoves(w, r, t)
    BY Zenon, <1>1, <1>5, <2>1, <2>3, <2>4 DEF ParMoves
  <2> QED
    BY <2>5
<1>6. ASSUME NEW c \in First(w, Seedable),
             MakeSwap(w, c, [task[w].copy EXCEPT !.channels[c].seed = "swapping"], "seeded")
      PROVE  \E d, r : Seeds(w, d, r)
  <2> DEFINE r == [s EXCEPT ![c] = [s[c] EXCEPT !.seed = "swapping"]]
  <2>1. c \in Slots /\ s[c].seed = "queued" /\ Onward(s, r) /\ r[c].seed # "queued"
    BY Zenon, <1>4
  <2>2. [task[w].copy EXCEPT !.channels[c].seed = "swapping"] = [task[w].copy EXCEPT !.channels = r]
    BY <1>3 DEF Rows
  <2> HIDE DEF r
  <2>3. Seeds(w, c, r)
    BY <1>6, <2>1, <2>2 DEF Seeds
  <2> QED
    BY <2>3
<1> QED
  BY Zenon, <1>2, <1>5, <1>6 DEF SeedOne

(***************************************************************************)
(* The rest of the steps.                                                  *)
(***************************************************************************)

\* A message takes up the run.
LEMMA Begins ==
    ASSUME TicksInv, NEW w \in Workers, Begin(w)
    PROVE  TicksInv'
<1> DEFINE copy == IF mode = "parallel" THEN [run EXCEPT !.state = "in_progress"] ELSE run
           t == [Loaded(run) EXCEPT !.pc = IF mode = "parallel" THEN "open" ELSE "advance", !.copy = copy]
<1>1. /\ At(w, "idle") /\ lock = Nobody /\ ~Ended /\ lock' = w /\ UNCHANGED <<mode, run>>
      /\ task' = [task EXCEPT ![w] = t]
  BY DEF Begin
<1>2. /\ run \in Rows /\ task \in [Workers -> Tasks] /\ Nobody \notin Workers /\ mode \in Modes
      /\ mode \in {"parallel", "bootstrap"}
  BY MixAssumption DEF TicksInv
<1>3. copy \in Rows /\ copy.channels = run.channels /\ (mode = "parallel" => copy.state = "in_progress")
      /\ (mode = "bootstrap" => copy = run)
  BY <1>2 DEF Rows
<1> HIDE DEF copy
<1>4. /\ t.base = run /\ t.copy = copy /\ t.slot = 0 /\ t.made = 0 /\ t.fresh = {}
      /\ t.pc = IF mode = "parallel" THEN "open" ELSE "advance"
  BY DEF Loaded
<1>5. t \in Tasks
  <2>1. 0 \in Nat /\ {} \in SUBSET Slots /\ 0 \in Swaps \cup {0}
    OBVIOUS
  <2>2. (IF mode = "parallel" THEN "open" ELSE "advance") \in Pcs
    BY DEF Pcs, BootPcs
  <2> QED
    BY Zenon, <1>2, <1>3, <2>1, <2>2 DEF Loaded, Tasks
<1> HIDE DEF t
<1>6. /\ task' \in [Workers -> Tasks] /\ task'[w] = t /\ \A v \in Workers : v # w => task'[v] = task[v]
  BY <1>1, <1>2, <1>5
<1>7. mode = "bootstrap" => BootTask(t)
  <2>1. mode = "bootstrap" => RoundsOK(run.channels) /\ run.state \notin Terminal
    BY <1>1 DEF TicksInv, BootRow, Ended
  <2> QED
    BY <1>3, <1>4, <2>1 DEF BootTask, BootPcs
<1>8. mode = "parallel" => ParTask(t)
  BY <1>3, <1>4 DEF ParTask, TicksInv, ParRow
<1>9. TickOK(w)'
  BY <1>1, <1>2, <1>4, <1>6, <1>7, <1>8 DEF TickOK, Busy, Ended
<1>10. ASSUME NEW v \in Workers, v # w PROVE TickOK(v)'
  <2>1. TickOK(v) /\ task'[v] = task[v] /\ lock # v /\ lock' # v
    BY <1>1, <1>2, <1>6, <1>10 DEF TicksInv
  <2> QED
    BY <1>1, <2>1 DEF TickOK, Busy
<1> QED
  BY <1>1, <1>2, <1>6, <1>9, <1>10 DEF TicksInv

\* A worker dies.
LEMMA Crashes ==
    ASSUME TicksInv, NEW w \in Workers, Crash(w)
    PROVE  TicksInv'
<1>1. /\ UNCHANGED <<mode, run>> /\ task' = [task EXCEPT ![w] = Idle]
      /\ lock' = IF lock = w THEN Nobody ELSE lock
  BY DEF Crash
<1>2. Nobody \notin Workers /\ task \in [Workers -> Tasks] /\ lock' # w
      /\ lock' \in Workers \cup {Nobody}
  BY <1>1, MixAssumption DEF TicksInv
<1>3. /\ task' \in [Workers -> Tasks] /\ task'[w] = Idle /\ \A v \in Workers : v # w => task'[v] = task[v]
  BY <1>1, <1>2, IdleOK
<1>4. TickOK(w)'
  BY <1>2, <1>3, IdleOK DEF TickOK, Busy
<1>5. ASSUME NEW v \in Workers, v # w PROVE TickOK(v)'
  <2>1. TickOK(v) /\ task'[v] = task[v] /\ (lock' = v <=> lock = v)
    BY <1>1, <1>2, <1>3, <1>5 DEF TicksInv
  <2> QED
    BY <1>1, <2>1 DEF TickOK, Busy, Ended
<1> QED
  BY <1>1, <1>2, <1>3, <1>4, <1>5 DEF TicksInv

\* The user asks for an end: cooperatively, or at once.
LEMMA StopFields ==
    ASSUME run \in Rows, AskStop \/ AskForceStop
    PROVE  /\ lock = Nobody /\ UNCHANGED <<mode, lock, task>> /\ run' \in Rows
           /\ run'.channels = run.channels /\ run'.realized = run.realized
           /\ run'.state = run.state \/ run'.state \in Terminal
           /\ Ended => run'.state = run.state
           /\ AskStop => run'.state = run.state
<1> DEFINE asked == [run EXCEPT !.stop_requested = TRUE]
<1>1. /\ asked \in Rows /\ asked.channels = run.channels /\ asked.realized = run.realized
      /\ asked.state = run.state
  BY Zenon DEF Rows
<1>2. run' = asked \/ run' = Finalize(asked, "cancelled")
  BY DEF AskStop, AskForceStop
<1>3. AskStop => run' = asked
  BY DEF AskStop
<1> HIDE DEF asked
<1>4. run' = asked \/ (run' = [asked EXCEPT !.state = "cancelled"] /\ asked.state \notin Terminal)
  BY <1>2 DEF Finalize
<1>5. /\ run' \in Rows
      /\ run'.channels = run.channels /\ run'.realized = run.realized
      /\ run'.state = run.state \/ (run'.state \in Terminal /\ run.state \notin Terminal)
  BY <1>1, <1>4 DEF Rows, Terminal
<1>6. lock = Nobody /\ UNCHANGED <<mode, lock, task>>
  BY DEF AskStop, AskForceStop
<1> QED
  BY <1>1, <1>3, <1>5, <1>6 DEF Ended

\* A request writes an ending into the row.
LEMMA Requests ==
    ASSUME TicksInv, AskStop \/ AskForceStop
    PROVE  TicksInv'
<1>1. /\ lock = Nobody /\ UNCHANGED <<mode, lock, task>> /\ run' \in Rows
      /\ run'.channels = run.channels
      /\ run'.state = run.state \/ run'.state \in Terminal
  BY StopFields DEF TicksInv
<1>2. (mode = "bootstrap" => BootRow(run')) /\ (mode = "parallel" => ParRow(run'))
  BY <1>1 DEF TicksInv, BootRow, ParRow
<1>3. ASSUME NEW v \in Workers PROVE TickOK(v)'
  <2>1. TickOK(v) /\ task'[v] = task[v] /\ lock # v /\ lock' # v
    BY <1>1, <1>3, MixAssumption DEF TicksInv
  <2> QED
    BY <1>1, <2>1 DEF TickOK, Busy
<1> QED
  BY <1>1, <1>2, <1>3 DEF TicksInv

\* Steps that leave the row and the ticks alone.
LEMMA TicksLeft ==
    ASSUME TicksInv, UNCHANGED <<mode, run, lock, task>>
    PROVE  TicksInv'
BY DEF TicksInv, TickOK, Busy, Ended

\* Each step of a tick.
LEMMA TickStep ==
    ASSUME TicksInv, WorldInv, NEW w \in Workers, Step(w) \/ Late(w)
    PROVE  TicksInv'
<1>1. CASE RoundAction(w)
  <2>1. At(w, "round") /\ \E e, copy, pc : RoundMoves(w, e, copy, pc)
    BY <1>1, RoundActions
  <2>2. PICK e, copy, pc : RoundMoves(w, e, copy, pc)
    BY <2>1
  <2>3. UNCHANGED mode
    BY <1>1 DEF RoundAction, OpeningFails, Opening, OpenPending, OpenActiveNoSwap, SwapPending, Wait,
                WaitLate, NoAnswer
  <2> QED
    BY <2>1, <2>2, <2>3, RoundStep DEF RoundMoves
<1>2. CASE OpenOne(w)
  BY <1>2, Opens, ParStep
<1>3. CASE Refresh(w) \/ Resolve(w) \/ ResolveLate(w) \/ Seeded(w)
  BY <1>3, Looks, ParStep
<1>4. CASE SeedOne(w)
  <2>1. /\ InPar(w)
        /\ \/ \E r, t : ParMoves(w, r, t) /\ UNCHANGED <<swaps, owner>>
           \/ \E c, r : Seeds(w, c, r)
    BY <1>4, SeedSteps
  <2>2. ASSUME NEW c, NEW r, Seeds(w, c, r) PROVE TicksInv'
    <3> DEFINE copy == [task[w].copy EXCEPT !.channels = r]
    <3>1. Onward(task[w].copy.channels, r) /\ MakeSwap(w, c, copy, "seeded")
      BY <2>2 DEF Seeds
    <3>2. copy \in Rows /\ ParRow(copy) /\ copy.state = "in_progress"
      BY <2>1, <3>1, ParCopy
    <3> HIDE DEF copy
    <3>3. PICK i \in Swaps : Commit(w, copy, "seeded", i)
      BY <3>1 DEF MakeSwap
    <3>4. UNCHANGED mode
      BY <1>4 DEF SeedOne
    <3> QED
      BY <2>1, <3>2, <3>3, <3>4, ParCommits
  <2> QED
    BY <2>1, <2>2, ParStep
<1>5. CASE Rollup(w)
  <2>1. task[w].pc = "seed" /\ UNCHANGED mode
    BY <1>5 DEF Rollup, At
  <2>2. InPar(w)
    BY <2>1, ParFacts
  <2> DEFINE copy == Finalize(task[w].copy, RollupState(task[w].copy.channels))
  <2>3. RollupState(task[w].copy.channels) \in {"partial_failure", "complete", "in_progress"}
    BY DEF RollupState
  <2>4. copy \in Rows /\ copy.channels = task[w].copy.channels
    BY <2>2, <2>3 DEF Finalize, InPar, Rows, Terminal
  <2>5. ParRow(copy)
    BY <2>1, <2>2, <2>4 DEF InPar, ParTask, ParRow
  <2>6. Commit(w, copy, "idle", 0)
    BY <1>5 DEF Rollup
  <2> HIDE DEF copy
  <2> QED
    BY <2>1, <2>2, <2>4, <2>5, <2>6, ParCommits
<1>6. CASE RecordOpened(w)
  <2>1. task[w].pc = "opened" /\ UNCHANGED mode /\ Commit(w, task[w].copy, "after", 0)
    BY <1>6 DEF RecordOpened, At
  <2>2. Entry(w).state = "open_pending"
    BY Zenon, <2>1, BootFacts DEF InBoot, BootTask, BootPcs, Entry
  <2> QED
    BY <2>1, <2>2, GoesOn
<1>7. CASE OpenActive(w)
  <2>1. /\ task[w].pc = "round" /\ UNCHANGED mode /\ Entry(w).state = "open_active"
        /\ MakeSwap(w, task[w].slot, task[w].copy, "made")
    BY <1>7 DEF OpenActive, At, Round
  <2>2. PICK i \in Swaps : Commit(w, task[w].copy, "made", i)
    BY <2>1 DEF MakeSwap
  <2>3. i # 0
    BY MixAssumption
  <2> QED
    BY <2>1, <2>2, <2>3, GoesOn
<1> QED
  BY <1>1, <1>2, <1>3, <1>4, <1>5, <1>6, <1>7, Links, Ends, Advances, Pauses, Starts
     DEF Step, Late, RoundAction

\* What a tick does to the world.
TickWorld(w) ==
    /\ UNCHANGED <<chan, opened>> \/ \E c \in Slots : MakeChannel(c)
    /\ UNCHANGED <<swaps, owner>> \/ \E c \in Slots : \E copy, pc : MakeSwap(w, c, copy, pc)
    /\ Calm \/ Happens
    /\ UNCHANGED others
    /\ UNCHANGED overlap \/ overlap' = TRUE
    /\ UNCHANGED lost \/ lost' \in BOOLEAN

\* Every step of a tick changes no more than that.
LEMMA TickTouches ==
    ASSUME TicksInv, WorldInv, NEW w \in Workers, Begin(w) \/ Step(w) \/ Late(w) \/ Crash(w)
    PROVE  TickWorld(w)
<1>1. CASE Begin(w)
  BY <1>1 DEF Begin, TickWorld, World, Calm
<1>2. CASE Crash(w)
  <2>1. /\ UNCHANGED <<chan, opened, swaps, owner, others, overlap>> /\ Happens
        /\ lost' = \/ lost \/ At(w, "opened") \/ task[w].made # 0
                   \/ \E c \in task[w].fresh : opened[c] > 0 /\ run.channels[c].state = "queued"
    BY <1>2 DEF Crash, World
  <2>2. lost' \in BOOLEAN
    BY Zenon, <2>1
  <2> QED
    BY <2>1, <2>2 DEF TickWorld
<1>3. ASSUME OpenOne(w) PROVE TickWorld(w)
  <2>1. \E c \in Slots : MakeChannel(c) \/ UNCHANGED <<chan, opened>>
    BY <1>3, Opens
  <2>2. UNCHANGED <<swaps, owner, others, overlap, lost, events>>
    BY <1>3 DEF OpenOne
  <2> QED
    BY <2>1, <2>2 DEF TickWorld, Calm
<1>4. ASSUME SeedOne(w) PROVE TickWorld(w)
  <2>1. UNCHANGED <<swaps, owner>> \/ \E c \in Slots : \E copy, pc : MakeSwap(w, c, copy, pc)
    BY Zenon, <1>4, SeedSteps DEF Seeds
  <2>2. UNCHANGED <<chan, opened, others, overlap, lost, events>>
    BY <1>4 DEF SeedOne
  <2> QED
    BY <2>1, <2>2 DEF TickWorld, Calm
<1>5. ASSUME Opening(w) PROVE TickWorld(w)
  <2>1. task[w].pc = "round"
    BY <1>5 DEF Opening, Round, At
  <2>2. task[w].slot \in Slots
    BY <2>1, RoundFacts DEF RoundPcs, InRound
  <2>3. /\ MakeChannel(task[w].slot) /\ UNCHANGED <<swaps, owner, others, overlap>>
        /\ (Calm /\ UNCHANGED lost) \/ (Happens /\ lost' = TRUE)
    BY <1>5 DEF Opening
  <2> QED
    BY Zenon, <2>2, <2>3 DEF TickWorld
<1>6. ASSUME OpenActive(w) PROVE TickWorld(w)
  <2>1. task[w].pc = "round"
    BY <1>6 DEF OpenActive, Round, At
  <2>2. task[w].slot \in Slots
    BY <2>1, RoundFacts DEF RoundPcs, InRound
  <2>3. /\ MakeSwap(w, task[w].slot, task[w].copy, "made")
        /\ UNCHANGED <<chan, opened, others, overlap, lost, events>>
    BY <1>6 DEF OpenActive
  <2> QED
    BY <2>2, <2>3 DEF TickWorld, Calm
<1>7. ASSUME \/ Refresh(w) \/ Resolve(w) \/ ResolveLate(w) \/ Seeded(w) \/ Rollup(w)
             \/ Advance(w) \/ OpeningFails(w) \/ RecordOpened(w) \/ OpenPending(w)
      PROVE TickWorld(w)
  BY Zenon, <1>7 DEF TickWorld, World, Calm, Refresh, Resolve, ResolveLate, ResolveAs, Seeded, Rollup, Advance,
              OpeningFails, RecordOpened, OpenPending
<1>8. ASSUME \/ OpenActiveNoSwap(w) \/ LinkSwap(w) \/ SwapPending(w) \/ Wait(w) \/ NoAnswer(w)
             \/ After(w) \/ EndRun(w) \/ AwaitFunds(w) \/ StartRound(w) \/ WaitLate(w) \/ AwaitLate(w)
      PROVE TickWorld(w)
  BY Zenon, <1>8 DEF TickWorld, World, Calm, OpenActiveNoSwap, LinkSwap, SwapPending, Wait, NoAnswer, After,
              EndRun, AwaitFunds, StartRound, WaitLate, AwaitLate
<1> QED
  BY <1>1, <1>2, <1>3, <1>4, <1>5, <1>6, <1>7, <1>8 DEF Step, Late

\* The swap of a round in "swap_pending" is one of the swaps.
LEMMA PendingSwap ==
    ASSUME TicksInv, NEW c \in DOMAIN run.channels, run.channels[c].state = "swap_pending"
    PROVE  run.channels[c].swap_id \in Swaps /\ c \in Slots
<1>1. run.channels \in Seq(Entries) /\ c \in 1..Len(run.channels) /\ run.channels[c] \in Entries
  BY DEF TicksInv, Rows
<1>2. mode = "bootstrap"
  <2>1. mode \in {"parallel", "bootstrap"}
    BY MixAssumption DEF TicksInv
  <2>2. mode # "parallel"
    BY <1>1 DEF TicksInv, ParRow, OpenStates, Slots
  <2> QED
    BY <2>1, <2>2
<1>3. RoundOK(run.channels[c]) /\ Len(run.channels) <= Planned
  BY <1>1, <1>2 DEF TicksInv, BootRow, RoundsOK
<1>4. c \in Slots
  BY <1>1, <1>3, MixAssumption DEF Slots
<1> QED
  BY <1>1, <1>3, <1>4 DEF RoundOK, Entries

\* The world stays as its type says, and swaps truthful.
LEMMA WorldStep ==
    ASSUME TicksInv, WorldInv, Next
    PROVE  WorldInv'
<1> USE MixAssumption
<1>1. NoSwap \in SwapRows /\ NewSwap \in SwapRows /\ Truthful(NewSwap)
  BY DEF NoSwap, NewSwap, SwapRows, SwapStatuses, Truthful
<1>2. ASSUME NEW w \in Workers, TickWorld(w) PROVE WorldInv'
  <2>1. /\ chan' \in [Slots -> {"none", "down", "active", "gone"}]
        /\ opened' \in [Slots -> 0..MaxOpens]
    <3>1. CASE UNCHANGED <<chan, opened>>
      BY <3>1 DEF WorldInv
    <3>2. ASSUME NEW c \in Slots, MakeChannel(c)
          PROVE  /\ chan' \in [Slots -> {"none", "down", "active", "gone"}]
                 /\ opened' \in [Slots -> 0..MaxOpens]
      BY <3>2 DEF MakeChannel, WorldInv, MaxOpens
    <3> QED
      BY <1>2, <3>1, <3>2 DEF TickWorld
  <2>2. /\ swaps' \in [Swaps -> SwapRows] /\ \A i \in Swaps : Truthful(swaps[i])'
        /\ owner' \in [Swaps -> Slots \cup {0}]
    <3>1. CASE UNCHANGED <<swaps, owner>>
      BY <3>1 DEF WorldInv
    <3>2. ASSUME NEW c \in Slots, NEW i \in Swaps,
                 swaps' = [swaps EXCEPT ![i] = NewSwap], owner' = [owner EXCEPT ![i] = c]
          PROVE  /\ swaps' \in [Swaps -> SwapRows] /\ \A k \in Swaps : Truthful(swaps[k])'
                 /\ owner' \in [Swaps -> Slots \cup {0}]
      <4>1. swaps \in [Swaps -> SwapRows] /\ owner \in [Swaps -> Slots \cup {0}]
        BY DEF WorldInv
      <4>2. ASSUME NEW k \in Swaps PROVE Truthful(swaps[k])'
        <5>1. swaps'[k] = IF k = i THEN NewSwap ELSE swaps[k]
          BY <3>2, <4>1
        <5>2. Truthful(swaps[k])
          BY DEF WorldInv
        <5> QED
          BY <1>1, <5>1, <5>2
      <4> QED
        BY <1>1, <3>2, <4>1, <4>2
    <3> QED
      BY <1>2, <3>1, <3>2 DEF TickWorld, MakeSwap
  <2>3. events' \in 0..MaxEvents
    BY <1>2 DEF TickWorld, Calm, Happens, WorldInv
  <2>4. others' \in BOOLEAN /\ overlap' \in BOOLEAN /\ lost' \in BOOLEAN
    BY Zenon, <1>2 DEF TickWorld, WorldInv
  <2> QED
    BY <2>1, <2>2, <2>3, <2>4 DEF WorldInv
<1>3. ASSUME UNCHANGED <<chan, opened, swaps, owner>>, events' \in 0..MaxEvents,
             others' \in BOOLEAN, overlap' \in BOOLEAN, lost' \in BOOLEAN
      PROVE  WorldInv'
  BY <1>3 DEF WorldInv
<1>4. /\ (Happens => events' \in 0..MaxEvents) /\ events \in 0..MaxEvents
      /\ others \in BOOLEAN /\ overlap \in BOOLEAN /\ lost \in BOOLEAN
  BY DEF Happens, WorldInv
<1>5. CASE AskStop
  BY <1>3, <1>4, <1>5 DEF AskStop, World
<1>6. CASE AskForceStop
  <2>1. overlap' \in BOOLEAN
    BY <1>6 DEF AskForceStop
  <2> QED
    BY <1>3, <1>4, <1>6, <2>1 DEF AskForceStop, World
<1>7. CASE Execute
  BY <1>3, <1>4, <1>7 DEF Execute, World
<1>8. CASE ChannelMoves
  <2>1. chan' \in [Slots -> {"none", "down", "active", "gone"}]
    BY Zenon, <1>8 DEF ChannelMoves, WorldInv
  <2>2. UNCHANGED <<opened, swaps, owner, others, overlap, lost, events>>
    BY <1>8 DEF ChannelMoves
  <2> QED
    BY <2>1, <2>2 DEF WorldInv
<1>9. CASE SwapMoves
  <2>1. PICK c \in DOMAIN run.channels : /\ run.channels[c].state = "swap_pending"
                                         /\ Move(run.channels[c].swap_id)
    BY <1>9 DEF SwapMoves
  <2> DEFINE i == run.channels[c].swap_id
  <2>2. i \in Swaps
    BY <2>1, PendingSwap
  <2>3. PICK t \in TruthfulRows : swaps' = [swaps EXCEPT ![i] = t]
    BY Zenon, <2>1 DEF Move
  <2> HIDE DEF i
  <2>4. swaps \in [Swaps -> SwapRows] /\ t \in SwapRows /\ Truthful(t)
    BY DEF WorldInv, TruthfulRows
  <2>5. swaps' \in [Swaps -> SwapRows]
    BY Zenon, <2>3, <2>4
  <2>6. ASSUME NEW k \in Swaps PROVE Truthful(swaps[k])'
    <3>1. swaps'[k] = IF k = i THEN t ELSE swaps[k]
      BY <2>3, <2>4
    <3>2. Truthful(swaps[k])
      BY DEF WorldInv
    <3> QED
      BY <2>4, <3>1, <3>2
  <2>7. UNCHANGED <<chan, opened, owner, others, overlap, lost, events>>
    BY <1>9 DEF SwapMoves
  <2> QED
    BY <2>5, <2>6, <2>7 DEF WorldInv
<1> QED
  BY <1>2, <1>5, <1>6, <1>7, <1>8, <1>9, TickTouches DEF Next

\* A run that ended stays so: whoever holds the row has not seen it end, and a
\* tick that lost the row does not write the state, or writes how it ended.
LEMMA EndKept ==
    ASSUME TicksInv, WorldInv, Next, Ended
    PROVE  run'.state \in Terminal /\ (mode = "bootstrap" => run'.state = run.state)
<1>0. run.state \in Terminal /\ run \in Rows /\ task \in [Workers -> Tasks]
      /\ Nobody \notin Workers
  BY MixAssumption DEF Ended, TicksInv
<1>1. ASSUME NEW w \in Workers, Step(w) \/ Late(w)
      PROVE  run'.state \in Terminal /\ (mode = "bootstrap" => run'.state = run.state)
  <2>0. lock # w
    BY DEF TicksInv, TickOK
  <2>1. CASE UNCHANGED run
    BY <1>0, <2>1
  <2>2. ASSUME NEW copy \in Rows, NEW pc \in Pcs, NEW made \in Swaps \cup {0}, Commit(w, copy, pc, made)
        PROVE  run'.state = IF copy.state # task[w].base.state THEN copy.state ELSE run.state
    <3>1. Committed(w, copy, pc, made)
      BY <1>0, <2>2, CommitFields
    <3> QED
      BY <3>1 DEF Committed
  <2>3. 0 \in Swaps \cup {0} /\ {"idle", "after", "seeded"} \subseteq Pcs
    BY DEF Pcs, BootPcs
  <2>4. CASE RoundAction(w)
    <3>1. \E e, copy, pc : RoundMoves(w, e, copy, pc)
      BY <2>4, RoundActions
    <3> QED
      BY <2>1, <3>1 DEF RoundMoves, Goto
  <2>5. CASE OpenOne(w)
    BY <2>1, <2>5 DEF OpenOne
  <2>6. CASE Refresh(w) \/ Resolve(w) \/ ResolveLate(w) \/ Seeded(w)
    BY Zenon, <2>1, <2>6, Looks DEF ParMoves
  <2>7. CASE SeedOne(w)
    <3>1. /\ InPar(w)
          /\ \/ \E r, t : ParMoves(w, r, t) /\ UNCHANGED <<swaps, owner>>
             \/ \E c, r : Seeds(w, c, r)
      BY <2>7, SeedSteps
    <3>2. ASSUME NEW c, NEW r, Seeds(w, c, r) PROVE run'.state = run.state
      <4> DEFINE copy == [task[w].copy EXCEPT !.channels = r]
      <4>1. Onward(task[w].copy.channels, r) /\ MakeSwap(w, c, copy, "seeded")
        BY <3>2 DEF Seeds
      <4>2. copy \in Rows /\ copy.state = "in_progress"
        BY <3>1, <4>1, ParCopy
      <4> HIDE DEF copy
      <4>3. PICK i \in Swaps : Commit(w, copy, "seeded", i)
        BY <4>1 DEF MakeSwap
      <4>4. run'.state = IF copy.state # task[w].base.state THEN copy.state ELSE run.state
        BY <2>2, <2>3, <4>2, <4>3
      <4>5. task[w].base.state = "in_progress"
        BY <2>0, <3>1 DEF InPar, ParFree
      <4> QED
        BY <4>2, <4>4, <4>5
    <3> QED
      BY Zenon, <1>0, <2>1, <3>1, <3>2 DEF ParMoves
  <2>8. CASE Rollup(w)
    <3>1. task[w].pc = "seed"
      BY <2>8 DEF Rollup, At
    <3>2. InPar(w)
      BY <3>1, ParFacts
    <3> DEFINE to == RollupState(task[w].copy.channels)
               copy == Finalize(task[w].copy, to)
    <3>3. to \in {"partial_failure", "complete", "in_progress"}
      BY DEF RollupState
    <3> HIDE DEF to
    <3>4. copy \in Rows /\ copy.state = to
      BY <3>2, <3>3 DEF Finalize, InPar, Rows, Terminal
    <3>5. Commit(w, copy, "idle", 0)
      BY <2>8 DEF Rollup, to
    <3> HIDE DEF copy
    <3>6. run'.state = IF to # task[w].base.state THEN to ELSE run.state
      BY <2>2, <2>3, <3>4, <3>5
    <3>7. task[w].base.state = "in_progress" /\ mode = "parallel"
      BY <2>0, <3>2 DEF InPar, ParFree
    <3> QED
      BY <1>0, <3>3, <3>6, <3>7 DEF Terminal
  <2>9. CASE LinkSwap(w)
    <3> DEFINE copy == With(w, Linked(Entry(w), task[w].made))
    <3>1. task[w].pc = "made" /\ task[w].pc \in RoundPcs /\ Commit(w, copy, "after", 0)
      BY <2>9 DEF LinkSwap, At, RoundPcs, Linked
    <3>2. InBoot(w) /\ InRound(w)
      BY <3>1, RoundFacts
    <3>3. /\ task[w].base = task[w].copy /\ task[w].made \in Swaps /\ Entry(w).state = "open_active"
          /\ Entry(w) \in Entries /\ RoundOK(Entry(w))
      BY <2>0, <3>1, <3>2 DEF InBoot, InRound, BootFree, BootTask, Entry, Tasks
    <3>4. Linked(Entry(w), task[w].made) \in Entries /\ RoundOK(Linked(Entry(w), task[w].made))
      BY <3>3, RoundLinked
    <3>5. copy \in Rows /\ copy.state = task[w].copy.state
      BY <3>1, <3>4, WithFields DEF Replaced
    <3> HIDE DEF copy
    <3>6. run'.state = IF copy.state # task[w].base.state THEN copy.state ELSE run.state
      BY <2>2, <2>3, <3>1, <3>5
    <3> QED
      BY <1>0, <3>3, <3>5, <3>6
  <2>10. CASE After(w)
    <3>1. task[w].pc = "after" /\ task[w].pc \in RoundPcs
      BY <2>10 DEF After, At, RoundPcs
    <3>2. InBoot(w) /\ InRound(w)
      BY <3>1, RoundFacts
    <3> DEFINE copy == task[w].copy
               new == [copy EXCEPT !.state = "in_progress"]
    <3>3. /\ task[w].base = copy /\ copy.state = "in_progress" /\ copy \in Rows
          /\ RoundsOK(copy.channels) /\ Len(copy.channels) > 0
          /\ copy.channels[Len(copy.channels)].state \in Going
      BY <2>0, <3>1, <3>2 DEF InBoot, InRound, BootFree
    <3>4. InFlight(copy) # {}
      BY <3>3, OneInFlight DEF LastIn, Going
    <3>5. Commit(w, new, "idle", 0)
      BY <2>10, <3>4 DEF After
    <3>6. new \in Rows /\ new.state = "in_progress"
      BY <3>3 DEF Rows
    <3> HIDE DEF new
    <3>7. run'.state = IF new.state # task[w].base.state THEN new.state ELSE run.state
      BY <2>2, <2>3, <3>5, <3>6
    <3> QED
      BY <1>0, <3>3, <3>6, <3>7
  <2>11. CASE Advance(w) \/ StartRound(w)
    BY <2>1, <2>11 DEF Advance, StartRound
  <2>12. CASE EndRun(w) \/ AwaitFunds(w) \/ AwaitLate(w)
    <3>1. At(w, "start")
      BY <2>12 DEF EndRun, AwaitFunds, AwaitLate
    <3> QED
      BY <2>0, <3>1, StartFacts DEF InStart
  <2>13. CASE RecordOpened(w) \/ OpenActive(w)
    <3>1. task[w].pc \in {"opened", "round"}
      BY <2>13 DEF RecordOpened, OpenActive, Round, At
    <3> QED
      BY <2>0, <3>1, BootFacts DEF InBoot, BootPcs
  <2> QED
    BY <1>1, <2>4, <2>5, <2>6, <2>7, <2>8, <2>9, <2>10, <2>11, <2>12, <2>13 DEF Step, Late, RoundAction
<1>2. ASSUME NEW w \in Workers, Begin(w) \/ Crash(w) PROVE UNCHANGED run
  BY <1>2 DEF Begin, Crash
<1>3. AskStop \/ AskForceStop => run'.state = run.state
  BY <1>0, StopFields
<1>4. Execute \/ ChannelMoves \/ SwapMoves => UNCHANGED run
  BY DEF Execute, ChannelMoves, SwapMoves
<1> QED
  BY <1>0, <1>1, <1>2, <1>3, <1>4 DEF Next

(***************************************************************************)
(* The results that hold whatever ticks were cut in two.                   *)
(***************************************************************************)

BaseInv == TicksInv /\ WorldInv /\ OneActiveRun

\* It holds when the run is created.
LEMMA BaseInit == Init => BaseInv
<1> SUFFICES ASSUME Init PROVE BaseInv
  OBVIOUS
<1> USE MixAssumption
<1>1. /\ mode \in Modes /\ mode \in {"parallel", "bootstrap"} /\ lock = Nobody
      /\ task = [w \in Workers |-> Idle] /\ others = FALSE
  BY DEF Init
<1>2. PICK seeds \in [Slots -> {"skipped", "queued"}] :
         run = [state |-> "queued", stop_requested |-> FALSE, awaiting_since |-> FALSE, realized |-> 0,
                channels |-> IF mode = "parallel" THEN [c \in Slots |-> NewEntry(seeds[c])] ELSE <<>>]
  BY Zenon DEF Init
<1>3. /\ mode = "parallel" => /\ run.channels \in [1..Planned -> Entries]
                              /\ \A c \in Slots : run.channels[c].state = "queued"
      /\ mode = "bootstrap" => run.channels = <<>>
  <2>1. ASSUME mode = "parallel"
        PROVE  /\ run.channels \in [1..Planned -> Entries]
               /\ \A c \in Slots : run.channels[c].state = "queued"
    <3>1. run.channels = [c \in Slots |-> NewEntry(seeds[c])]
      BY <1>2, <2>1
    <3>2. \A c \in Slots : NewEntry(seeds[c]) \in Entries /\ NewEntry(seeds[c]).state = "queued"
      BY <2>1, NewChannel
    <3> QED
      BY <3>1, <3>2 DEF Slots
  <2> QED
    BY <1>2, <2>1
<1>4. mode = "parallel" => run.channels \in Seq(Entries) /\ Len(run.channels) = Planned
  BY <1>3
<1>5. mode = "bootstrap" => run.channels \in Seq(Entries) /\ Len(run.channels) = 0
  <2>1. <<>> \in Seq(Entries) /\ Len(<<>>) = 0
    OBVIOUS
  <2> QED
    BY Zenon, <1>3, <2>1
<1>6. run.state = "queued" /\ run.stop_requested = FALSE /\ run.awaiting_since = FALSE /\ run.realized = 0
  BY <1>2
<1>7. run \in Rows
  <2>1. run = [state |-> run.state, stop_requested |-> run.stop_requested,
               awaiting_since |-> run.awaiting_since, realized |-> run.realized, channels |-> run.channels]
    BY <1>2
  <2>2. run.channels \in Seq(Entries) /\ run.realized \in Nat
    BY <1>1, <1>4, <1>5, <1>6
  <2>3. run.state \in Terminal \cup {"queued", "in_progress", "awaiting_funds"}
        /\ run.stop_requested \in BOOLEAN /\ run.awaiting_since \in BOOLEAN
    BY Zenon, <1>6
  <2> QED
    BY Zenon, <2>1, <2>2, <2>3 DEF Rows
<1>8. mode = "parallel" => ParRow(run)
  BY <1>3, <1>4 DEF ParRow, OpenStates
<1>9. mode = "bootstrap" => BootRow(run)
  BY <1>5 DEF BootRow, RoundsOK, LastIn
<1>10. task \in [Workers -> Tasks] /\ \A w \in Workers : TickOK(w)
  BY <1>1, IdleOK DEF TickOK, Busy
<1>11. TicksInv
  BY <1>1, <1>7, <1>8, <1>9, <1>10 DEF TicksInv
<1>12. WorldInv
  <2>1. NoSwap \in SwapRows /\ Truthful(NoSwap)
    BY DEF NoSwap, SwapRows, SwapStatuses, Truthful
  <2>2. /\ chan \in [Slots -> {"none", "down", "active", "gone"}]
        /\ opened \in [Slots -> 0..MaxOpens]
        /\ events \in 0..MaxEvents
        /\ owner \in [Swaps -> Slots \cup {0}]
    BY DEF Init, MaxOpens
  <2>3. swaps \in [Swaps -> SwapRows] /\ \A i \in Swaps : Truthful(swaps[i])
    BY <2>1 DEF Init
  <2>4. {others, overlap, lost} \subseteq BOOLEAN
    BY Zenon DEF Init
  <2> QED
    BY <2>2, <2>3, <2>4 DEF WorldInv
<1> QED
  BY <1>1, <1>11, <1>12 DEF BaseInv, OneActiveRun

\* Every step preserves it.
LEMMA BaseNext == BaseInv /\ [Next]_vars => BaseInv'
<1>1. ASSUME BaseInv, UNCHANGED vars PROVE BaseInv'
  <2> USE <1>1 DEF vars, World
  <2>1. TicksInv'
    BY TicksLeft DEF BaseInv
  <2>2. WorldInv'
    BY DEF BaseInv, WorldInv, Truthful
  <2>3. OneActiveRun'
    BY DEF BaseInv, OneActiveRun, Ended
  <2> QED
    BY <2>1, <2>2, <2>3 DEF BaseInv
<1>2. ASSUME BaseInv, Next PROVE BaseInv'
  <2>0. TicksInv /\ WorldInv /\ OneActiveRun
    BY <1>2 DEF BaseInv
  <2>1. TicksInv'
    <3>1. Execute \/ ChannelMoves \/ SwapMoves => UNCHANGED <<mode, run, lock, task>>
      BY DEF Execute, ChannelMoves, SwapMoves
    <3> QED
      BY <1>2, <2>0, <3>1, Begins, TickStep, Crashes, Requests, TicksLeft DEF Next
  <2>2. WorldInv'
    BY <1>2, <2>0, WorldStep
  <2>3. others' => others \/ (Ended /\ UNCHANGED run)
    <3>1. ASSUME NEW w \in Workers, Begin(w) \/ Step(w) \/ Late(w) \/ Crash(w) PROVE UNCHANGED others
      BY Zenon, <2>0, <3>1, TickTouches DEF TickWorld
    <3>2. AskStop \/ AskForceStop \/ ChannelMoves \/ SwapMoves => UNCHANGED others
      BY Zenon DEF AskStop, AskForceStop, ChannelMoves, SwapMoves
    <3>3. Execute => Ended /\ UNCHANGED run
      BY DEF Execute
    <3> QED
      BY Zenon, <1>2, <3>1, <3>2, <3>3 DEF Next
  <2>4. Ended => Ended'
    BY <1>2, <2>0, EndKept DEF Ended
  <2>5. OneActiveRun'
    BY <2>0, <2>3, <2>4 DEF OneActiveRun
  <2> QED
    BY <2>1, <2>2, <2>5 DEF BaseInv
<1> QED
  BY <1>1, <1>2

\* It holds in every reachable state.
LEMMA BaseHolds == Spec => []BaseInv
BY BaseInit, BaseNext, PTL DEF Spec

\* Every record and variable keeps its type; retries stay within their limits.
THEOREM MixTypes == Spec => []TypeOK
<1>1. BaseInv => TypeOK
  <2> SUFFICES ASSUME BaseInv PROVE TypeOK
    OBVIOUS
  <2>1. TicksInv /\ WorldInv
    BY DEF BaseInv
  <2>2. \A w \in Workers : {task[w].base, task[w].copy} \subseteq Rows
    BY <2>1 DEF TicksInv, Tasks
  <2>3. mode \in Modes /\ run \in Rows /\ lock \in Workers \cup {Nobody}
    BY <2>1 DEF TicksInv
  <2> QED
    BY <2>1, <2>2, <2>3 DEF TypeOK, WorldInv
<1> QED
  BY <1>1, BaseHolds, PTL

\* A bootstrap run has one unsettled round at most, whatever ticks of
\* _advance_bootstrap were cut in two by another, by a crash or by a cancel.
THEOREM RoundsInOrder == Spec => []OneRoundAtATime
<1>1. BaseInv => OneRoundAtATime
  <2> SUFFICES ASSUME BaseInv, mode = "bootstrap",
                      NEW c \in DOMAIN run.channels, c < Len(run.channels)
               PROVE  run.channels[c].state = "settled"
    BY DEF OneRoundAtATime
  <2>1. RoundsOK(run.channels)
    BY DEF BaseInv, TicksInv, BootRow
  <2> QED
    BY <2>1 DEF RoundsOK
<1> QED
  BY <1>1, BaseHolds, PTL

\* A run that ended, after which another may have been started, is not active
\* again: finalize_run is taken only by a tick that has seen the run active.
THEOREM OneRunIsActive == Spec => []OneActiveRun
<1>1. BaseInv => OneActiveRun
  BY DEF BaseInv
<1> QED
  BY <1>1, BaseHolds, PTL

\* How a bootstrap run ended is not overwritten by a tick that was at work.
THEOREM CancelsStick == Spec => CancelSticks
<1>1. BaseInv /\ [Next]_vars => [mode = "bootstrap" /\ Ended => run'.state = run.state]_vars
  <2> SUFFICES ASSUME BaseInv, Next, mode = "bootstrap", Ended
               PROVE  run'.state = run.state
    OBVIOUS
  <2> QED
    BY EndKept DEF BaseInv
<1> QED
  BY <1>1, BaseHolds, PTL DEF Spec, CancelSticks

\* What a step does to the reverse swaps: a tick makes one in a row nobody
\* used, and the swap of a round that waits for it moves.
LEMMA MixSwaps ==
    ASSUME BaseInv, Next
    PROVE  SwapsNext \/ UNCHANGED swaps
<1>0. TicksInv /\ WorldInv
  BY DEF BaseInv
<1>1. ASSUME NEW w \in Workers, Begin(w) \/ Step(w) \/ Late(w) \/ Crash(w)
      PROVE  SwapsNext \/ UNCHANGED swaps
  <2>1. UNCHANGED <<swaps, owner>> \/ \E c \in Slots : \E copy, pc : MakeSwap(w, c, copy, pc)
    BY Zenon, <1>0, <1>1, TickTouches DEF TickWorld
  <2>2. UNCHANGED swaps \/ \E i \in Swaps : Create(i)
    BY Zenon, <2>1 DEF MakeSwap, Create
  <2> QED
    BY Zenon, <2>2 DEF SwapsNext
<1>2. ASSUME SwapMoves PROVE SwapsNext
  <2>1. PICK c \in DOMAIN run.channels : /\ run.channels[c].state = "swap_pending"
                                         /\ Move(run.channels[c].swap_id)
    BY <1>2 DEF SwapMoves
  <2>2. run.channels[c].swap_id \in Swaps
    BY <1>0, <2>1, PendingSwap
  <2> QED
    BY Zenon, <2>1, <2>2 DEF SwapsNext
<1>3. AskStop \/ AskForceStop \/ Execute \/ ChannelMoves => UNCHANGED swaps
  BY DEF AskStop, AskForceStop, Execute, ChannelMoves, World
<1> QED
  BY Zenon, <1>1, <1>2, <1>3 DEF Next

\* A run uses its swaps as SwapPromise allows: a tick makes a swap in an unused
\* row only, and what SwapMoves takes for the swap of a round is one of Swaps.
THEOREM MixKeepsPromise == Spec => SwapsSpec
<1>1. Init => SwapsInit
  BY DEF Init, SwapsInit
<1>2. BaseInv /\ [Next]_vars => [SwapsNext]_swaps
  BY MixSwaps DEF vars, World
<1> QED
  BY <1>1, <1>2, BaseHolds, PTL DEF Spec, SwapsSpec
(***************************************************************************)
(* The channels of a parallel run open once, whatever ticks overlap.       *)
(***************************************************************************)

NoneQueued(s) == \A c \in Slots : s[c].state # "queued"

\* A tick that gives the row up has nothing left to open.
QueueInv ==
    mode = "parallel" =>
        \A w \in Workers : task[w].pc \in {"resolve", "seed", "seeded"} => NoneQueued(task[w].copy.channels)

\* A channel that was opened is queued at most in a row that the tick which
\* opened it still holds, and not in the copy of that tick.
QueuedInv ==
    mode = "parallel" /\ ~lost =>
        \A c \in Slots :
            /\ opened[c] <= 1
            /\ opened[c] > 0 /\ run.channels[c].state = "queued" => lock # Nobody /\ c \in task[lock].fresh
            /\ opened[c] > 0 /\ lock # Nobody => task[lock].copy.channels[c].state # "queued"

ParInv == QueueInv /\ QueuedInv

\* A step in memory that opens nothing.
LEMMA ParInvMoves ==
    ASSUME TicksInv, ParInv, NEW w \in Workers, InPar(w), NEW r, NEW t, ParMoves(w, r, t),
           NoneQueued(task[w].copy.channels), UNCHANGED <<opened, lost>>
    PROVE  ParInv'
<1>1. /\ task' = [task EXCEPT ![w] = t] /\ t.copy.channels = r /\ task[w].fresh \subseteq t.fresh
      /\ Onward(task[w].copy.channels, r) /\ UNCHANGED <<mode, run, lock>>
  BY ParCopy DEF ParMoves
<1>2. task'[w] = t /\ \A v \in Workers : v # w => task'[v] = task[v]
  BY <1>1 DEF TicksInv
<1>3. NoneQueued(r)
  BY <1>1 DEF NoneQueued, Onward
<1>4. QueueInv'
  BY <1>1, <1>2, <1>3 DEF ParInv, QueueInv, NoneQueued
<1>5. QueuedInv'
  <2>1. lock # Nobody => lock \in Workers
    BY DEF TicksInv
  <2> QED
    BY <1>1, <1>2, <1>3, <2>1 DEF ParInv, QueuedInv, NoneQueued
<1> QED
  BY <1>4, <1>5 DEF ParInv

\* The channel that a tick opens is queued in its copy, hence not open.
LEMMA ParInvOpens ==
    ASSUME TicksInv, WorldInv, ParInv, NEW w \in Workers, OpenOne(w)
    PROVE  ParInv'
<1>1. InPar(w)
  BY Opens
<1>2. PICK c \in Slots : \E r, t :
         /\ ParMoves(w, r, t)
         /\ task[w].copy.channels[c].state = "queued"
         /\ r[c].state # "queued" /\ c \in t.fresh /\ t.pc = "open"
         /\ MakeChannel(c) \/ UNCHANGED <<chan, opened>>
  BY Zenon, Opens
<1>3. PICK r, t :
         /\ ParMoves(w, r, t)
         /\ task[w].copy.channels[c].state = "queued"
         /\ r[c].state # "queued" /\ c \in t.fresh /\ t.pc = "open"
         /\ MakeChannel(c) \/ UNCHANGED <<chan, opened>>
  BY Zenon, <1>2
<1>4. /\ task' = [task EXCEPT ![w] = t] /\ t.copy.channels = r /\ task[w].fresh \subseteq t.fresh
      /\ Onward(task[w].copy.channels, r) /\ UNCHANGED <<mode, run, lock>> /\ lock = w
  BY <1>1, <1>3, ParCopy DEF ParMoves
<1>5. task'[w] = t /\ \A v \in Workers : v # w => task'[v] = task[v]
  BY <1>4 DEF TicksInv
<1>6. UNCHANGED lost
  BY DEF OpenOne
<1>7. QueueInv'
  BY <1>3, <1>4, <1>5 DEF ParInv, QueueInv, NoneQueued
<1>8. w # Nobody
  BY MixAssumption
<1>9. \A d \in Slots : opened'[d] = opened[d] \/ (d = c /\ opened'[d] = opened[d] + 1)
  BY <1>3 DEF MakeChannel, WorldInv
<1>10. \A d \in Slots : opened[d] \in Nat
  BY DEF WorldInv, MaxOpens
<1>11. QueuedInv'
  <2> SUFFICES ASSUME mode = "parallel", ~lost, NEW d \in Slots
               PROVE  /\ opened'[d] <= 1
                      /\ opened'[d] > 0 /\ run.channels[d].state = "queued" => w # Nobody /\ d \in t.fresh
                      /\ opened'[d] > 0 => t.copy.channels[d].state # "queued"
    BY <1>4, <1>5, <1>6 DEF QueuedInv
  <2>1. /\ opened[d] <= 1
        /\ opened[d] > 0 /\ run.channels[d].state = "queued" => d \in task[w].fresh
        /\ opened[d] > 0 => task[w].copy.channels[d].state # "queued"
    BY <1>4, <1>8 DEF ParInv, QueuedInv
  <2>2. CASE d = c
    BY <1>3, <1>4, <1>8, <1>9, <1>10, <2>1, <2>2
  <2>3. CASE d # c
    BY <1>4, <1>8, <1>9, <2>1, <2>3 DEF Onward
  <2> QED
    BY <2>2, <2>3
<1> QED
  BY <1>7, <1>11 DEF ParInv

\* A commit writes a row with nothing queued over the one it was loaded from,
\* or leaves one that nobody holds.
LEMMA ParInvCommits ==
    ASSUME TicksInv, ParInv, NEW w \in Workers, InPar(w), UNCHANGED <<mode, opened, lost>>,
           NEW copy \in Rows, NEW pc \in {"idle", "seeded"}, NEW made \in Swaps \cup {0},
           NoneQueued(copy.channels), Commit(w, copy, pc, made)
    PROVE  ParInv'
<1>1. /\ pc \in Pcs /\ task \in [Workers -> Tasks] /\ run \in Rows
  BY DEF TicksInv, Pcs, BootPcs
<1>2. Committed(w, copy, pc, made)
  BY <1>1, CommitFields
<1>3. /\ lock \in {Nobody, w} /\ lock' = Nobody
      /\ \A v \in Workers : v # w => task'[v] = task[v]
      /\ pc = "idle" => task'[w] = Idle
      /\ pc # "idle" => task'[w].copy = copy
      /\ run'.channels = IF copy.channels # task[w].base.channels THEN copy.channels ELSE run.channels
  BY <1>2 DEF Committed
<1>4. QueueInv'
  <2>1. pc = "idle" => task'[w].pc = "idle"
    BY <1>3, IdleOK
  <2> QED
    BY <1>3, <2>1 DEF ParInv, QueueInv, NoneQueued
<1>5. lock = w => task[w].base = run
  BY DEF InPar
<1>6. NoneQueued(run'.channels) \/ (lock = Nobody /\ run'.channels = run.channels)
  BY <1>3, <1>5 DEF NoneQueued
<1>7. QueuedInv'
  BY <1>3, <1>6 DEF ParInv, QueuedInv, NoneQueued
<1> QED
  BY <1>4, <1>7 DEF ParInv

\* A tick loads a row that nobody holds.
LEMMA ParInvBegins ==
    ASSUME TicksInv, ParInv, NEW w \in Workers, Begin(w)
    PROVE  ParInv'
<1> DEFINE copy == IF mode = "parallel" THEN [run EXCEPT !.state = "in_progress"] ELSE run
           t == [Loaded(run) EXCEPT !.pc = IF mode = "parallel" THEN "open" ELSE "advance", !.copy = copy]
<1>1. /\ lock = Nobody /\ lock' = w /\ UNCHANGED <<mode, run, opened, lost>>
      /\ task' = [task EXCEPT ![w] = t]
  BY DEF Begin, World
<1>2. run \in Rows /\ task \in [Workers -> Tasks]
  BY DEF TicksInv
<1>3. copy.channels = run.channels
  BY <1>2 DEF Rows
<1> HIDE DEF copy
<1>4. t.copy = copy /\ t.pc = IF mode = "parallel" THEN "open" ELSE "advance"
  BY DEF Loaded
<1> HIDE DEF t
<1>5. task'[w] = t /\ \A v \in Workers : v # w => task'[v] = task[v]
  BY <1>1, <1>2
<1>6. QueueInv'
  BY <1>1, <1>4, <1>5 DEF ParInv, QueueInv, NoneQueued
<1>7. QueuedInv'
  BY <1>1, <1>3, <1>4, <1>5 DEF ParInv, QueuedInv
<1> QED
  BY <1>6, <1>7 DEF ParInv

\* What a tick that dies has opened is lost with its record.
LEMMA ParInvCrashes ==
    ASSUME TicksInv, ParInv, NEW w \in Workers, Crash(w)
    PROVE  ParInv'
<1>1. /\ UNCHANGED <<mode, run, opened>> /\ task' = [task EXCEPT ![w] = Idle]
      /\ lock' = IF lock = w THEN Nobody ELSE lock
      /\ ~lost' => ~lost /\ \A c \in task[w].fresh : ~(opened[c] > 0 /\ run.channels[c].state = "queued")
  BY DEF Crash, World
<1>2. task'[w] = Idle /\ \A v \in Workers : v # w => task'[v] = task[v]
  BY <1>1 DEF TicksInv
<1>3. QueueInv'
  BY <1>1, <1>2, IdleOK DEF ParInv, QueueInv, NoneQueued
<1>4. QueuedInv'
  <2>1. CASE lock = w
    BY <1>1, <2>1 DEF ParInv, QueuedInv
  <2>2. CASE lock # w
    <3>1. lock # Nobody => lock \in Workers
      BY DEF TicksInv
    <3> QED
      BY <1>1, <1>2, <2>2, <3>1 DEF ParInv, QueuedInv
  <2> QED
    BY <2>1, <2>2
<1> QED
  BY <1>3, <1>4 DEF ParInv

\* Each step of a tick of a parallel run.
LEMMA ParInvTick ==
    ASSUME TicksInv, WorldInv, ParInv, mode = "parallel", NEW w \in Workers, Step(w) \/ Late(w)
    PROVE  ParInv'
<1>1. task[w].pc \in {"idle", "open", "resolve", "seed", "seeded"}
  BY DEF TicksInv, TickOK, ParTask
<1>2. CASE OpenOne(w)
  BY <1>2, ParInvOpens
<1>3. CASE Refresh(w) \/ Resolve(w) \/ ResolveLate(w) \/ Seeded(w)
  <2>1. InPar(w) /\ \E r, t : ParMoves(w, r, t)
    BY <1>3, Looks
  <2>2. UNCHANGED <<opened, lost>>
    BY Zenon, <1>3 DEF Refresh, Resolve, ResolveLate, ResolveAs, Seeded, World
  <2>3. NoneQueued(task[w].copy.channels)
    <3>1. CASE Refresh(w)
      BY <3>1 DEF Refresh, Queued, NoneQueued
    <3>2. CASE ~Refresh(w)
      <4>1. task[w].pc \in {"resolve", "seeded"}
        BY <1>3, <3>2 DEF Resolve, ResolveLate, Seeded, At
      <4> QED
        BY <4>1 DEF ParInv, QueueInv
    <3> QED
      BY <3>1, <3>2
  <2> QED
    BY Zenon, <2>1, <2>2, <2>3, ParInvMoves
<1>4. CASE SeedOne(w)
  <2>1. /\ InPar(w)
        /\ \/ \E r, t : ParMoves(w, r, t) /\ UNCHANGED <<swaps, owner>>
           \/ \E c, r : Seeds(w, c, r)
    BY <1>4, SeedSteps
  <2>2. UNCHANGED <<mode, opened, lost>> /\ task[w].pc = "seed"
    BY <1>4 DEF SeedOne, At
  <2>3. NoneQueued(task[w].copy.channels)
    BY <2>2 DEF ParInv, QueueInv
  <2>4. ASSUME NEW c, NEW r, Seeds(w, c, r) PROVE ParInv'
    <3> DEFINE copy == [task[w].copy EXCEPT !.channels = r]
    <3>1. Onward(task[w].copy.channels, r) /\ MakeSwap(w, c, copy, "seeded")
      BY <2>4 DEF Seeds
    <3>2. copy \in Rows /\ copy.channels = r
      BY <2>1, <3>1, ParCopy
    <3> HIDE DEF copy
    <3>3. NoneQueued(copy.channels)
      BY <2>3, <3>1, <3>2 DEF NoneQueued, Onward
    <3>4. PICK i \in Swaps : Commit(w, copy, "seeded", i)
      BY <3>1 DEF MakeSwap
    <3> QED
      BY <2>1, <2>2, <3>2, <3>3, <3>4, ParInvCommits
  <2> QED
    BY Zenon, <2>1, <2>2, <2>3, <2>4, ParInvMoves
<1>5. CASE Rollup(w)
  <2>1. task[w].pc = "seed" /\ UNCHANGED <<mode, opened, lost>>
    BY <1>5 DEF Rollup, At, World
  <2>2. InPar(w) /\ NoneQueued(task[w].copy.channels)
    BY <2>1, ParFacts DEF ParInv, QueueInv
  <2> DEFINE copy == Finalize(task[w].copy, RollupState(task[w].copy.channels))
  <2>3. RollupState(task[w].copy.channels) \in {"partial_failure", "complete", "in_progress"}
    BY DEF RollupState
  <2>4. copy \in Rows /\ copy.channels = task[w].copy.channels
    BY <2>2, <2>3 DEF Finalize, InPar, Rows, Terminal
  <2>5. Commit(w, copy, "idle", 0)
    BY <1>5 DEF Rollup
  <2> HIDE DEF copy
  <2> QED
    BY <2>1, <2>2, <2>4, <2>5, ParInvCommits
<1>6. ~(Advance(w) \/ RecordOpened(w) \/ LinkSwap(w) \/ After(w) \/ EndRun(w) \/ AwaitFunds(w)
        \/ AwaitLate(w) \/ StartRound(w))
  BY <1>1 DEF Advance, RecordOpened, LinkSwap, After, EndRun, AwaitFunds, AwaitLate, StartRound, At
<1>7. ~(OpeningFails(w) \/ Opening(w) \/ OpenPending(w) \/ OpenActiveNoSwap(w) \/ OpenActive(w)
        \/ SwapPending(w) \/ Wait(w) \/ WaitLate(w) \/ NoAnswer(w))
  BY <1>1 DEF OpeningFails, Opening, OpenPending, OpenActiveNoSwap, OpenActive, SwapPending, Wait,
              WaitLate, NoAnswer, NotThere, Round, At
<1> QED
  BY <1>2, <1>3, <1>4, <1>5, <1>6, <1>7 DEF Step, Late

\* A tick does not change the mode of the run.
LEMMA TickMode ==
    ASSUME NEW w \in Workers, Step(w) \/ Late(w)
    PROVE  UNCHANGED mode
<1>1. ASSUME \/ OpenOne(w) \/ Refresh(w) \/ Resolve(w) \/ ResolveLate(w) \/ SeedOne(w) \/ Seeded(w) \/ Rollup(w)
             \/ Advance(w) \/ OpeningFails(w) \/ Opening(w) \/ RecordOpened(w) \/ OpenPending(w)
      PROVE UNCHANGED mode
  BY Zenon, <1>1 DEF OpenOne, Refresh, Resolve, ResolveLate, ResolveAs, SeedOne, Seeded, Rollup, Advance,
              OpeningFails, Opening, RecordOpened, OpenPending
<1>2. ASSUME \/ OpenActiveNoSwap(w) \/ OpenActive(w) \/ LinkSwap(w) \/ SwapPending(w) \/ Wait(w) \/ NoAnswer(w)
             \/ After(w) \/ EndRun(w) \/ AwaitFunds(w) \/ StartRound(w) \/ WaitLate(w) \/ AwaitLate(w)
      PROVE UNCHANGED mode
  BY Zenon, <1>2 DEF OpenActiveNoSwap, OpenActive, LinkSwap, SwapPending, Wait, NoAnswer, After,
              EndRun, AwaitFunds, StartRound, WaitLate, AwaitLate
<1> QED
  BY Zenon, <1>1, <1>2 DEF Step, Late

\* Every step preserves it.
LEMMA ParInvNext == BaseInv /\ ParInv /\ [Next]_vars => ParInv'
<1>1. ASSUME BaseInv, ParInv, UNCHANGED <<mode, run, lock, task, opened, lost>> PROVE ParInv'
  BY <1>1 DEF ParInv, QueueInv, QueuedInv, NoneQueued
<1>2. ASSUME BaseInv, ParInv, Next PROVE ParInv'
  <2>0. TicksInv /\ WorldInv
    BY <1>2 DEF BaseInv
  <2>1. ASSUME NEW w \in Workers, Step(w) \/ Late(w), mode # "parallel" PROVE ParInv'
    <3>1. UNCHANGED mode
      BY Zenon, <2>0, <2>1, TickMode
    <3> QED
      BY <2>1, <3>1 DEF ParInv, QueueInv, QueuedInv
  <2>2. ASSUME AskStop \/ AskForceStop PROVE ParInv'
    <3>1. UNCHANGED <<mode, lock, task>> /\ run'.channels = run.channels
      BY <2>0, <2>2, StopFields DEF TicksInv
    <3>2. UNCHANGED <<opened, lost>>
      BY <2>2 DEF AskStop, AskForceStop, World
    <3> QED
      BY <1>2, <3>1, <3>2 DEF ParInv, QueueInv, QueuedInv, NoneQueued
  <2>3. Execute \/ ChannelMoves \/ SwapMoves => UNCHANGED <<mode, run, lock, task, opened, lost>>
    BY DEF Execute, ChannelMoves, SwapMoves, World
  <2> QED
    BY <1>1, <1>2, <2>0, <2>1, <2>2, <2>3, ParInvTick, ParInvBegins, ParInvCrashes DEF Next
<1>3. UNCHANGED vars => UNCHANGED <<mode, run, lock, task, opened, lost>>
  BY DEF vars, World
<1> QED
  BY <1>1, <1>2, <1>3

\* It holds in every reachable state.
LEMMA ParHolds == Spec => []ParInv
<1>1. Init => ParInv
  <2> SUFFICES ASSUME Init PROVE ParInv
    OBVIOUS
  <2>1. (\A w \in Workers : task[w].pc = "idle") /\ (\A c \in Slots : opened[c] = 0)
    BY IdleOK DEF Init
  <2> QED
    BY <2>1 DEF ParInv, QueueInv, QueuedInv
<1> QED
  BY <1>1, ParInvNext, BaseHolds, PTL DEF Spec
=============================================================================
