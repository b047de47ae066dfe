----------------------- MODULE ChannelMixOnce_proofs -----------------------
(***************************************************************************)
(* What the channel-mix executor opens, drains and reports, for any number *)
(* of workers, channels, peers and retries.  Most of it holds as long as   *)
(* no tick is cut in two by another and no answer or record is lost; that  *)
(* the channels of a parallel run open once needs only the latter.         *)
(***************************************************************************)
EXTENDS ChannelMix_proofs

(***************************************************************************)
(* The inductive invariant.                                                *)
(***************************************************************************)

\* The swaps made for slot c.
Made(own, c) == {i \in Swaps : own[i] = c}

\* What the entries s know of the world: nothing was opened for a slot that
\* has yet to open, and no more swaps were made than were tried.
FitsOpen(s, open) ==
    \A c \in Slots :
        c \notin DOMAIN s \/ s[c].state \in {"queued", "opening"} => open[c] = 0

FitsDrain(s, own) ==
    \A c \in Slots :
        /\ c \notin DOMAIN s \/ s[c].seed = "queued" => Made(own, c) = {}
        /\ c \in DOMAIN s => Cardinality(Made(own, c)) <= s[c].swap_attempts + 1

\* No swap of a round is out before it drains.
FitsRound(s, own) ==
    \A c \in Slots \cap DOMAIN s :
        s[c].state \in {"opening", "open_pending", "open_active"}
            => Cardinality(Made(own, c)) <= s[c].swap_attempts

WeakDrain(s, own) ==
    \A c \in Slots :
        /\ c \notin DOMAIN s => Made(own, c) = {}
        /\ c \in DOMAIN s => Cardinality(Made(own, c)) <= s[c].swap_attempts + 1

Drained(s) == {c \in 1..Len(s) : s[c].state = "settled" /\ s[c].swap_id # 0}

Earned(r, rows) ==
    /\ r.realized = Cardinality(Drained(r.channels))
    /\ \A c \in Drained(r.channels) : rows[r.channels[c].swap_id].coin = "claimed"

\* A tick nobody came between works on the row as it is, but for a request to
\* stop.
Undisturbed(w) ==
    /\ task[w].base.channels = run.channels
    /\ task[w].base.realized = run.realized
    /\ task[w].base.state = run.state

AloneInv ==
    ~overlap => /\ \A v, w \in Workers : Busy(v) /\ Busy(w) => v = w
                /\ \A w \in Workers : Busy(w) => Undisturbed(w)

\* What the row and the copy of the one tick at work know of the world.
KnownTo(w) ==
    /\ FitsOpen(task[w].copy.channels, opened)
    /\ ~At(w, "made") => FitsDrain(task[w].copy.channels, owner)
    /\ ~At(w, "made") /\ mode = "bootstrap" => FitsRound(task[w].copy.channels, owner)
    /\ mode = "bootstrap" => Earned(task[w].copy, swaps)

Unrecorded(w) ==
    \/ At(w, "opened") \/ task[w].made # 0
    \/ \E c \in task[w].fresh : opened[c] > 0 /\ run.channels[c].state = "queued"

RunKnows ==
    /\ WeakDrain(run.channels, owner)
    /\ mode = "bootstrap" => Earned(run, swaps)
    /\ (\A w \in Workers : ~Unrecorded(w)) => FitsOpen(run.channels, opened)
    /\ (\A w \in Workers : task[w].made = 0)
          => /\ FitsDrain(run.channels, owner)
             /\ mode = "bootstrap" => FitsRound(run.channels, owner)

CleanInv ==
    Clean => /\ \A c \in Slots : opened[c] <= 1 /\ IsFiniteSet(Made(owner, c))
             /\ \A w \in Workers : Busy(w) => KnownTo(w)
             /\ RunKnows

MixInv == TicksInv /\ WorldInv /\ AloneInv /\ CleanInv /\ OneActiveRun

(***************************************************************************)
(* What a run knows of its channels and swaps, while no tick is cut in two *)
(* and no record is lost.                                                  *)
(***************************************************************************)

USE FieldsStay

\* A round r[n] in place of s[n].
Put(s, r, n) ==
    /\ n \in Nat /\ DOMAIN s = 1..n /\ DOMAIN r = 1..n /\ Len(s) = n /\ Len(r) = n
    /\ n \in DOMAIN s
    /\ \A c \in 1..n : c # n => r[c] = s[c]

\* The openings fit after one round has changed.
LEMMA OpenPut ==
    ASSUME NEW s, NEW r, NEW n, Put(s, r, n), NEW open, NEW now, FitsOpen(s, open),
           \A c \in Slots : c # n => now[c] = open[c],
           r[n].state \in {"queued", "opening"}
              => s[n].state \in {"queued", "opening"} /\ (n \in Slots => now[n] = open[n])
    PROVE  FitsOpen(r, now)
<1> SUFFICES ASSUME NEW c \in Slots, c \notin DOMAIN r \/ r[c].state \in {"queued", "opening"}
             PROVE  now[c] = 0
  BY DEF FitsOpen
<1>1. CASE c = n
  BY <1>1 DEF FitsOpen, Put
<1>2. CASE c # n
  BY <1>2 DEF FitsOpen, Put
<1> QED
  BY <1>1, <1>2

\* What a step in parallel mode does to one slot.
LEMMA ParKnows ==
    ASSUME NEW s, NEW r, s \in [Slots -> Entries], Onward(s, r), NEW open, NEW now, NEW own,
           FitsOpen(s, open), FitsDrain(s, own),
           \A c \in Slots : now[c] = open[c] \/ r[c].state # "queued"
    PROVE  FitsOpen(r, now) /\ FitsDrain(r, own)
<1>1. FitsOpen(r, now)
  BY DEF FitsOpen, Onward, OpenStates
<1>2. FitsDrain(r, own)
  BY DEF FitsDrain, Onward
<1> QED
  BY <1>1, <1>2

\* The only tick at work.
Alone(w) ==
    /\ Busy(w) /\ Undisturbed(w)
    /\ \A v \in Workers : v # w => task[v] = Idle

\* A tick that nobody overlaps is alone.
LEMMA AloneFacts ==
    ASSUME TicksInv, AloneInv, ~overlap, NEW w \in Workers, Busy(w)
    PROVE  Alone(w)
BY DEF AloneInv, Alone, TicksInv, TickOK, Busy

\* Its commit writes all that its copy has.
LEMMA AloneWrites ==
    ASSUME NEW w \in Workers, Alone(w), NEW copy, NEW pc, NEW made, Committed(w, copy, pc, made)
    PROVE  run'.state = copy.state /\ run'.channels = copy.channels /\ run'.realized = copy.realized
BY DEF Alone, Undisturbed, Committed

\* A step in memory of the only tick.
LEMMA CleanMemory ==
    ASSUME TicksInv, AloneInv, CleanInv, Clean, NEW w \in Workers, Busy(w),
           UNCHANGED <<mode, run, owner, swaps>>,
           \A v \in Workers : v # w => task'[v] = task[v],
           \A c \in Slots : opened'[c] <= 1,
           KnownTo(w)', task'[w].made = task[w].made,
           ~Unrecorded(w)' => FitsOpen(run.channels, opened')
    PROVE  CleanInv'
<1>1. Alone(w)
  BY AloneFacts DEF Clean
<1>2. /\ \A c \in Slots : IsFiniteSet(Made(owner, c))
      /\ RunKnows
  BY DEF CleanInv
<1>3. \A v \in Workers : v # w => task'[v] = Idle
  BY <1>1 DEF Alone
<1>4. \A v \in Workers : Busy(v)' => KnownTo(v)'
  BY <1>3, IdleOK DEF Busy
<1>5. (\A v \in Workers : ~Unrecorded(v)') => FitsOpen(run.channels, opened')
  OBVIOUS
<1>6. (\A v \in Workers : task'[v].made = 0) => (\A v \in Workers : task[v].made = 0)
  BY <1>1, IdleOK DEF Alone
<1>7. RunKnows'
  BY <1>2, <1>5, <1>6 DEF RunKnows
<1> QED
  BY <1>2, <1>4, <1>7 DEF CleanInv

\* A commit of the only tick.
LEMMA CleanCommit ==
    ASSUME TicksInv, AloneInv, CleanInv, Clean, NEW w \in Workers, Busy(w), UNCHANGED <<mode, opened>>,
           NEW copy, NEW pc, NEW made, Committed(w, copy, pc, made),
           \A c \in Slots : IsFiniteSet(Made(owner', c)),
           FitsOpen(copy.channels, opened), WeakDrain(copy.channels, owner'),
           pc # "made" \/ made = 0 => /\ FitsDrain(copy.channels, owner')
                                      /\ mode = "bootstrap" => FitsRound(copy.channels, owner'),
           mode = "bootstrap" => Earned(copy, swaps')
    PROVE  CleanInv'
<1>1. Alone(w)
  BY AloneFacts DEF Clean
<1>2. run'.channels = copy.channels /\ run'.realized = copy.realized
  BY <1>1, AloneWrites
<1>3. \A v \in Workers : v # w => task'[v] = Idle
  BY <1>1 DEF Alone, Committed
<1>4. /\ pc = "idle" => task'[w] = Idle
      /\ pc # "idle" => task'[w].pc = pc /\ task'[w].copy = copy /\ task'[w].made = made
  BY DEF Committed
<1>5. \A v \in Workers : Busy(v)' => KnownTo(v)'
  <2> SUFFICES ASSUME NEW v \in Workers, task'[v].pc # "idle" PROVE KnownTo(v)'
    BY DEF Busy
  <2>1. v = w /\ pc # "idle"
    BY <1>3, <1>4, IdleOK
  <2>2. task'[w].pc = pc /\ task'[w].copy = copy
    BY <1>4, <2>1
  <2> QED
    BY <2>1, <2>2 DEF KnownTo, At
<1>6. mode = "bootstrap" => Earned(run', swaps')
  BY <1>2 DEF Earned
<1>7. (\A v \in Workers : task'[v].made = 0) => pc # "made" \/ made = 0
  BY <1>4
<1>8. RunKnows'
  BY <1>2, <1>6, <1>7 DEF RunKnows
<1>9. \A c \in Slots : opened'[c] <= 1
  BY DEF CleanInv
<1> QED
  BY <1>5, <1>8, <1>9 DEF CleanInv

\* A commit of what the copy has, which changes at most the state.
Same(w) ==
    \E copy, pc : /\ Committed(w, copy, pc, 0)
                  /\ copy.channels = task[w].copy.channels /\ copy.realized = task[w].copy.realized

\* A commit that leaves the rounds alone.
LEMMA CleanSame ==
    ASSUME TicksInv, AloneInv, CleanInv, Clean, NEW w \in Workers, Busy(w), ~At(w, "made"),
           UNCHANGED <<mode, opened, owner, swaps>>, Same(w)
    PROVE  CleanInv'
<1>1. PICK copy, pc : /\ Committed(w, copy, pc, 0)
                      /\ copy.channels = task[w].copy.channels /\ copy.realized = task[w].copy.realized
  BY DEF Same
<1>2. KnownTo(w) /\ \A c \in Slots : IsFiniteSet(Made(owner, c))
  BY DEF CleanInv
<1>3. /\ FitsOpen(copy.channels, opened) /\ FitsDrain(copy.channels, owner)
      /\ mode = "bootstrap" => FitsRound(copy.channels, owner)
  BY <1>1, <1>2 DEF KnownTo
<1>4. WeakDrain(copy.channels, owner)
  BY <1>3 DEF WeakDrain, FitsDrain
<1>5. mode = "bootstrap" => Earned(copy, swaps)
  BY Zenon, <1>1, <1>2 DEF KnownTo, Earned
<1> QED
  BY <1>1, <1>2, <1>3, <1>4, <1>5, CleanCommit

\* Coins that came back do not leave again.
LEMMA CoinsStay ==
    ASSUME NEW r \in Rows, NEW rows, NEW now, Earned(r, rows),
           \A k \in Swaps : rows[k].coin = "claimed" => now[k].coin = "claimed"
    PROVE  Earned(r, now)
<1>1. ASSUME NEW c \in Drained(r.channels) PROVE r.channels[c].swap_id \in Swaps
  <2>1. r.channels \in Seq(Entries)
    BY DEF Rows
  <2>2. c \in 1..Len(r.channels) /\ r.channels[c].swap_id # 0
    BY <1>1 DEF Drained
  <2>3. r.channels[c] \in Entries
    BY <2>1, <2>2
  <2> QED
    BY <2>2, <2>3 DEF Entries
<1> QED
  BY <1>1 DEF Earned

\* A tick goes on to another place with the copy it has.
LEMMA CleanOnward ==
    ASSUME TicksInv, AloneInv, CleanInv, Clean, NEW w \in Workers, Busy(w), ~At(w, "made"),
           ~At(w, "opened"), UNCHANGED <<mode, run, opened, owner, swaps>>,
           \A v \in Workers : v # w => task'[v] = task[v],
           task'[w].copy = task[w].copy, task'[w].made = task[w].made, task'[w].fresh = task[w].fresh
    PROVE  CleanInv'
<1>1. KnownTo(w) /\ \A c \in Slots : opened[c] <= 1
  BY DEF CleanInv
<1>2. KnownTo(w)'
  BY <1>1 DEF KnownTo
<1>3. Alone(w)
  BY AloneFacts DEF Clean
<1>4. ~Unrecorded(w)' => \A v \in Workers : ~Unrecorded(v)
  BY <1>3, IdleOK DEF Unrecorded, At, Alone
<1>5. ~Unrecorded(w)' => FitsOpen(run.channels, opened)
  BY <1>4 DEF CleanInv, RunKnows
<1> QED
  BY <1>1, <1>2, <1>5, CleanMemory

\* A tick takes up the run, or comes to its next round.
LEMMA CleanTurns ==
    ASSUME TicksInv, AloneInv, CleanInv, Clean, NEW w \in Workers,
           Advance(w) \/ (After(w) /\ Goto(w, task[w].copy, "start"))
    PROVE  CleanInv'
<1>1. task[w].pc \in {"advance", "after"} /\ UNCHANGED <<mode, opened, owner, swaps>>
  BY DEF Advance, After, At, World
<1>2. task \in [Workers -> Tasks]
  BY DEF TicksInv
<1>3. /\ UNCHANGED run /\ \A v \in Workers : v # w => task'[v] = task[v]
      /\ task'[w].copy = task[w].copy /\ task'[w].made = task[w].made /\ task'[w].fresh = task[w].fresh
  <2>1. CASE After(w) /\ Goto(w, task[w].copy, "start")
    <3>1. task[w].copy \in Rows /\ "start" \in Pcs
      BY <1>2 DEF Tasks, Pcs, BootPcs
    <3> QED
      BY <1>2, <2>1, <3>1, GotoFields
  <2>2. CASE Advance(w)
    <3>1. UNCHANGED run
      BY <2>2 DEF Advance
    <3>2. \/ task' = [task EXCEPT ![w].pc = "start"]
          \/ \E c \in InFlight(task[w].copy) : task' = [task EXCEPT ![w].pc = "round", ![w].slot = c]
      BY Zenon, <2>2 DEF Advance
    <3>3. /\ \A v \in Workers : v # w => task'[v] = task[v]
          /\ task'[w].copy = task[w].copy /\ task'[w].made = task[w].made /\ task'[w].fresh = task[w].fresh
      BY Zenon, <1>2, <3>2 DEF Tasks
    <3> QED
      BY <3>1, <3>3
  <2> QED
    BY <2>1, <2>2
<1>4. Busy(w) /\ ~At(w, "made") /\ ~At(w, "opened")
  BY <1>1 DEF Busy, At
<1> QED
  BY <1>1, <1>3, <1>4, CleanOnward

\* The commits that leave the channels as they are.
LEMMA SameCommits ==
    ASSUME TicksInv, NEW w \in Workers,
           Rollup(w) \/ RecordOpened(w) \/ After(w) \/ EndRun(w) \/ AwaitFunds(w) \/ AwaitLate(w),
           ~(After(w) /\ Goto(w, task[w].copy, "start"))
    PROVE  Same(w)
<1>1. /\ task \in [Workers -> Tasks] /\ run \in Rows /\ task[w].copy \in Rows
      /\ {"idle", "after"} \subseteq Pcs
  BY DEF TicksInv, Tasks, Pcs, BootPcs
<1>2. ASSUME NEW pc \in {"idle", "after"}, NEW copy \in Rows, Commit(w, copy, pc, 0),
             copy.channels = task[w].copy.channels, copy.realized = task[w].copy.realized
      PROVE  Same(w)
  <2>1. Committed(w, copy, pc, 0)
    BY <1>1, <1>2, CommitFields
  <2> QED
    BY <1>2, <2>1 DEF Same
<1> DEFINE States == Terminal \cup {"in_progress", "awaiting_funds"}
<1>3. ASSUME NEW state \in States, Commit(w, [task[w].copy EXCEPT !.state = state], "idle", 0)
      PROVE  Same(w)
  <2> DEFINE copy == [task[w].copy EXCEPT !.state = state]
  <2>1. copy \in Rows /\ copy.channels = task[w].copy.channels /\ copy.realized = task[w].copy.realized
    BY Zenon, <1>1 DEF Rows
  <2> HIDE DEF copy
  <2> QED
    BY Zenon, <1>2, <1>3, <2>1 DEF copy
<1>4. ASSUME NEW state \in States, Commit(w, Finalize(task[w].copy, state), "idle", 0)
      PROVE  Same(w)
  <2>1. CASE task[w].copy.state \in Terminal
    BY <1>1, <1>2, <1>4, <2>1 DEF Finalize
  <2>2. CASE task[w].copy.state \notin Terminal
    BY <1>3, <1>4, <2>2 DEF Finalize
  <2> QED
    BY <2>1, <2>2
<1>5. CASE Rollup(w)
  <2>1. RollupState(task[w].copy.channels) \in States
    BY DEF RollupState, Terminal
  <2> QED
    BY <1>4, <1>5, <2>1 DEF Rollup
<1>6. CASE RecordOpened(w)
  BY <1>1, <1>2, <1>6 DEF RecordOpened
<1>7. CASE After(w)
  <2>1. \/ Commit(w, [task[w].copy EXCEPT !.state = "in_progress"], "idle", 0)
        \/ Commit(w, Finalize(task[w].copy, "partial_failure"), "idle", 0)
    BY <1>7 DEF After
  <2>2. {"in_progress", "partial_failure"} \subseteq States
    BY DEF Terminal
  <2> QED
    BY <1>3, <1>4, <2>1, <2>2
<1>8. CASE EndRun(w)
  <2>1. EndStates(task[w].copy) \subseteq States
    BY DEF EndStates, Terminal
  <2> HIDE DEF States
  <2> QED
    BY <1>4, <1>8, <2>1 DEF EndRun
<1>9. CASE AwaitFunds(w)
  <2> DEFINE short == [task[w].copy EXCEPT !.state = "awaiting_funds", !.awaiting_since = TRUE]
  <2>1. Commit(w, short, "idle", 0) \/ Commit(w, [task[w].copy EXCEPT !.state = "in_progress"], "idle", 0)
    BY Zenon, <1>9 DEF AwaitFunds
  <2>2. short \in Rows /\ short.channels = task[w].copy.channels /\ short.realized = task[w].copy.realized
    BY Zenon, <1>1 DEF Rows
  <2> HIDE DEF short
  <2> QED
    BY Zenon, <1>2, <1>3, <2>1, <2>2
<1>10. CASE AwaitLate(w)
  <2>1. "stopped_insufficient" \in States
    BY DEF Terminal
  <2> QED
    BY <1>4, <1>10, <2>1 DEF AwaitLate
<1> QED
  BY <1>5, <1>6, <1>7, <1>8, <1>9, <1>10

\* A step of a parallel tick in memory, that may open a channel it has queued.
LEMMA CleanPar ==
    ASSUME TicksInv, WorldInv, AloneInv, CleanInv, Clean, NEW w \in Workers, InPar(w), NEW r, NEW t,
           ParMoves(w, r, t), UNCHANGED <<owner, swaps>>,
           \/ UNCHANGED opened
           \/ \E c \in Slots : /\ MakeChannel(c) /\ task[w].copy.channels[c].state = "queued"
                               /\ r[c].state # "queued" /\ c \in t.fresh
    PROVE  CleanInv'
<1> DEFINE s == task[w].copy.channels
<1>1. /\ UNCHANGED <<mode, run>> /\ Onward(s, r) /\ t.copy = [task[w].copy EXCEPT !.channels = r]
      /\ t.made = task[w].made /\ task[w].fresh \subseteq t.fresh /\ t.pc \in {"open", "resolve", "seed"}
      /\ task' = [task EXCEPT ![w] = t]
  BY DEF ParMoves
<1>2. /\ mode = "parallel" /\ Busy(w) /\ s \in [Slots -> Entries] /\ task[w].copy \in Rows
      /\ task[w].pc \notin {"made", "opened", "idle"}
      /\ \A c \in Slots : s[c].state \in OpenStates
  BY DEF InPar, ParTask, Busy
<1>3. t.copy.channels = r
  BY <1>1, <1>2 DEF Rows
<1>4. task'[w] = t /\ \A v \in Workers : v # w => task'[v] = task[v]
  BY <1>1 DEF TicksInv
<1>5. /\ KnownTo(w) /\ Alone(w) /\ opened \in [Slots -> 0..MaxOpens]
      /\ \A c \in Slots : opened[c] <= 1
  BY <1>2, AloneFacts DEF CleanInv, Clean, WorldInv
<1>6. FitsOpen(s, opened) /\ FitsDrain(s, owner)
  BY <1>2, <1>5 DEF KnownTo, At
<1> HIDE DEF s
<1>7. ASSUME NEW c \in Slots
      PROVE  /\ opened'[c] <= 1 /\ opened[c] <= opened'[c] /\ opened'[c] \in Nat
             /\ opened'[c] = opened[c] \/ (r[c].state # "queued" /\ c \in t.fresh)
  <2>1. CASE UNCHANGED opened
    BY <1>5, <2>1
  <2>2. ASSUME NEW d \in Slots, MakeChannel(d), s[d].state = "queued", r[d].state # "queued", d \in t.fresh
        PROVE  /\ opened'[c] <= 1 /\ opened[c] <= opened'[c] /\ opened'[c] \in Nat
               /\ opened'[c] = opened[c] \/ (r[c].state # "queued" /\ c \in t.fresh)
    <3>1. opened[d] = 0
      BY <1>6, <2>2 DEF FitsOpen
    <3>2. opened' = [opened EXCEPT ![d] = @ + 1]
      BY <2>2 DEF MakeChannel
    <3>3. opened'[c] = IF c = d THEN 1 ELSE opened[c]
      BY <1>5, <3>1, <3>2
    <3> QED
      BY <1>5, <2>2, <3>1, <3>3
  <2> QED
    BY <2>1, <2>2 DEF s
<1>8. FitsOpen(r, opened') /\ FitsDrain(r, owner)
  BY <1>1, <1>2, <1>6, <1>7, ParKnows
<1>9. KnownTo(w)'
  BY Zenon, <1>1, <1>2, <1>3, <1>4, <1>8 DEF KnownTo
<1>10. ~Unrecorded(w)' => FitsOpen(run.channels, opened')
  <2> SUFFICES ASSUME ~Unrecorded(w)' PROVE FitsOpen(run.channels, opened')
    OBVIOUS
  <2>1. t.made = 0 /\ \A c \in t.fresh : ~(opened'[c] > 0 /\ run.channels[c].state = "queued")
    BY <1>1, <1>4 DEF Unrecorded
  <2>2. t.fresh \subseteq Slots
    BY DEF ParMoves, Tasks
  <2>3. ~Unrecorded(w)
    <3>1. \A c \in task[w].fresh : ~(opened[c] > 0 /\ run.channels[c].state = "queued")
      BY <1>1, <1>5, <1>7, <2>1, <2>2
    <3> QED
      BY <1>1, <1>2, <2>1, <3>1 DEF Unrecorded, At
  <2>4. \A v \in Workers : ~Unrecorded(v)
    BY <1>5, <2>3, IdleOK DEF Alone, Unrecorded, At
  <2>5. FitsOpen(run.channels, opened)
    BY <2>4 DEF CleanInv, RunKnows
  <2>6. \A c \in Slots : c \in DOMAIN run.channels /\ run.channels[c].state # "opening"
    <3>1. ParRow(run) /\ run.channels \in Seq(Entries)
      BY DEF InPar, Rows
    <3> QED
      BY <3>1 DEF ParRow, OpenStates, Slots
  <2> QED
    BY <1>7, <2>1, <2>5, <2>6 DEF FitsOpen
<1> QED
  BY <1>1, <1>2, <1>4, <1>7, <1>9, <1>10, CleanMemory

(***************************************************************************)
(* A tick that nobody came between.                                        *)
(***************************************************************************)

\* A tick goes on in memory, or commits.
TickKind(w) ==
    /\ Busy(w) /\ UNCHANGED overlap
    /\ \A v \in Workers : v # w => task'[v] = task[v]
    /\ \/ UNCHANGED run /\ task'[w].base = task[w].base
       \/ \E copy, pc, made : Committed(w, copy, pc, made)

\* Every step of a tick is of one of these kinds.
LEMMA TickKinds ==
    ASSUME TicksInv, WorldInv, NEW w \in Workers, Step(w) \/ Late(w)
    PROVE  TickKind(w)
<1>0. task \in [Workers -> Tasks] /\ run \in Rows
  BY DEF TicksInv
<1>1. ASSUME Busy(w), UNCHANGED overlap, NEW r, NEW t, ParMoves(w, r, t) PROVE TickKind(w)
  BY <1>0, <1>1 DEF ParMoves, TickKind
<1>2. ASSUME Busy(w), UNCHANGED overlap, NEW copy, NEW pc, NEW made, Committed(w, copy, pc, made)
      PROVE  TickKind(w)
  BY <1>2 DEF Committed, TickKind
<1>3. ASSUME Busy(w), UNCHANGED overlap, NEW copy \in Rows, NEW pc \in Pcs, Goto(w, copy, pc)
      PROVE  TickKind(w)
  BY <1>0, <1>3, GotoFields DEF TickKind
<1>4. ASSUME Busy(w), UNCHANGED overlap, NEW copy \in Rows, NEW pc \in Pcs, NEW c,
             MakeSwap(w, c, copy, pc)
      PROVE  TickKind(w)
  <2>1. PICK i \in Swaps : Commit(w, copy, pc, i)
    BY <1>4 DEF MakeSwap
  <2>2. Committed(w, copy, pc, i)
    BY <1>0, <1>4, <2>1, CommitFields
  <2> QED
    BY <1>2, <1>4, <2>2
<1>5. CASE RoundAction(w)
  <2>1. At(w, "round")
    BY <1>5, RoundActions
  <2>2. PICK e, copy, pc : RoundMoves(w, e, copy, pc)
    BY <1>5, RoundActions
  <2>3. UNCHANGED overlap
    BY Zenon, <1>5 DEF RoundAction, OpeningFails, Opening, OpenPending, OpenActiveNoSwap, SwapPending, Wait,
                WaitLate, NoAnswer
  <2> QED
    BY <1>3, <2>1, <2>2, <2>3 DEF RoundMoves, At, Busy, Pcs, BootPcs
<1>6. CASE OpenOne(w)
  BY Zenon, <1>1, <1>6, Opens DEF OpenOne, InPar
<1>7. CASE Refresh(w) \/ Resolve(w) \/ ResolveLate(w) \/ Seeded(w)
  <2>1. UNCHANGED overlap
    BY Zenon, <1>7 DEF Refresh, Resolve, ResolveLate, ResolveAs, Seeded
  <2> QED
    BY <1>1, <1>7, <2>1, Looks DEF InPar
<1>8. CASE SeedOne(w)
  <2>1. /\ InPar(w)
        /\ \/ \E r, t : ParMoves(w, r, t) /\ UNCHANGED <<swaps, owner>>
           \/ \E c, r : Seeds(w, c, r)
    BY <1>8, SeedSteps
  <2>2. Busy(w) /\ UNCHANGED overlap
    BY <1>8, <2>1 DEF SeedOne, InPar
  <2>3. ASSUME NEW c, NEW r, Seeds(w, c, r) PROVE TickKind(w)
    <3>1. Onward(task[w].copy.channels, r) /\ MakeSwap(w, c, [task[w].copy EXCEPT !.channels = r], "seeded")
      BY <2>3 DEF Seeds
    <3>2. [task[w].copy EXCEPT !.channels = r] \in Rows /\ "seeded" \in Pcs
      BY <2>1, <3>1, ParCopy DEF Pcs
    <3> QED
      BY <1>4, <2>2, <3>1, <3>2
  <2> QED
    BY <1>1, <2>1, <2>2, <2>3
<1>9. CASE Rollup(w) \/ RecordOpened(w) \/ After(w) \/ EndRun(w) \/ AwaitFunds(w) \/ AwaitLate(w)
  <2>1. Busy(w) /\ UNCHANGED overlap
    BY Zenon, <1>9 DEF Rollup, RecordOpened, After, EndRun, AwaitFunds, AwaitLate, At, Busy
  <2>2. CASE After(w) /\ Goto(w, task[w].copy, "start")
    BY <1>0, <1>3, <2>1, <2>2 DEF Tasks, Pcs, BootPcs
  <2>3. CASE ~(After(w) /\ Goto(w, task[w].copy, "start"))
    BY <1>2, <1>9, <2>1, <2>3, SameCommits DEF Same
  <2> QED
    BY <2>2, <2>3
<1>10. CASE Advance(w)
  <2>1. Busy(w) /\ UNCHANGED <<overlap, run>>
    BY <1>10 DEF Advance, At, Busy
  <2>2. \/ task' = [task EXCEPT ![w].pc = "start"]
        \/ \E c \in InFlight(task[w].copy) : task' = [task EXCEPT ![w].pc = "round", ![w].slot = c]
    BY Zenon, <1>10 DEF Advance
  <2>3. (\A v \in Workers : v # w => task'[v] = task[v]) /\ task'[w].base = task[w].base
    BY Zenon, <1>0, <2>2 DEF Tasks
  <2> QED
    BY <2>1, <2>3 DEF TickKind
<1>11. CASE StartRound(w)
  <2>1. Busy(w) /\ UNCHANGED <<overlap, run>>
    BY <1>11 DEF StartRound, At, Busy
  <2>2. task' = [task EXCEPT ![w].copy = Extended(w), ![w].slot = Len(task[w].copy.channels) + 1, ![w].pc = "round"]
    BY <1>11 DEF StartRound, Extended
  <2>3. (\A v \in Workers : v # w => task'[v] = task[v]) /\ task'[w].base = task[w].base
    BY Zenon, <1>0, <2>2 DEF Tasks
  <2> QED
    BY <2>1, <2>3 DEF TickKind
<1>12. CASE OpenActive(w)
  <2>1. Busy(w) /\ UNCHANGED overlap /\ MakeSwap(w, task[w].slot, task[w].copy, "made")
    BY <1>12 DEF OpenActive, Round, At, Busy
  <2>2. task[w].copy \in Rows /\ "made" \in Pcs
    BY <1>0 DEF Tasks, Pcs, BootPcs
  <2> QED
    BY <1>4, <2>1, <2>2
<1>13. CASE LinkSwap(w)
  <2>1. /\ task[w].pc = "made" /\ task[w].pc \in RoundPcs /\ UNCHANGED overlap
        /\ Commit(w, With(w, Linked(Entry(w), task[w].made)), "after", 0)
    BY <1>13 DEF LinkSwap, At, RoundPcs, Linked
  <2>2. InBoot(w) /\ InRound(w)
    BY <2>1, RoundFacts
  <2>3. /\ Busy(w) /\ Entry(w) \in Entries /\ RoundOK(Entry(w)) /\ Entry(w).state = "open_active"
        /\ task[w].made \in Swaps
    <3>1. task[w].made # 0 /\ task[w].made \in Swaps \cup {0}
      BY <2>1, <2>2 DEF InBoot, BootTask, Tasks
    <3> QED
      BY <2>1, <2>2, <3>1 DEF InBoot, InRound, BootTask, Entry
  <2> DEFINE e == Linked(Entry(w), task[w].made)
  <2>4. e \in Entries /\ RoundOK(e)
    BY Zenon, <2>3, RoundLinked
  <2> HIDE DEF e
  <2>5. With(w, e) \in Rows
    BY <2>1, <2>4, WithFields DEF Replaced
  <2>6. Committed(w, With(w, e), "after", 0)
    <3>1. "after" \in Pcs
      BY DEF Pcs, BootPcs
    <3> QED
      BY <1>0, <2>1, <2>5, <3>1, CommitFields DEF e
  <2> QED
    BY <1>2, <2>1, <2>3, <2>6
<1> QED
  BY <1>5, <1>6, <1>7, <1>8, <1>9, <1>10, <1>11, <1>12, <1>13 DEF Step, Late, RoundAction

\* Neither an overlap nor a loss is undone.
LEMMA StaysUnclean ==
    ASSUME TicksInv, WorldInv, Next, Clean'
    PROVE  Clean
<1>1. ASSUME NEW w \in Workers, Step(w) \/ Late(w) PROVE UNCHANGED lost \/ lost' = TRUE
  <2>1. ASSUME \/ Refresh(w) \/ Resolve(w) \/ ResolveLate(w) \/ Seeded(w) \/ Rollup(w)
               \/ Advance(w) \/ OpeningFails(w) \/ RecordOpened(w) \/ OpenPending(w) \/ Opening(w)
        PROVE  UNCHANGED lost \/ lost' = TRUE
    BY Zenon, <2>1 DEF Refresh, Resolve, ResolveLate, ResolveAs, Seeded, Rollup, Advance,
                OpeningFails, RecordOpened, OpenPending, Opening
  <2>2. ASSUME \/ OpenActiveNoSwap(w) \/ LinkSwap(w) \/ SwapPending(w) \/ Wait(w) \/ NoAnswer(w)
               \/ After(w) \/ EndRun(w) \/ AwaitFunds(w) \/ StartRound(w) \/ WaitLate(w) \/ AwaitLate(w)
               \/ OpenOne(w) \/ SeedOne(w) \/ OpenActive(w)
        PROVE  UNCHANGED lost
    BY Zenon, <2>2 DEF OpenActiveNoSwap, LinkSwap, SwapPending, Wait, NoAnswer, After, EndRun, AwaitFunds,
                StartRound, WaitLate, AwaitLate, OpenOne, SeedOne, OpenActive
  <2> QED
    BY Zenon, <1>1, <2>1, <2>2 DEF Step, Late
<1>2. ASSUME NEW w \in Workers, Step(w) \/ Late(w) PROVE Clean
  BY Zenon, <1>1, <1>2, TickKinds DEF TickKind, Clean
<1>3. ASSUME NEW w \in Workers, Begin(w) PROVE Clean
  BY <1>3 DEF Begin, Clean
<1>4. ASSUME NEW w \in Workers, Crash(w) PROVE Clean
  BY <1>4 DEF Crash, Clean
<1>5. AskStop \/ AskForceStop \/ Execute \/ ChannelMoves \/ SwapMoves => Clean
  <2>1. AskStop \/ Execute \/ ChannelMoves \/ SwapMoves => UNCHANGED overlap /\ UNCHANGED lost
    BY Zenon DEF AskStop, Execute, ChannelMoves, SwapMoves
  <2>2. AskForceStop => UNCHANGED lost /\ overlap' = (overlap \/ Between)
    BY Zenon DEF AskForceStop
  <2> QED
    BY Zenon, <2>1, <2>2 DEF Clean
<1> QED
  BY <1>2, <1>3, <1>4, <1>5 DEF Next

\* One tick at a time, and the row is as it left it.
LEMMA AloneStep ==
    ASSUME TicksInv, WorldInv, AloneInv, Next
    PROVE  AloneInv'
<1> SUFFICES ASSUME ~overlap'
             PROVE  /\ \A v, w \in Workers : Busy(v)' /\ Busy(w)' => v = w
                    /\ \A w \in Workers : Busy(w)' => Undisturbed(w)'
  BY DEF AloneInv
<1>0. task \in [Workers -> Tasks] /\ run \in Rows
  BY DEF TicksInv
<1>1. ASSUME NEW w \in Workers, Step(w) \/ Late(w)
      PROVE  /\ \A v, u \in Workers : Busy(v)' /\ Busy(u)' => v = u
             /\ \A u \in Workers : Busy(u)' => Undisturbed(u)'
  <2>1. TickKind(w)
    BY <1>1, TickKinds
  <2>2. Alone(w)
    BY <2>1, AloneFacts DEF TickKind
  <2>3. \A v \in Workers : v # w => ~Busy(v)'
    BY <2>1, <2>2, IdleOK DEF TickKind, Alone, Busy
  <2>4. CASE UNCHANGED run /\ task'[w].base = task[w].base
    BY <2>2, <2>3, <2>4 DEF Alone, Undisturbed
  <2>5. ASSUME NEW copy, NEW pc, NEW made, Committed(w, copy, pc, made)
        PROVE  Busy(w)' => Undisturbed(w)'
    <3>1. run'.state = copy.state /\ run'.channels = copy.channels /\ run'.realized = copy.realized
      BY <2>2, <2>5, AloneWrites
    <3>2. pc # "idle" => task'[w].base = copy
      BY <2>5 DEF Committed
    <3>3. pc = "idle" => ~Busy(w)'
      BY <2>5, IdleOK DEF Committed, Busy
    <3> QED
      BY <3>1, <3>2, <3>3 DEF Undisturbed
  <2> QED
    BY <2>1, <2>3, <2>4, <2>5 DEF TickKind
<1>2. ASSUME NEW w \in Workers, Begin(w)
      PROVE  /\ \A v, u \in Workers : Busy(v)' /\ Busy(u)' => v = u
             /\ \A u \in Workers : Busy(u)' => Undisturbed(u)'
  <2>1. \A v \in Workers : ~Busy(v)
    BY <1>2, MixAssumption DEF Begin, Between
  <2>2. UNCHANGED run /\ \A v \in Workers : v # w => task'[v] = task[v]
    BY <1>0, <1>2 DEF Begin
  <2>3. task'[w].base = run
    BY <1>0, <1>2 DEF Begin, Loaded
  <2> QED
    BY <2>1, <2>2, <2>3 DEF Busy, Undisturbed
<1>3. ASSUME NEW w \in Workers, Crash(w)
      PROVE  /\ \A v, u \in Workers : Busy(v)' /\ Busy(u)' => v = u
             /\ \A u \in Workers : Busy(u)' => Undisturbed(u)'
  <2>1. UNCHANGED <<run, overlap>> /\ task'[w] = Idle /\ \A v \in Workers : v # w => task'[v] = task[v]
    BY <1>0, <1>3 DEF Crash
  <2> QED
    BY <2>1, IdleOK DEF AloneInv, Busy, Undisturbed
<1>4. ASSUME AskStop \/ AskForceStop
      PROVE  /\ \A v, u \in Workers : Busy(v)' /\ Busy(u)' => v = u
             /\ \A u \in Workers : Busy(u)' => Undisturbed(u)'
  <2>1. /\ UNCHANGED task /\ run'.channels = run.channels /\ run'.realized = run.realized
        /\ AskStop => run'.state = run.state
    BY <1>0, <1>4, StopFields
  <2>2. CASE AskStop
    BY <2>1, <2>2 DEF AskStop, AloneInv, Busy, Undisturbed
  <2>3. CASE AskForceStop
    <3>1. \A v \in Workers : ~Busy(v)
      BY Zenon, <2>3, MixAssumption DEF AskForceStop, Between
    <3> QED
      BY <2>1, <3>1 DEF Busy
  <2> QED
    BY <1>4, <2>2, <2>3
<1>5. ASSUME Execute \/ ChannelMoves \/ SwapMoves
      PROVE  /\ \A v, u \in Workers : Busy(v)' /\ Busy(u)' => v = u
             /\ \A u \in Workers : Busy(u)' => Undisturbed(u)'
  <2>1. UNCHANGED <<run, task, overlap>>
    BY <1>5 DEF Execute, ChannelMoves, SwapMoves
  <2> QED
    BY <2>1 DEF AloneInv, Busy, Undisturbed
<1> QED
  BY <1>1, <1>2, <1>3, <1>4, <1>5 DEF Next

\* Nobody is at work: the row knows all.
LEMMA AllKnown ==
    ASSUME CleanInv, Clean, \A v \in Workers : task[v].made = 0 /\ ~Unrecorded(v)
    PROVE  /\ \A c \in Slots : opened[c] <= 1 /\ IsFiniteSet(Made(owner, c))
           /\ FitsOpen(run.channels, opened) /\ FitsDrain(run.channels, owner)
           /\ WeakDrain(run.channels, owner)
           /\ mode = "bootstrap" => FitsRound(run.channels, owner) /\ Earned(run, swaps)
BY DEF CleanInv, RunKnows

(***************************************************************************)
(* The steps that open, drain and settle a channel: they are counted.      *)
(***************************************************************************)
INSTANCE FiniteSetTheorems

\* The drains fit after one round has changed.
LEMMA DrainPut ==
    ASSUME NEW s, NEW r, NEW n, Put(s, r, n), NEW own, FitsDrain(s, own), FitsRound(s, own),
           \A c \in Slots : IsFiniteSet(Made(own, c)),
           s[n].swap_attempts \in Nat, r[n].swap_attempts \in Nat,
           r[n].seed # "queued", r[n].swap_attempts >= s[n].swap_attempts,
           r[n].state \in {"opening", "open_pending", "open_active"} =>
              \/ s[n].state \in {"opening", "open_pending", "open_active"}
              \/ r[n].swap_attempts > s[n].swap_attempts
    PROVE  FitsDrain(r, own) /\ FitsRound(r, own)
<1>1. ASSUME NEW c \in Slots PROVE Cardinality(Made(own, c)) \in Nat
  BY <1>1, FS_CardinalityType
<1>2. FitsDrain(r, own)
  <2> SUFFICES ASSUME NEW c \in Slots
               PROVE  /\ c \notin DOMAIN r \/ r[c].seed = "queued" => Made(own, c) = {}
                      /\ c \in DOMAIN r => Cardinality(Made(own, c)) <= r[c].swap_attempts + 1
    BY DEF FitsDrain
  <2>1. CASE c = n
    BY <1>1, <2>1 DEF FitsDrain, Put
  <2>2. CASE c # n
    BY <2>2 DEF FitsDrain, Put
  <2> QED
    BY <2>1, <2>2
<1>3. FitsRound(r, own)
  <2> SUFFICES ASSUME NEW c \in Slots \cap DOMAIN r,
                      r[c].state \in {"opening", "open_pending", "open_active"}
               PROVE  Cardinality(Made(own, c)) <= r[c].swap_attempts
    BY DEF FitsRound
  <2>1. CASE c = n
    <3>1. CASE s[n].state \in {"opening", "open_pending", "open_active"}
      BY <1>1, <2>1, <3>1 DEF FitsRound, Put
    <3>2. CASE r[n].swap_attempts > s[n].swap_attempts
      BY <1>1, <2>1, <3>2 DEF FitsDrain, Put
    <3> QED
      BY <2>1, <3>1, <3>2
  <2>2. CASE c # n
    BY <2>2 DEF FitsRound, Put
  <2> QED
    BY <2>1, <2>2
<1> QED
  BY <1>2, <1>3

\* The realized liquidity is earned after one round has changed.
LEMMA EarnedPut ==
    ASSUME NEW s, NEW r, NEW n, Put(s, r, n), NEW old, NEW new, NEW rows, Earned(old, rows),
           old.channels = s, new.channels = r, s[n].state # "settled",
           r[n].state = "settled" /\ r[n].swap_id # 0
              => new.realized = old.realized + 1 /\ rows[r[n].swap_id].coin = "claimed",
           ~(r[n].state = "settled" /\ r[n].swap_id # 0) => new.realized = old.realized
    PROVE  Earned(new, rows)
<1>1. n \in 1..n /\ n \notin Drained(s) /\ n \in Nat
  BY DEF Put, Drained
<1>2. \A c \in 1..n : c # n => (c \in Drained(r) <=> c \in Drained(s)) /\ r[c] = s[c]
  BY DEF Put, Drained
<1>3. Drained(s) \subseteq 1..n /\ Drained(r) \subseteq 1..n
  BY DEF Put, Drained
<1>4. IsFiniteSet(Drained(s))
  BY <1>1, <1>3, FS_Interval, FS_Subset
<1>5. /\ old.realized = Cardinality(Drained(s))
      /\ \A c \in Drained(s) : rows[s[c].swap_id].coin = "claimed"
  BY DEF Earned
<1>6. CASE r[n].state = "settled" /\ r[n].swap_id # 0
  <2>1. Drained(r) = Drained(s) \cup {n}
    <3>1. n \in Drained(r)
      BY <1>1, <1>6 DEF Drained, Put
    <3> QED
      BY <1>1, <1>2, <1>3, <3>1
  <2>2. Cardinality(Drained(r)) = Cardinality(Drained(s)) + 1
    BY Zenon, <1>1, <1>4, <2>1, FS_AddElement
  <2>3. \A c \in Drained(r) : rows[r[c].swap_id].coin = "claimed"
    BY <1>2, <1>3, <1>5, <1>6, <2>1
  <2> QED
    BY <1>5, <1>6, <2>2, <2>3 DEF Earned
<1>7. CASE ~(r[n].state = "settled" /\ r[n].swap_id # 0)
  <2>1. Drained(r) = Drained(s)
    <3>1. n \notin Drained(r)
      BY <1>7 DEF Drained
    <3>2. \A c : c \in Drained(r) <=> c \in Drained(s)
      BY <1>1, <1>2, <1>3, <3>1
    <3> QED
      BY Zenon, <3>2
  <2>2. \A c \in Drained(r) : rows[r[c].swap_id].coin = "claimed"
    BY <1>1, <1>2, <1>3, <1>5, <2>1
  <2> QED
    BY <1>5, <1>7, <2>1, <2>2 DEF Earned
<1> QED
  BY <1>6, <1>7

\* A new round r[n].
Added(s, r, n) ==
    /\ n \in Nat /\ n > 0 /\ DOMAIN s = 1..(n - 1) /\ DOMAIN r = 1..n /\ Len(s) = n - 1 /\ Len(r) = n
    /\ \A c \in 1..(n - 1) : r[c] = s[c]
    /\ r[n].state = "opening" /\ r[n].seed = "skipped" /\ r[n].swap_attempts = 0

\* A round that is added knows what there is to know of it.
LEMMA AddedKnows ==
    ASSUME NEW s, NEW r, NEW n, Added(s, r, n), NEW open, NEW own, NEW rows, NEW old, NEW new,
           FitsOpen(s, open), FitsDrain(s, own), FitsRound(s, own), Earned(old, rows),
           old.channels = s, new.channels = r, new.realized = old.realized
    PROVE  FitsOpen(r, open) /\ FitsDrain(r, own) /\ FitsRound(r, own) /\ Earned(new, rows)
<1>0. n \in 1..n /\ n \notin 1..(n - 1) /\ \A c : c \in 1..n /\ c # n => c \in 1..(n - 1)
  BY DEF Added
<1>1. FitsOpen(r, open)
  <2> SUFFICES ASSUME NEW c \in Slots, c \notin DOMAIN r \/ r[c].state \in {"queued", "opening"}
               PROVE  open[c] = 0
    BY DEF FitsOpen
  <2>1. CASE c \in DOMAIN s
    BY <1>0, <2>1 DEF FitsOpen, Added
  <2>2. CASE c \notin DOMAIN s
    BY <2>2 DEF FitsOpen
  <2> QED
    BY <2>1, <2>2
<1>2. ASSUME n \in Slots PROVE Made(own, n) = {} /\ Cardinality(Made(own, n)) = 0
  BY Zenon, <1>0, <1>2, FS_EmptySet DEF FitsDrain, Added
<1>3. FitsDrain(r, own)
  <2> SUFFICES ASSUME NEW c \in Slots
               PROVE  /\ c \notin DOMAIN r \/ r[c].seed = "queued" => Made(own, c) = {}
                      /\ c \in DOMAIN r => Cardinality(Made(own, c)) <= r[c].swap_attempts + 1
    BY DEF FitsDrain
  <2>1. CASE c = n
    BY <1>0, <1>2, <2>1 DEF Added
  <2>2. CASE c # n
    BY <1>0, <2>2 DEF FitsDrain, Added
  <2> QED
    BY <2>1, <2>2
<1>4. FitsRound(r, own)
  <2> SUFFICES ASSUME NEW c \in Slots \cap DOMAIN r,
                      r[c].state \in {"opening", "open_pending", "open_active"}
               PROVE  Cardinality(Made(own, c)) <= r[c].swap_attempts
    BY DEF FitsRound
  <2>1. CASE c = n
    BY <1>0, <1>2, <2>1 DEF Added
  <2>2. CASE c # n
    BY <1>0, <2>2 DEF FitsRound, Added
  <2> QED
    BY <2>1, <2>2
<1>5. Drained(r) = Drained(s)
  BY <1>0 DEF Drained, Added
<1>6. \A c \in Drained(r) : r[c] = s[c]
  BY <1>5 DEF Drained, Added
<1>7. Earned(new, rows)
  BY <1>5, <1>6 DEF Earned
<1> QED
  BY <1>1, <1>3, <1>4, <1>7

\* At most one more swap, for slot c.
OneMore(own, now, c) ==
    \A d \in Slots : /\ IsFiniteSet(Made(now, d))
                     /\ Cardinality(Made(own, d)) \in Nat /\ Cardinality(Made(now, d)) \in Nat
                     /\ d # c => /\ Cardinality(Made(now, d)) <= Cardinality(Made(own, d))
                                 /\ Made(own, d) = {} => Made(now, d) = {}
                     /\ Cardinality(Made(now, d)) <= Cardinality(Made(own, d)) + 1

\* A swap i that is made for slot c is one more.
LEMMA SwapMade ==
    ASSUME NEW own, NEW i \in Swaps, NEW c \in Slots, own \in [Swaps -> Slots \cup {0}],
           \A d \in Slots : IsFiniteSet(Made(own, d)), NEW now, now = [own EXCEPT ![i] = c]
    PROVE  OneMore(own, now, c)
<1> SUFFICES ASSUME NEW d \in Slots
             PROVE  /\ IsFiniteSet(Made(now, d))
                    /\ Cardinality(Made(own, d)) \in Nat /\ Cardinality(Made(now, d)) \in Nat
                    /\ d # c => /\ Cardinality(Made(now, d)) <= Cardinality(Made(own, d))
                                /\ Made(own, d) = {} => Made(now, d) = {}
                    /\ Cardinality(Made(now, d)) <= Cardinality(Made(own, d)) + 1
  BY Zenon DEF OneMore
<1>1. Made(now, d) \in SUBSET (Made(own, d) \cup {i}) /\ (d # c => Made(now, d) \in SUBSET Made(own, d))
  BY DEF Made
<1>2. IsFiniteSet(Made(own, d))
  OBVIOUS
<1>3. /\ IsFiniteSet(Made(own, d) \cup {i})
      /\ Cardinality(Made(own, d) \cup {i}) \in {Cardinality(Made(own, d)), Cardinality(Made(own, d)) + 1}
  BY Zenon, <1>2, FS_AddElement
<1>4. IsFiniteSet(Made(now, d)) /\ Cardinality(Made(now, d)) <= Cardinality(Made(own, d) \cup {i})
  BY Zenon, <1>1, <1>3, FS_Subset
<1>5. d # c => Cardinality(Made(now, d)) <= Cardinality(Made(own, d))
  BY Zenon, <1>1, <1>2, FS_Subset
<1>6. Cardinality(Made(own, d)) \in Nat /\ Cardinality(Made(now, d)) \in Nat
  BY <1>2, <1>4, FS_CardinalityType
<1>7. Cardinality(Made(now, d)) <= Cardinality(Made(own, d)) + 1
  <2> DEFINE x == Cardinality(Made(own, d))
             y == Cardinality(Made(now, d))
             z == Cardinality(Made(own, d) \cup {i})
  <2>1. x \in Nat /\ y \in Nat /\ y <= z /\ (z = x \/ z = x + 1)
    BY <1>3, <1>4, <1>6
  <2> HIDE DEF x, y, z
  <2>2. y <= x + 1
    BY <2>1
  <2> QED
    BY <2>2 DEF x, y
<1>8. d # c => (Made(own, d) = {} => Made(now, d) = {})
  BY Zenon, <1>1
<1> QED
  BY Zenon, <1>4, <1>5, <1>6, <1>7, <1>8

\* A step of a round, and what it opens.
LEMMA CleanRound ==
    ASSUME TicksInv, WorldInv, AloneInv, CleanInv, Clean, Clean', NEW w \in Workers, RoundAction(w)
    PROVE  CleanInv'
<1>1. At(w, "round") /\ task[w].pc = "round" /\ task[w].pc \in RoundPcs
  BY RoundActions DEF At, RoundPcs
<1>2. PICK e, copy, pc : RoundMoves(w, e, copy, pc)
  BY RoundActions
<1>3. InBoot(w) /\ InRound(w) /\ Replaced(w, e) /\ task \in [Workers -> Tasks]
  BY <1>1, <1>2, RoundFacts, WithFields DEF RoundMoves, TicksInv
<1>4. mode = "bootstrap" /\ Busy(w) /\ Alone(w) /\ KnownTo(w)
  BY <1>3, AloneFacts DEF InBoot, CleanInv, Clean
<1> DEFINE s == task[w].copy.channels
           n == task[w].slot
<1>5. /\ e \in Entries /\ copy \in Rows /\ pc \in Pcs /\ pc \in {"after", "opened"} /\ Goto(w, copy, pc)
  BY <1>2 DEF RoundMoves, Pcs, BootPcs
<1>6. /\ UNCHANGED run /\ \A v \in Workers : v # w => task'[v] = task[v]
      /\ task'[w].pc = pc /\ task'[w].copy = copy
      /\ task'[w].made = task[w].made /\ task'[w].fresh = task[w].fresh
  BY <1>3, <1>5, GotoFields
<1>7. Put(s, copy.channels, n) /\ copy.channels[n] = e /\ s[n] = Entry(w) /\ n \in Slots
  BY <1>2, <1>3 DEF RoundMoves, Replaced, Replaces, InRound, Put, Entry
<1>8. UNCHANGED <<mode, owner, swaps>>
  BY Zenon DEF RoundAction, OpeningFails, Opening, OpenPending, OpenActiveNoSwap, SwapPending, Wait,
            WaitLate, NoAnswer, World
<1>9. \/ UNCHANGED opened
      \/ MakeChannel(n) /\ pc = "opened" /\ Entry(w).state = "opening"
  <2>1. CASE Opening(w)
    <3>1. /\ MakeChannel(n) /\ Entry(w).state = "opening"
          /\ \/ lost' = TRUE
             \/ Goto(w, With(w, [Entry(w) EXCEPT !.open_txid = TRUE, !.state = "open_pending", !.peer = 1]), "opened")
      BY <2>1 DEF Opening, Round
    <3>2. lost' # TRUE
      BY Zenon DEF Clean
    <3>3. task'[w].pc = "opened"
      BY Zenon, <1>3, <3>1, <3>2 DEF Goto, Tasks
    <3> QED
      BY <1>6, <3>1, <3>3
  <2>2. CASE ~Opening(w)
    BY <2>2 DEF RoundAction, OpeningFails, OpenPending, OpenActiveNoSwap, SwapPending, Wait,
                WaitLate, NoAnswer, World
  <2> QED
    BY <2>1, <2>2
<1>10. /\ FitsOpen(s, opened) /\ FitsDrain(s, owner) /\ FitsRound(s, owner) /\ Earned(task[w].copy, swaps)
       /\ \A c \in Slots : opened[c] <= 1 /\ IsFiniteSet(Made(owner, c))
  BY <1>1, <1>4 DEF KnownTo, At, CleanInv
<1>11. Entry(w).state \in {"opening", "open_pending", "open_active", "swap_pending"}
  BY <1>1, <1>3 DEF InBoot, BootTask, Entry, Going, RoundStates, RoundTerminal
<1>12. e.swap_attempts \in Nat /\ Entry(w).swap_attempts \in Nat /\ e.seed = "skipped"
  BY <1>2, <1>3, <1>5 DEF RoundMoves, RoundOK, InRound, Entries
<1>13. opened \in [Slots -> 0..MaxOpens]
  BY DEF WorldInv
<1> HIDE DEF s, n
<1>14. FitsOpen(copy.channels, opened') /\ \A c \in Slots : opened'[c] <= 1
  <2>1. CASE UNCHANGED opened
    <3>1. e.state \in {"queued", "opening"} => Entry(w).state = "opening"
      BY <1>2 DEF RoundMoves, RoundOK, RoundStates
    <3>2. FitsOpen(copy.channels, opened)
      BY <1>7, <1>10, <3>1, OpenPut
    <3> QED
      BY <1>10, <2>1, <3>2
  <2>2. CASE MakeChannel(n) /\ pc = "opened" /\ Entry(w).state = "opening"
    <3>1. e.state = "open_pending"
      BY <1>2, <2>2 DEF RoundMoves
    <3>2. opened[n] = 0
      BY <1>7, <1>10, <2>2 DEF FitsOpen
    <3>3. opened' = [opened EXCEPT ![n] = @ + 1]
      BY <2>2 DEF MakeChannel
    <3>4. (\A c \in Slots : c # n => opened'[c] = opened[c]) /\ opened'[n] = 1
      BY <1>7, <1>13, <3>2, <3>3
    <3>5. FitsOpen(copy.channels, opened')
      BY <1>7, <1>10, <3>1, <3>4, OpenPut
    <3> QED
      BY <1>10, <3>4, <3>5
  <2> QED
    BY <1>9, <2>1, <2>2
<1>15. FitsDrain(copy.channels, owner) /\ FitsRound(copy.channels, owner)
  <2>1. /\ e.swap_attempts >= Entry(w).swap_attempts
        /\ Entry(w).state = "swap_pending" /\ e.state \in {"opening", "open_pending", "open_active"}
              => e.swap_attempts > Entry(w).swap_attempts
    BY <1>2 DEF RoundMoves
  <2> QED
    BY <1>7, <1>10, <1>11, <1>12, <2>1, DrainPut
<1>16. Earned(copy, swaps)
  <2>1. /\ e.state = "settled" /\ e.swap_id # 0
              => copy.realized = task[w].copy.realized + 1 /\ swaps[e.swap_id].coin = "claimed"
        /\ ~(e.state = "settled" /\ e.swap_id # 0) => copy.realized = task[w].copy.realized
    BY <1>2 DEF RoundMoves
  <2> QED
    BY <1>7, <1>10, <1>11, <2>1, EarnedPut DEF s
<1>17. KnownTo(w)'
  BY <1>5, <1>6, <1>8, <1>14, <1>15, <1>16 DEF KnownTo, At
<1>18. ~Unrecorded(w)' => FitsOpen(run.channels, opened')
  <2> SUFFICES ASSUME ~Unrecorded(w)' PROVE FitsOpen(run.channels, opened')
    OBVIOUS
  <2>1. UNCHANGED opened
    BY <1>6, <1>9 DEF Unrecorded, At
  <2>2. ~Unrecorded(w)
    BY <1>1, <1>6, <2>1 DEF Unrecorded, At
  <2>3. \A v \in Workers : ~Unrecorded(v)
    BY <1>4, <2>2, IdleOK DEF Alone, Unrecorded, At
  <2> QED
    BY <2>1, <2>3 DEF CleanInv, RunKnows
<1> QED
  BY <1>4, <1>6, <1>8, <1>14, <1>17, <1>18, CleanMemory

\* A new round knows that nothing was made for it.
LEMMA CleanStart ==
    ASSUME TicksInv, AloneInv, CleanInv, Clean, NEW w \in Workers, StartRound(w)
    PROVE  CleanInv'
<1>1. At(w, "start") /\ MayGoOn(task[w].copy) /\ UNCHANGED <<mode, run, opened, owner, swaps>>
  BY DEF StartRound, World
<1>2. InStart(w) /\ Extends(w)
  BY <1>1, StartFacts, ExtendFields
<1> DEFINE s == task[w].copy.channels
           n == Len(s) + 1
           r == Extended(w).channels
<1>3. mode = "bootstrap" /\ Busy(w) /\ RoundsOK(s) /\ task \in [Workers -> Tasks]
  BY <1>2 DEF InStart, TicksInv
<1>4. Alone(w) /\ KnownTo(w) /\ \A c \in Slots : opened[c] <= 1
  BY <1>3, AloneFacts DEF CleanInv, Clean
<1>5. /\ FitsOpen(s, opened) /\ FitsDrain(s, owner) /\ FitsRound(s, owner) /\ Earned(task[w].copy, swaps)
  BY <1>1, <1>3, <1>4 DEF KnownTo, At
<1>6. Added(s, r, n)
  <2>1. NewEntry("skipped").state = "opening" /\ NewEntry("skipped").seed = "skipped"
        /\ NewEntry("skipped").swap_attempts = 0
    BY <1>3 DEF NewEntry
  <2>2. Len(s) \in Nat /\ DOMAIN s = 1..Len(s) /\ n - 1 = Len(s)
    BY <1>3 DEF RoundsOK
  <2> QED
    BY <1>2, <2>1, <2>2 DEF Extends, Added
<1>7. Extended(w).realized = task[w].copy.realized
  BY <1>2 DEF Extends
<1>8. FitsOpen(r, opened) /\ FitsDrain(r, owner) /\ FitsRound(r, owner) /\ Earned(Extended(w), swaps)
  BY <1>5, <1>6, <1>7, AddedKnows
<1>9. task' = [task EXCEPT ![w].copy = Extended(w), ![w].slot = n, ![w].pc = "round"]
  BY DEF StartRound, Extended
<1> HIDE DEF n
<1>10. /\ \A v \in Workers : v # w => task'[v] = task[v]
       /\ task'[w].copy = Extended(w) /\ task'[w].pc = "round"
       /\ task'[w].made = task[w].made /\ task'[w].fresh = task[w].fresh
  BY Zenon, <1>3, <1>9 DEF Tasks
<1>11. KnownTo(w)'
  BY <1>1, <1>8, <1>10 DEF KnownTo
<1>12. ~Unrecorded(w)' => \A v \in Workers : ~Unrecorded(v)
  BY <1>1, <1>4, <1>10, IdleOK DEF Unrecorded, At, Alone
<1>13. ~Unrecorded(w)' => FitsOpen(run.channels, opened)
  BY <1>12 DEF CleanInv, RunKnows
<1> QED
  BY <1>1, <1>3, <1>4, <1>10, <1>11, <1>13, CleanMemory

\* The swap that drains a round is made when none is out for it.
LEMMA CleanDrains ==
    ASSUME TicksInv, WorldInv, AloneInv, CleanInv, Clean, NEW w \in Workers, OpenActive(w)
    PROVE  CleanInv'
<1>1. /\ task[w].pc = "round" /\ task[w].pc \in RoundPcs /\ Entry(w).state = "open_active"
      /\ MakeSwap(w, task[w].slot, task[w].copy, "made") /\ UNCHANGED <<mode, opened>>
  BY DEF OpenActive, Round, At, RoundPcs
<1>2. InBoot(w) /\ InRound(w)
  BY <1>1, RoundFacts
<1> DEFINE s == task[w].copy.channels
           n == task[w].slot
<1>3. /\ mode = "bootstrap" /\ Busy(w) /\ task[w].copy \in Rows /\ n \in Slots /\ n = Len(s)
      /\ s \in Seq(Entries) /\ n > 0 /\ Entry(w) \in Entries /\ s[n] = Entry(w)
  BY <1>2 DEF InBoot, InRound, Entry
<1>4. KnownTo(w) /\ \A c \in Slots : IsFiniteSet(Made(owner, c))
  BY <1>3 DEF CleanInv
<1>5. FitsOpen(s, opened) /\ FitsDrain(s, owner) /\ FitsRound(s, owner) /\ Earned(task[w].copy, swaps)
  BY <1>1, <1>3, <1>4 DEF KnownTo, At
<1>6. PICK i \in Swaps : /\ swaps[i] = NoSwap /\ swaps' = [swaps EXCEPT ![i] = NewSwap]
                         /\ owner' = [owner EXCEPT ![i] = n]
                         /\ Commit(w, task[w].copy, "made", i)
  BY Zenon, <1>1 DEF MakeSwap
<1>7. i # 0 /\ "made" \in Pcs /\ task \in [Workers -> Tasks] /\ run \in Rows
  BY MixAssumption DEF Pcs, BootPcs, TicksInv
<1>8. Committed(w, task[w].copy, "made", i)
  BY <1>3, <1>6, <1>7, CommitFields
<1>9. owner \in [Swaps -> Slots \cup {0}] /\ swaps \in [Swaps -> SwapRows]
  BY DEF WorldInv
<1>a. OneMore(owner, owner', n)
  <2> HIDE DEF n
  <2> QED
    BY Zenon, <1>3, <1>4, <1>6, <1>9, SwapMade
<1>10. \A d \in Slots : /\ IsFiniteSet(Made(owner', d))
                        /\ Cardinality(Made(owner, d)) \in Nat /\ Cardinality(Made(owner', d)) \in Nat
                        /\ d # n => /\ Cardinality(Made(owner', d)) <= Cardinality(Made(owner, d))
                                    /\ Made(owner, d) = {} => Made(owner', d) = {}
                        /\ Cardinality(Made(owner', d)) <= Cardinality(Made(owner, d)) + 1
  BY <1>a DEF OneMore
<1>11. ASSUME NEW c \in DOMAIN s PROVE s[c].swap_attempts \in Nat
  <2>1. s[c] \in Entries
    BY <1>3, <1>11
  <2> QED
    BY <2>1 DEF Entries
<1>12. n \in DOMAIN s
  BY <1>3
<1>13. WeakDrain(s, owner')
  <2> SUFFICES ASSUME NEW c \in Slots
               PROVE  /\ c \notin DOMAIN s => Made(owner', c) = {}
                      /\ c \in DOMAIN s => Cardinality(Made(owner', c)) <= s[c].swap_attempts + 1
    BY DEF WeakDrain
  <2> HIDE DEF s, n
  <2>1. CASE c = n
    <3>1. Cardinality(Made(owner, n)) <= s[n].swap_attempts
      BY <1>1, <1>3, <1>5, <1>12 DEF FitsRound
    <3> QED
      BY <1>3, <1>10, <1>11, <1>12, <2>1, <3>1
  <2>2. CASE c # n
    BY <1>5, <1>10, <1>11, <2>2 DEF FitsDrain
  <2> QED
    BY <2>1, <2>2
<1>14. \A k \in Swaps : swaps[k].coin = "claimed" => swaps'[k].coin = "claimed"
  BY <1>6, <1>9 DEF NoSwap
<1>15. Earned(task[w].copy, swaps')
  BY <1>3, <1>5, <1>14, CoinsStay
<1> QED
  BY <1>1, <1>3, <1>5, <1>7, <1>8, <1>10, <1>13, <1>15, CleanCommit

\* The commit that links the swap: the row has not moved since it was made.
LEMMA CleanLinks ==
    ASSUME TicksInv, AloneInv, CleanInv, Clean, NEW w \in Workers, LinkSwap(w)
    PROVE  CleanInv'
<1>1. /\ task[w].pc = "made" /\ task[w].pc \in RoundPcs /\ UNCHANGED <<mode, opened, owner, swaps>>
      /\ Commit(w, With(w, Linked(Entry(w), task[w].made)), "after", 0)
  BY DEF LinkSwap, At, RoundPcs, World, Linked
<1>2. InBoot(w) /\ InRound(w)
  BY <1>1, RoundFacts
<1>3. /\ mode = "bootstrap" /\ Busy(w) /\ task[w].copy \in Rows /\ Entry(w) \in Entries /\ RoundOK(Entry(w))
      /\ Entry(w).state = "open_active" /\ task[w].base = task[w].copy /\ task[w].made # 0
      /\ task[w].made \in Swaps
  <2>1. /\ mode = "bootstrap" /\ Busy(w) /\ task[w].copy \in Rows /\ Entry(w) \in Entries /\ RoundOK(Entry(w))
        /\ task[w].base = task[w].copy /\ task[w].made # 0
        /\ task[w].copy.channels[task[w].slot].state = "open_active" /\ task[w] \in Tasks
    BY <1>1, <1>2 DEF InBoot, InRound, BootTask
  <2>2. task[w].made \in Swaps \cup {0}
    BY <2>1 DEF Tasks
  <2> QED
    BY <2>1, <2>2 DEF Entry
<1> DEFINE e == Linked(Entry(w), task[w].made)
           copy == With(w, e)
           s == task[w].copy.channels
           n == task[w].slot
<1>4. /\ e \in Entries /\ RoundOK(e) /\ e.state = "swap_pending"
      /\ e.swap_attempts = Entry(w).swap_attempts
  BY Zenon, <1>3, RoundLinked
<1> HIDE DEF e
<1>5. Replaced(w, e)
  BY <1>1, <1>4, WithFields
<1>6. /\ copy \in Rows /\ copy.realized = task[w].copy.realized /\ RoundsOK(copy.channels)
      /\ Put(s, copy.channels, n) /\ copy.channels[n] = e /\ s[n] = Entry(w) /\ n \in Slots /\ RoundsOK(s)
      /\ n = Len(copy.channels)
  BY <1>2, <1>5 DEF Replaced, Replaces, InRound, Put, Entry
<1>7. Commit(w, copy, "after", 0)
  BY <1>1 DEF e
<1> HIDE DEF copy
<1>8. Committed(w, copy, "after", 0)
  <2>1. task \in [Workers -> Tasks] /\ run \in Rows /\ "after" \in Pcs
    BY DEF TicksInv, Pcs, BootPcs
  <2> QED
    BY <1>6, <1>7, <2>1, CommitFields
<1>9. Alone(w) /\ KnownTo(w) /\ \A c \in Slots : IsFiniteSet(Made(owner, c))
  BY <1>3, AloneFacts DEF CleanInv, Clean
<1>10. WeakDrain(s, owner)
  <2>1. run.channels = s
    BY <1>3, <1>9 DEF Alone, Undisturbed
  <2> QED
    BY <2>1 DEF CleanInv, RunKnows
<1>11. FitsOpen(s, opened) /\ Earned(task[w].copy, swaps)
  BY <1>3, <1>9 DEF KnownTo
<1>12. FitsOpen(copy.channels, opened)
  BY <1>3, <1>4, <1>6, <1>11, OpenPut
<1>13. Earned(copy, swaps)
  <2> HIDE DEF n
  <2> QED
    BY <1>3, <1>4, <1>6, <1>11, EarnedPut
<1> HIDE DEF s, n
<1>14. WeakDrain(copy.channels, owner)
  <2> SUFFICES ASSUME NEW c \in Slots
               PROVE  /\ c \notin DOMAIN copy.channels => Made(owner, c) = {}
                      /\ c \in DOMAIN copy.channels
                            => Cardinality(Made(owner, c)) <= copy.channels[c].swap_attempts + 1
    BY DEF WeakDrain
  <2>1. DOMAIN copy.channels = DOMAIN s
    BY <1>6 DEF Put
  <2>2. c \in DOMAIN s => copy.channels[c].swap_attempts = s[c].swap_attempts
    BY <1>4, <1>6 DEF Put
  <2> QED
    BY <1>10, <2>1, <2>2 DEF WeakDrain
<1>15. FitsDrain(copy.channels, owner)
  <2>1. \A c \in DOMAIN copy.channels : copy.channels[c].seed # "queued"
    BY <1>6 DEF RoundsOK, RoundOK, Put
  <2> QED
    BY <1>14, <2>1 DEF WeakDrain, FitsDrain
<1>16. FitsRound(copy.channels, owner)
  <2>1. \A c \in DOMAIN copy.channels : copy.channels[c].state \in {"settled", "swap_pending"}
    BY <1>4, <1>6 DEF RoundsOK, Put
  <2> QED
    BY <2>1 DEF FitsRound
<1> QED
  BY <1>1, <1>3, <1>8, <1>9, <1>12, <1>13, <1>14, <1>15, <1>16, CleanCommit

\* A seed's swap is made, when there was none.
LEMMA CleanSeeds ==
    ASSUME TicksInv, WorldInv, AloneInv, CleanInv, Clean, NEW w \in Workers, InPar(w),
           UNCHANGED <<mode, opened>>, NEW c, NEW r, Seeds(w, c, r), ~At(w, "made")
    PROVE  CleanInv'
<1> DEFINE s == task[w].copy.channels
           copy == [task[w].copy EXCEPT !.channels = r]
<1>1. /\ c \in Slots /\ s[c].seed = "queued" /\ r[c].seed # "queued" /\ Onward(s, r)
      /\ MakeSwap(w, c, copy, "seeded")
  BY DEF Seeds
<1>2. copy \in Rows /\ copy.channels = r
  BY <1>1, ParCopy
<1> HIDE DEF copy
<1>3. /\ mode = "parallel" /\ Busy(w) /\ s \in [Slots -> Entries]
  BY DEF InPar
<1>4. KnownTo(w) /\ \A d \in Slots : IsFiniteSet(Made(owner, d))
  BY <1>3 DEF CleanInv
<1>5. FitsOpen(s, opened) /\ FitsDrain(s, owner)
  BY <1>4 DEF KnownTo
<1>6. PICK i \in Swaps : owner' = [owner EXCEPT ![i] = c] /\ Commit(w, copy, "seeded", i)
  BY Zenon, <1>1 DEF MakeSwap
<1>7. Committed(w, copy, "seeded", i)
  <2>1. task \in [Workers -> Tasks] /\ run \in Rows /\ "seeded" \in Pcs
    BY DEF TicksInv, Pcs, BootPcs
  <2> QED
    BY <1>2, <1>6, <2>1, CommitFields
<1>8. OneMore(owner, owner', c)
  <2>1. owner \in [Swaps -> Slots \cup {0}]
    BY DEF WorldInv
  <2> QED
    BY Zenon, <1>1, <1>4, <1>6, <2>1, SwapMade
<1>9. FitsOpen(r, opened) /\ FitsDrain(r, owner)
  BY <1>1, <1>3, <1>5, ParKnows
<1>10. Made(owner, c) = {} /\ Cardinality(Made(owner, c)) = 0
  BY Zenon, <1>1, <1>5, FS_EmptySet DEF FitsDrain
<1>11. r \in [Slots -> Entries] /\ \A d \in Slots : r[d].swap_attempts \in Nat
  BY <1>1 DEF Onward, Entries
<1>12. FitsDrain(r, owner')
  <2> SUFFICES ASSUME NEW d \in Slots
               PROVE  /\ d \notin DOMAIN r \/ r[d].seed = "queued" => Made(owner', d) = {}
                      /\ d \in DOMAIN r => Cardinality(Made(owner', d)) <= r[d].swap_attempts + 1
    BY DEF FitsDrain
  <2>1. CASE d = c
    <3>1. Cardinality(Made(owner', c)) <= 1 /\ Cardinality(Made(owner', c)) \in Nat
      <4>1. /\ Cardinality(Made(owner', c)) <= Cardinality(Made(owner, c)) + 1
            /\ Cardinality(Made(owner', c)) \in Nat
        BY <1>1, <1>8 DEF OneMore
      <4>2. Cardinality(Made(owner, c)) = 0
        BY <1>10
      <4> QED
        BY <4>1, <4>2
    <3>2. c \in DOMAIN r /\ r[c].swap_attempts \in Nat /\ r[c].seed # "queued"
      BY <1>1, <1>11
    <3> QED
      BY <2>1, <3>1, <3>2
  <2>2. CASE d # c
    BY <1>8, <1>9, <1>11, <2>2 DEF OneMore, FitsDrain
  <2> QED
    BY <2>1, <2>2
<1>13. WeakDrain(r, owner') /\ \A d \in Slots : IsFiniteSet(Made(owner', d))
  BY <1>8, <1>12 DEF WeakDrain, FitsDrain, OneMore
<1> QED
  BY <1>2, <1>3, <1>7, <1>9, <1>12, <1>13, CleanCommit

\* Each step of a tick that is alone.
LEMMA CleanTick ==
    ASSUME TicksInv, WorldInv, AloneInv, CleanInv, Clean, Clean', NEW w \in Workers, Step(w) \/ Late(w)
    PROVE  CleanInv'
<1>1. CASE RoundAction(w)
  BY <1>1, CleanRound
<1>2. CASE OpenOne(w)
  <2>1. UNCHANGED <<owner, swaps>>
    BY <1>2 DEF OpenOne
  <2>2. /\ InPar(w)
        /\ \E c \in Slots : \E r, t :
              /\ ParMoves(w, r, t)
              /\ task[w].copy.channels[c].state = "queued"
              /\ r[c].state # "queued" /\ c \in t.fresh
              /\ MakeChannel(c) \/ UNCHANGED <<chan, opened>>
    BY <1>2, Opens
  <2> QED
    BY <2>1, <2>2, CleanPar
<1>3. CASE Refresh(w) \/ Resolve(w) \/ ResolveLate(w) \/ Seeded(w)
  <2>1. UNCHANGED <<owner, swaps, opened>>
    BY Zenon, <1>3 DEF Refresh, Resolve, ResolveLate, ResolveAs, Seeded, World
  <2>2. InPar(w) /\ \E r, t : ParMoves(w, r, t)
    BY <1>3, Looks
  <2> QED
    BY <2>1, <2>2, CleanPar
<1>4. CASE SeedOne(w)
  <2>1. UNCHANGED <<mode, opened>> /\ ~At(w, "made")
    BY <1>4 DEF SeedOne, At
  <2>2. /\ InPar(w)
        /\ \/ \E r, t : ParMoves(w, r, t) /\ UNCHANGED <<swaps, owner>>
           \/ \E c, r : Seeds(w, c, r)
    BY <1>4, SeedSteps
  <2>3. CASE \E r, t : ParMoves(w, r, t) /\ UNCHANGED <<swaps, owner>>
    BY <2>1, <2>2, <2>3, CleanPar
  <2>4. CASE \E c, r : Seeds(w, c, r)
    BY <2>1, <2>2, <2>4, CleanSeeds
  <2> QED
    BY <2>2, <2>3, <2>4
<1>5. CASE Rollup(w) \/ RecordOpened(w) \/ After(w) \/ EndRun(w) \/ AwaitFunds(w) \/ AwaitLate(w)
  <2>1. CASE After(w) /\ Goto(w, task[w].copy, "start")
    BY <2>1, CleanTurns
  <2>2. CASE ~(After(w) /\ Goto(w, task[w].copy, "start"))
    <3>1. Same(w)
      BY <1>5, <2>2, SameCommits
    <3>2. UNCHANGED <<mode, opened, owner, swaps>> /\ Busy(w) /\ ~At(w, "made")
      BY <1>5 DEF Rollup, RecordOpened, After, EndRun, AwaitFunds, AwaitLate, World, At, Busy
    <3> QED
      BY <3>1, <3>2, CleanSame
  <2> QED
    BY <2>1, <2>2
<1> QED
  BY <1>1, <1>2, <1>3, <1>4, <1>5, CleanTurns, CleanStart, CleanDrains, CleanLinks
     DEF Step, Late, RoundAction

\* What the row and the copies know stays true.
LEMMA CleanStep ==
    ASSUME TicksInv, WorldInv, AloneInv, CleanInv, Next
    PROVE  CleanInv'
<1> SUFFICES ASSUME Clean' PROVE CleanInv'
  BY DEF CleanInv
<1>0. Clean /\ task \in [Workers -> Tasks] /\ run \in Rows
  BY StaysUnclean DEF TicksInv
<1>1. ASSUME NEW w \in Workers, Step(w) \/ Late(w) PROVE CleanInv'
  BY <1>0, <1>1, CleanTick
<1>2. ASSUME NEW w \in Workers, Begin(w) PROVE CleanInv'
  <2>1. \A v \in Workers : ~Busy(v)
    BY <1>2, MixAssumption DEF Begin, Between, Clean
  <2>2. \A v \in Workers : task[v] = Idle
    BY <2>1 DEF TicksInv, TickOK, Busy
  <2>3. \A v \in Workers : task[v].made = 0 /\ ~Unrecorded(v)
    BY <2>2, IdleOK DEF Unrecorded, At
  <2>4. UNCHANGED <<mode, run, opened, owner, swaps>> /\ \A v \in Workers : v # w => task'[v] = task[v]
    BY <1>0, <1>2 DEF Begin, World
  <2>5. task'[w].copy.channels = run.channels /\ task'[w].copy.realized = run.realized
    <3> DEFINE copy == IF mode = "parallel" THEN [run EXCEPT !.state = "in_progress"] ELSE run
    <3>1. copy.channels = run.channels /\ copy.realized = run.realized
      BY <1>0 DEF Rows
    <3>2. task' = [task EXCEPT ![w] = [Loaded(run) EXCEPT !.pc = IF mode = "parallel" THEN "open" ELSE "advance",
                                                         !.copy = copy]]
      BY <1>2 DEF Begin
    <3> HIDE DEF copy
    <3>3. task'[w].copy = copy
      BY <1>0, <3>2 DEF Loaded
    <3> QED
      BY <3>1, <3>3
  <2>6. /\ \A c \in Slots : opened[c] <= 1 /\ IsFiniteSet(Made(owner, c))
        /\ FitsOpen(run.channels, opened) /\ FitsDrain(run.channels, owner)
        /\ WeakDrain(run.channels, owner)
        /\ mode = "bootstrap" => FitsRound(run.channels, owner) /\ Earned(run, swaps)
    BY <1>0, <2>3, AllKnown
  <2>7. KnownTo(w)'
    <3>1. mode = "bootstrap" => Earned(task'[w].copy, swaps)
      BY <2>5, <2>6 DEF Earned
    <3> QED
      BY <2>4, <2>5, <2>6, <3>1 DEF KnownTo
  <2>8. \A v \in Workers : Busy(v)' => KnownTo(v)'
    BY <2>1, <2>4, <2>7 DEF Busy
  <2>9. RunKnows'
    BY <2>4, <2>6 DEF RunKnows
  <2> QED
    BY <2>4, <2>6, <2>8, <2>9 DEF CleanInv
<1>3. ASSUME NEW w \in Workers, Crash(w) PROVE CleanInv'
  <2>1. /\ UNCHANGED <<mode, run, opened, owner, swaps>> /\ task'[w] = Idle /\ Busy(w)
        /\ \A v \in Workers : v # w => task'[v] = task[v]
    BY <1>0, <1>3 DEF Crash, World
  <2>2. ~Unrecorded(w)
    BY <1>3 DEF Crash, Clean, Unrecorded
  <2>3. Alone(w)
    BY <1>0, <2>1, AloneFacts DEF Clean
  <2>4. \A v \in Workers : task[v].made = 0 /\ ~Unrecorded(v)
    BY <2>2, <2>3, IdleOK DEF Alone, Unrecorded, At
  <2>5. /\ \A c \in Slots : opened[c] <= 1 /\ IsFiniteSet(Made(owner, c))
        /\ FitsOpen(run.channels, opened) /\ FitsDrain(run.channels, owner)
        /\ WeakDrain(run.channels, owner)
        /\ mode = "bootstrap" => FitsRound(run.channels, owner) /\ Earned(run, swaps)
    BY <1>0, <2>4, AllKnown
  <2>6. \A v \in Workers : ~Busy(v)'
    BY <2>1, <2>3, IdleOK DEF Alone, Busy
  <2>7. RunKnows'
    BY <2>1, <2>5 DEF RunKnows
  <2> QED
    BY <2>1, <2>5, <2>6, <2>7 DEF CleanInv
<1>4. ASSUME AskStop \/ AskForceStop PROVE CleanInv'
  <2>1. UNCHANGED <<mode, task>> /\ run'.channels = run.channels /\ run'.realized = run.realized
    BY <1>0, <1>4, StopFields
  <2>2. UNCHANGED <<opened, owner, swaps>>
    BY <1>4 DEF AskStop, AskForceStop, World
  <2>3. /\ \A v \in Workers : Busy(v)' <=> Busy(v)
        /\ \A v \in Workers : KnownTo(v) => KnownTo(v)'
        /\ \A v \in Workers : Unrecorded(v)' <=> Unrecorded(v)
    BY <2>1, <2>2 DEF Busy, KnownTo, At, Unrecorded
  <2>4. Earned(run, swaps) => Earned(run', swaps')
    BY <2>1, <2>2 DEF Earned
  <2>5. RunKnows'
    BY <1>0, <2>1, <2>2, <2>3, <2>4 DEF CleanInv, RunKnows
  <2> QED
    BY <1>0, <2>2, <2>3, <2>5 DEF CleanInv
<1>5. ASSUME Execute \/ ChannelMoves PROVE CleanInv'
  <2>1. UNCHANGED <<mode, run, task, opened, owner, swaps>>
    BY <1>5 DEF Execute, ChannelMoves, World
  <2> QED
    BY <1>0, <2>1 DEF CleanInv, RunKnows, Busy, KnownTo, At, Unrecorded
<1>6. ASSUME SwapMoves PROVE CleanInv'
  <2>1. UNCHANGED <<mode, run, task, opened, owner>>
    BY <1>6 DEF SwapMoves
  <2>2. \A k \in Swaps : swaps[k].coin = "claimed" => swaps'[k].coin = "claimed"
    <3>1. PICK c \in DOMAIN run.channels : /\ run.channels[c].state = "swap_pending"
                                           /\ Move(run.channels[c].swap_id)
      BY <1>6 DEF SwapMoves
    <3> DEFINE i == run.channels[c].swap_id
    <3>2. i \in Swaps /\ Move(i)
      BY <3>1, PendingSwap
    <3> HIDE DEF i
    <3>3. PICK t \in TruthfulRows : Follows(swaps[i], t) /\ swaps' = [swaps EXCEPT ![i] = t]
      BY Zenon, <3>2 DEF Move
    <3>4. swaps[i].coin = "claimed" => t.coin = "claimed"
      BY <3>3 DEF Follows
    <3> QED
      BY <3>3, <3>4 DEF WorldInv
  <2>3. Earned(run, swaps) => Earned(run, swaps')
    BY <1>0, <2>2, CoinsStay
  <2>4. ASSUME NEW v \in Workers PROVE Earned(task[v].copy, swaps) => Earned(task[v].copy, swaps')
    <3>1. task[v].copy \in Rows
      BY <1>0 DEF Tasks
    <3> QED
      BY <2>2, <3>1, CoinsStay
  <2>5. /\ \A v \in Workers : Busy(v)' <=> Busy(v)
        /\ \A v \in Workers : KnownTo(v) => KnownTo(v)'
        /\ \A v \in Workers : Unrecorded(v)' <=> Unrecorded(v)
    BY <2>1, <2>4 DEF Busy, KnownTo, At, Unrecorded
  <2>6. RunKnows'
    BY <1>0, <2>1, <2>3, <2>5 DEF CleanInv, RunKnows
  <2> QED
    BY <1>0, <2>1, <2>5, <2>6 DEF CleanInv
<1> QED
  BY <1>1, <1>2, <1>3, <1>4, <1>5, <1>6 DEF Next

(***************************************************************************)
(* The whole invariant, and what follows from it.                          *)
(***************************************************************************)

\* It holds when the run is created.
LEMMA MixInit == Init => MixInv
<1> SUFFICES ASSUME Init PROVE MixInv
  OBVIOUS
<1>0. BaseInv
  BY BaseInit
<1>1. /\ task = [w \in Workers |-> Idle] /\ opened = [c \in Slots |-> 0] /\ owner = [i \in Swaps |-> 0]
      /\ mode \in Modes
  BY DEF Init
<1>2. \A w \in Workers : task[w].pc = "idle" /\ task[w].made = 0 /\ task[w].fresh = {}
  BY <1>1, IdleOK
<1>3. AloneInv
  BY <1>2 DEF AloneInv, Busy
<1>4. ASSUME NEW c \in Slots
      PROVE  opened[c] = 0 /\ Made(owner, c) = {} /\ IsFiniteSet(Made(owner, c)) /\ Cardinality(Made(owner, c)) = 0
  <2>1. opened[c] = 0
    BY <1>1
  <2>2. c # 0
    BY DEF Slots
  <2>3. Made(owner, c) = {}
    BY <1>1, <2>2 DEF Made
  <2> QED
    BY Zenon, <2>1, <2>3, FS_EmptySet
<1>5. /\ run.channels \in Seq(Entries) /\ run.realized = 0
      /\ mode = "bootstrap" => run.channels = <<>>
  <2>1. run \in Rows
    BY <1>0 DEF BaseInv, TicksInv
  <2> QED
    BY <2>1 DEF Init, Rows
<1>6. ASSUME NEW c \in DOMAIN run.channels PROVE run.channels[c].swap_attempts \in Nat
  <2>1. run.channels[c] \in Entries
    BY <1>5, <1>6
  <2> QED
    BY <2>1 DEF Entries
<1>7. /\ FitsOpen(run.channels, opened) /\ FitsDrain(run.channels, owner)
      /\ WeakDrain(run.channels, owner) /\ FitsRound(run.channels, owner)
  BY <1>4, <1>6 DEF FitsOpen, FitsDrain, WeakDrain, FitsRound
<1>8. mode = "bootstrap" => Earned(run, swaps)
  <2>1. mode = "bootstrap" => Drained(run.channels) = {}
    BY <1>5 DEF Drained
  <2> QED
    BY Zenon, <1>5, <2>1, FS_EmptySet DEF Earned
<1>9. CleanInv
  BY <1>2, <1>4, <1>7, <1>8 DEF CleanInv, RunKnows, Busy
<1> QED
  BY <1>0, <1>3, <1>9 DEF MixInv, BaseInv

\* Every step preserves it.
LEMMA MixNext == MixInv /\ [Next]_vars => MixInv'
<1>1. ASSUME MixInv, UNCHANGED vars PROVE MixInv'
  <2> USE <1>1 DEF vars, World
  <2>1. BaseInv'
    BY BaseNext DEF MixInv, BaseInv
  <2>2. AloneInv'
    BY DEF MixInv, AloneInv, Busy, Undisturbed
  <2>3. CleanInv'
    BY DEF MixInv, CleanInv, Clean, RunKnows, Busy, KnownTo, At, Unrecorded
  <2> QED
    BY <2>1, <2>2, <2>3 DEF MixInv, BaseInv
<1>2. ASSUME MixInv, Next PROVE MixInv'
  <2>1. BaseInv'
    BY <1>2, BaseNext DEF MixInv, BaseInv
  <2>2. TicksInv /\ WorldInv /\ AloneInv /\ CleanInv
    BY <1>2 DEF MixInv
  <2>3. AloneInv' /\ CleanInv'
    BY <1>2, <2>2, AloneStep, CleanStep
  <2> QED
    BY <2>1, <2>3 DEF MixInv, BaseInv
<1> QED
  BY <1>1, <1>2

\* It holds in every reachable state.
LEMMA MixHolds == Spec => []MixInv
BY MixInit, MixNext, PTL DEF Spec

\* Messages that race for a run in _run_one_mix open each of its channels at
\* most once, however many there are, unless the row is never told of an
\* opening: a parallel tick gives the row up only when nothing is queued any
\* more, and the next one finds what it opened; a bootstrap round that may
\* still open has no channel while no tick comes between two commits.
THEOREM ChannelsOpenOnce == Spec => []OpenedOnce
<1>1. BaseInv /\ MixInv /\ ParInv => OpenedOnce
  <2> SUFFICES ASSUME BaseInv, MixInv, ParInv, ~lost, mode = "bootstrap" => ~overlap, NEW c \in Slots
               PROVE  opened[c] <= 1
    BY DEF OpenedOnce
  <2>1. mode \in {"parallel", "bootstrap"}
    BY MixAssumption DEF BaseInv, TicksInv
  <2>2. CASE mode = "parallel"
    BY <2>2 DEF ParInv, QueuedInv
  <2>3. CASE mode = "bootstrap"
    BY <2>3 DEF MixInv, CleanInv, Clean
  <2> QED
    BY <2>1, <2>2, <2>3
<1> QED
  BY <1>1, BaseHolds, MixHolds, ParHolds, PTL

\* Under the same condition create_reverse_swap is called once for each
\* channel, and once more for each failed swap that was counted.
THEOREM ChannelsDrainOnce == Spec => []DrainedOnce
<1>1. MixInv => DrainedOnce
  <2> SUFFICES ASSUME MixInv, Clean, NEW c \in Slots PROVE OneDrain(c)
    BY DEF DrainedOnce
  <2>1. WeakDrain(run.channels, owner)
    BY DEF MixInv, CleanInv, RunKnows
  <2>2. CASE c \in DOMAIN run.channels
    BY <2>1, <2>2 DEF WeakDrain, OneDrain, Made
  <2>3. CASE c \notin DOMAIN run.channels
    <3>1. Made(owner, c) = {}
      BY <2>1, <2>3 DEF WeakDrain
    <3>2. Cardinality(Made(owner, c)) = 0
      BY <3>1, FS_EmptySet
    <3> QED
      BY <2>3, <3>2 DEF OneDrain, Made
  <2> QED
    BY <2>2, <2>3
<1> QED
  BY <1>1, MixHolds, PTL

\* Under the same condition the liquidity a bootstrap run reports is that of
\* its settled rounds with a swap, each of whose coins came back.
THEOREM LiquidityIsEarned == Spec => []RealizedIsEarned
<1>1. MixInv => RealizedIsEarned
  <2> SUFFICES ASSUME MixInv, Clean, mode = "bootstrap" PROVE RealizedIsEarned
    BY DEF RealizedIsEarned
  <2>1. Earned(run, swaps)
    BY DEF MixInv, CleanInv, RunKnows
  <2>2. run.channels \in Seq(Entries)
    BY DEF MixInv, TicksInv, Rows
  <2>3. Drained(run.channels) = {c \in Settled(run) : run.channels[c].swap_id # 0}
    BY <2>2 DEF Drained, Settled
  <2> QED
    BY <2>1, <2>3 DEF Earned, RealizedIsEarned
<1> QED
  BY <1>1, MixHolds, PTL
=============================================================================
