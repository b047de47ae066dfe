----------------------------- MODULE ChannelMix -----------------------------
(***************************************************************************)
(* One run of the channel-mix executor.  A parallel run opens the planned  *)
(* channels and seeds each with a reverse swap; a bootstrap run opens one  *)
(* channel after the other and drains each by a reverse swap, which pays   *)
(* for the next.  Celery messages tick the run: the initial one, its       *)
(* retries, and one a minute from the recovery beat.                       *)
(*                                                                         *)
(* A tick loads the row FOR UPDATE, works on its copy and commits at the   *)
(* end.  Three commits in between end the lock early: the one inside       *)
(* create_reverse_swap, and those that record a channel or a swap of a     *)
(* bootstrap round.  Reverse swaps are those of SwapPromise.               *)
(***************************************************************************)
EXTENDS Naturals, FiniteSets, Sequences, SwapPromise

CONSTANTS
    Workers,       \* Celery messages that may run at a time
    Nobody,
    Modes,         \* modes considered
    Planned,       \* channels of a parallel plan; rounds a bootstrap run may start
    PeerOf,        \* the peer each channel of a parallel plan is opened with
    Peers,         \* peers a bootstrap round may try
    MaxConnects,   \* BOOTSTRAP_MAX_CONNECT_ATTEMPTS
    MaxDrains,     \* BOOTSTRAP_MAX_SWAP_ATTEMPTS
    MaxEvents      \* bound: crashes, overlapping ticks, failed calls and requests of the user

ASSUME MixAssumption ==
    /\ Nobody \notin Workers
    /\ Modes \subseteq {"parallel", "bootstrap"}
    /\ {Planned, Peers, MaxConnects, MaxDrains} \subseteq Nat \ {0}
    /\ MaxEvents \in Nat
    /\ Swaps \subseteq Nat \ {0}

Slots == 1..Planned
MaxOpens == 2  \* bound: openings of a slot counted

VARIABLES
    mode,
    run,      \* the committed row
    lock,     \* the worker that holds it FOR UPDATE
    task,     \* task[w]: where w is, the row as loaded or last committed, and its copy
    chan,     \* chan[c]: the channel of slot c, as LND has it
    opened,   \* opened[c]: funding transactions broadcast for slot c
    owner,    \* owner[i]: the slot swap i was made for
    others,   \* another run is active
    overlap,  \* a tick or a cancel came between two commits of a tick
    lost,     \* a channel or a swap was made and its record was not
    events    \* so far

World == <<chan, opened, swaps, owner>>
vars == <<mode, run, lock, task, World, others, overlap, lost, events>>

Terminal == {"complete", "partial_failure", "stopped_insufficient", "cancelled"}
Ended == run.state \in Terminal

\* A parallel entry's open_state, and a bootstrap entry's state.
OpenStates == {"queued", "open_pending", "open_active", "open_failed"}
RoundStates ==
    {"opening", "open_pending", "open_active", "swap_pending", "settled", "open_failed", "swap_failed"}
RoundTerminal == {"settled", "open_failed", "swap_failed"}
SeedStates == {"skipped", "queued", "swapping", "seeded", "seed_failed"}

\* make_channel_entry and make_bootstrap_round_entry
NewEntry(seed) ==
    [state |-> IF mode = "parallel" THEN "queued" ELSE "opening", seed |-> seed, open_txid |-> FALSE,
     waiting |-> FALSE, swap_id |-> 0, peer |-> 1, connect_attempts |-> 0, swap_attempts |-> 0]

Loaded(row) == [pc |-> "idle", base |-> row, copy |-> row, slot |-> 0, made |-> 0, fresh |-> {}]
NoRow ==
    [state |-> "complete", stop_requested |-> FALSE, awaiting_since |-> FALSE, realized |-> 0, channels |-> <<>>]
Idle == Loaded(NoRow)

Busy(w) == task[w].pc # "idle"

\* A tick is between two of its commits: it goes on without the row.
Between == \E w \in Workers : Busy(w) /\ lock # w

\* post_channel_mix_execute has committed the run.
Init ==
    /\ mode \in Modes
    /\ \E seeds \in [Slots -> {"skipped", "queued"}] :
          run = [state |-> "queued", stop_requested |-> FALSE, awaiting_since |-> FALSE, realized |-> 0,
                 channels |-> IF mode = "parallel" THEN [c \in Slots |-> NewEntry(seeds[c])] ELSE <<>>]
    /\ lock = Nobody
    /\ task = [w \in Workers |-> Idle]
    /\ chan = [c \in Slots |-> "none"]
    /\ opened = [c \in Slots |-> 0]
    /\ swaps = [i \in Swaps |-> NoSwap]
    /\ owner = [i \in Swaps |-> 0]
    /\ others = FALSE /\ overlap = FALSE /\ lost = FALSE
    /\ events = 0

-----------------------------------------------------------------------------
(* Steps of a tick.                                                        *)

At(w, pc) == task[w].pc = pc

Happens == events < MaxEvents /\ events' = events + 1
Calm == UNCHANGED events

\* Work in memory.
Goto(w, copy, pc) ==
    /\ task' = [task EXCEPT ![w].copy = copy, ![w].pc = pc]
    /\ UNCHANGED <<run, lock>>

\* Mutant: the whole row is written.
CommitWhole(w, copy, pc, made) ==
    /\ lock \in {Nobody, w}
    /\ lock' = Nobody
    /\ run' = copy
    /\ task' = [task EXCEPT ![w] = IF pc = "idle" THEN Idle
                                   ELSE [@ EXCEPT !.pc = pc, !.base = copy, !.copy = copy, !.made = made]]

\* db.commit(): waits for the row, writes the attributes that changed since
\* the last load or commit, and ends the lock.
Commit(w, copy, pc, made) ==
    /\ lock \in {Nobody, w}
    /\ lock' = Nobody
    /\ run' = [f \in DOMAIN run |-> IF copy[f] # task[w].base[f] THEN copy[f] ELSE run[f]]
    /\ task' = [task EXCEPT ![w] = IF pc = "idle" THEN Idle
                                   ELSE [@ EXCEPT !.pc = pc, !.base = copy, !.copy = copy, !.made = made]]

Entry(w) == task[w].copy.channels[task[w].slot]
With(w, entry) == [task[w].copy EXCEPT !.channels[task[w].slot] = entry]

\* Mutant: the last writer decides how a run ended.
FinalizeLastWins(row, state) == [row EXCEPT !.state = state]

\* finalize_run
Finalize(row, state) == IF row.state \in Terminal THEN row ELSE [row EXCEPT !.state = state]

\* Mutant: the row is read without FOR UPDATE.
BeginUnlocked(w) ==
    /\ At(w, "idle")
    /\ ~Ended
    /\ LET copy == IF mode = "parallel" THEN [run EXCEPT !.state = "in_progress"] ELSE run
       IN task' = [task EXCEPT ![w] = [Loaded(run) EXCEPT !.pc = IF mode = "parallel" THEN "open" ELSE "advance",
                                                        !.copy = copy]]
    /\ IF Between THEN overlap' = TRUE /\ Happens ELSE UNCHANGED <<overlap, events>>
    /\ lock' = w
    /\ UNCHANGED <<mode, run, World, others, lost>>

\* _run_one_mix takes the row.  Between the commits of another tick it may
\* come in; a run that has ended is left alone.
Begin(w) ==
    /\ At(w, "idle")
    /\ lock = Nobody
    /\ ~Ended
    /\ lock' = w
    /\ LET copy == IF mode = "parallel" THEN [run EXCEPT !.state = "in_progress"] ELSE run
       IN task' = [task EXCEPT ![w] = [Loaded(run) EXCEPT !.pc = IF mode = "parallel" THEN "open" ELSE "advance",
                                                        !.copy = copy]]
    /\ IF Between THEN overlap' = TRUE /\ Happens ELSE UNCHANGED <<overlap, events>>
    /\ UNCHANGED <<mode, run, World, others, lost>>

\* create_reverse_swap inserts the swap and commits, with whatever the copy
\* has changed.
MakeSwap(w, c, copy, pc) ==
    \E i \in Swaps :
        /\ swaps[i] = NoSwap /\ \A k \in Swaps : k < i => swaps[k] # NoSwap
        /\ swaps' = [swaps EXCEPT ![i] = NewSwap]
        /\ owner' = [owner EXCEPT ![i] = c]
        /\ Commit(w, copy, pc, i)

\* open_channel
MakeChannel(c) ==
    /\ opened[c] < MaxOpens
    /\ opened' = [opened EXCEPT ![c] = @ + 1]
    /\ chan' = [chan EXCEPT ![c] = "down"]

-----------------------------------------------------------------------------
(* Parallel runs.                                                          *)

\* Mutant: the seed of a failed channel stays queued.
OpenFailedStillSeeds(entry) == [entry EXCEPT !.state = "open_failed"]

\* A channel that failed is not seeded.
OpenFailed(entry) ==
    [entry EXCEPT !.state = "open_failed", !.seed = IF @ = "queued" THEN "skipped" ELSE @]

\* The channel a loop over the copy comes to next.
First(w, P(_)) ==
    {c \in Slots : P(task[w].copy.channels[c]) /\ \A d \in 1..(c - 1) : ~P(task[w].copy.channels[d])}

Queued(entry) == entry.state = "queued"
Seedable(entry) == entry.seed = "queued" /\ entry.state = "open_active"

\* _open_one_channel: a peer that cannot be reached or refuses fails the
\* channel; so does an error that hides an opening.
OpenOne(w) ==
    /\ At(w, "open")
    /\ \E c \in First(w, Queued) :
          \/ /\ MakeChannel(c)
             /\ task' = [task EXCEPT ![w].copy.channels[c] = [@ EXCEPT !.state = "open_pending", !.open_txid = TRUE],
                                     ![w].fresh = @ \cup {c}]
          \/ /\ MakeChannel(c) \/ UNCHANGED <<chan, opened>>
             /\ task' = [task EXCEPT ![w].copy.channels[c] = OpenFailed(@), ![w].fresh = @ \cup {c}]
    /\ UNCHANGED <<mode, run, lock, swaps, owner, others, overlap, lost, events>>

\* What get_channels may come to: of the channels with a peer, one is the last.
LastListed ==
    LET live == {d \in Slots : chan[d] \in {"down", "active"}}
    IN {last \in SUBSET live : \A c \in live : \E d \in live : {e \in last : PeerOf[e] = PeerOf[c]} = {d}}

\* _refresh_open_pending_states, once nothing is left to open: by the peer's
\* key, so that the last channel with the peer decides for all of them.
Refresh(w) ==
    /\ At(w, "open")
    /\ \A c \in Slots : ~Queued(task[w].copy.channels[c])
    /\ LET up(e, last, c) ==
               IF e.state = "open_pending" /\ \E d \in last : chan[d] = "active" /\ PeerOf[d] = PeerOf[c]
               THEN [e EXCEPT !.state = "open_active"] ELSE e
       IN \/ /\ \E last \in LastListed :
                   Goto(w, [task[w].copy EXCEPT !.channels = [c \in Slots |-> up(@[c], last, c)]], "resolve")
             /\ Calm
          \/ Goto(w, task[w].copy, "resolve") /\ Happens
    /\ UNCHANGED <<mode, World, others, overlap, lost>>

\* _resolve_stuck_parallel_channels leaves the channels of this tick alone.
StuckOpen(w) ==
    {c \in Slots \ task[w].fresh : task[w].copy.channels[c].state = "open_pending"}

ResolveAs(w, failed) ==
    /\ Goto(w, [task[w].copy EXCEPT !.channels = [c \in Slots |-> IF c \in failed THEN OpenFailed(@[c]) ELSE @[c]]],
            "seed")
    /\ UNCHANGED <<mode, World, others, overlap, lost>>

Dead(w) == {c \in StuckOpen(w) : chan[c] = "gone"}

\* The channels that LND has closed fail, as far as LND answers.
Resolve(w) ==
    /\ At(w, "resolve")
    /\ \/ ResolveAs(w, Dead(w)) /\ Calm
       \/ \E seen \in SUBSET Dead(w) : ResolveAs(w, seen) /\ Happens

\* So do the ones that are past the hard timeout.
ResolveLate(w) ==
    /\ At(w, "resolve")
    /\ \E late \in SUBSET StuckOpen(w) : late # {} /\ ResolveAs(w, Dead(w) \cup late)
    /\ Calm

\* _seed_one_channel: the swap is made, and committed with "swapping".
SeedOne(w) ==
    /\ At(w, "seed")
    /\ \E c \in First(w, Seedable) :
          \/ /\ task' = [task EXCEPT ![w].copy.channels[c].seed = "seed_failed"]
             /\ UNCHANGED <<run, lock, swaps, owner>>
          \/ MakeSwap(w, c, [task[w].copy EXCEPT !.channels[c].seed = "swapping"], "seeded")
    /\ UNCHANGED <<mode, chan, opened, others, overlap, lost, events>>

\* Its id is put into the copy.
Seeded(w) ==
    /\ At(w, "seeded")
    /\ LET i == task[w].made
           done(e) == [e EXCEPT !.seed = "seeded", !.swap_id = i]
       IN Goto(w, [task[w].copy EXCEPT !.channels[owner[i]] = done(@)], "seed")
    /\ UNCHANGED <<mode, World, others, overlap, lost, events>>

\* _rollup_state
RollupState(channels) ==
    IF \A c \in Slots : /\ channels[c].state \in {"open_active", "open_failed"}
                        /\ channels[c].seed \in {"skipped", "seeded", "seed_failed"}
    THEN IF \E c \in Slots : channels[c].state = "open_failed" \/ channels[c].seed = "seed_failed"
         THEN "partial_failure" ELSE "complete"
    ELSE "in_progress"

Rollup(w) ==
    /\ At(w, "seed")
    /\ First(w, Seedable) = {}
    /\ Commit(w, Finalize(task[w].copy, RollupState(task[w].copy.channels)), "idle", 0)
    /\ UNCHANGED <<mode, World, others, overlap, lost, events>>

-----------------------------------------------------------------------------
(* Bootstrap runs.                                                         *)

InFlight(row) == {c \in DOMAIN row.channels : row.channels[c].state \notin RoundTerminal}
Settled(row) == {c \in DOMAIN row.channels : row.channels[c].state = "settled"}

\* Mutant: only a round that is opening keeps the next one from starting.
AdvanceEarly(w) ==
    /\ At(w, "advance")
    /\ LET open == {c \in InFlight(task[w].copy) : task[w].copy.channels[c].state = "opening"}
       IN \/ open = {} /\ task' = [task EXCEPT ![w].pc = "start"]
          \/ \E c \in open : task' = [task EXCEPT ![w].pc = "round", ![w].slot = c]
    /\ UNCHANGED <<mode, run, lock, World, others, overlap, lost, events>>

\* _advance_bootstrap takes up the first round that is not over, or looks
\* whether to start one.
Advance(w) ==
    /\ At(w, "advance")
    /\ LET open == InFlight(task[w].copy)
       IN \/ /\ open = {}
             /\ task' = [task EXCEPT ![w].pc = "start"]
          \/ \E c \in open :
                /\ \A d \in open : c <= d
                /\ task' = [task EXCEPT ![w].pc = "round", ![w].slot = c]
    /\ UNCHANGED <<mode, run, lock, World, others, overlap, lost, events>>

Round(w, state) == At(w, "round") /\ Entry(w).state = state

\* _bootstrap_switch_to_next_peer, and what follows when there is none.
NextPeer(entry) ==
    IF entry.peer < Peers THEN [entry EXCEPT !.peer = @ + 1, !.connect_attempts = 0]
    ELSE [entry EXCEPT !.state = "open_failed"]

\* A peer that is not online is tried again, up to the limit.
NotOnline(entry) ==
    LET tried == [entry EXCEPT !.connect_attempts = @ + 1]
    IN IF tried.connect_attempts < MaxConnects THEN tried ELSE NextPeer(tried)

\* The "opening" step: no channel is opened.
OpeningFails(w) ==
    /\ Round(w, "opening")
    /\ \/ /\ \E entry \in {NotOnline(Entry(w)), NextPeer(Entry(w)), [Entry(w) EXCEPT !.state = "open_failed"]} :
                Goto(w, With(w, entry), "after")
          /\ Calm
       \/ Goto(w, task[w].copy, "after") /\ Happens  \* a smaller channel, for LND's reserve
    /\ UNCHANGED <<mode, World, others, overlap, lost>>

\* The channel is opened, and which peers were tried before is not looked at
\* again.  When the answer is lost, the next peer is tried.
Opening(w) ==
    /\ Round(w, "opening")
    /\ MakeChannel(task[w].slot)
    /\ \/ /\ Goto(w, With(w, [Entry(w) EXCEPT !.open_txid = TRUE, !.state = "open_pending", !.peer = 1]), "opened")
          /\ Calm /\ UNCHANGED lost
       \/ /\ Goto(w, With(w, NextPeer(Entry(w))), "after")
          /\ Happens /\ lost' = TRUE
    /\ UNCHANGED <<mode, swaps, owner, others, overlap>>

\* The commit that records the funding transaction.
RecordOpened(w) ==
    /\ At(w, "opened")
    /\ Commit(w, task[w].copy, "after", 0)
    /\ UNCHANGED <<mode, World, others, overlap, lost, events>>

\* The "open_pending" step finds the channel active.
OpenPending(w) ==
    /\ Round(w, "open_pending")
    /\ chan[task[w].slot] = "active"
    /\ Goto(w, With(w, [Entry(w) EXCEPT !.state = "open_active", !.waiting = FALSE]), "after")
    /\ UNCHANGED <<mode, World, others, overlap, lost, events>>

\* The "open_active" step looks for any active channel with the peer, which
\* may be the one of another round; here it may be one with another peer too.
Matches(w) == \E d \in Slots : chan[d] = "active"

\* Mutants: an attempt is not counted; the attempts are not limited.
DrainFailsUncounted(entry) == entry
DrainFailsUnlimited(entry) == [entry EXCEPT !.swap_attempts = @ + 1]

\* One more attempt to drain; the last one fails the round.
DrainFails(entry) ==
    LET tried == [entry EXCEPT !.swap_attempts = @ + 1]
    IN IF tried.swap_attempts >= MaxDrains THEN [tried EXCEPT !.state = "swap_failed"] ELSE tried

\* There is too little to drain, or the swap is refused.
OpenActiveNoSwap(w) ==
    /\ Round(w, "open_active")
    /\ Matches(w)
    /\ \E entry \in {[Entry(w) EXCEPT !.state = "settled"], DrainFails(Entry(w))} :
          Goto(w, With(w, entry), "after")
    /\ UNCHANGED <<mode, World, others, overlap, lost, events>>

\* create_reverse_swap has committed.
OpenActive(w) ==
    /\ Round(w, "open_active")
    /\ Matches(w)
    /\ MakeSwap(w, task[w].slot, task[w].copy, "made")
    /\ UNCHANGED <<mode, chan, opened, others, overlap, lost, events>>

\* The commit that links the swap to the round.
LinkSwap(w) ==
    /\ At(w, "made")
    /\ LET linked == [Entry(w) EXCEPT !.swap_id = task[w].made, !.state = "swap_pending", !.waiting = FALSE]
       IN Commit(w, With(w, linked), "after", 0)
    /\ UNCHANGED <<mode, World, others, overlap, lost, events>>

\* The "swap_pending" step reads the status of the swap; the round has one.
SwapPending(w) ==
    /\ Round(w, "swap_pending")
    /\ LET over == [Entry(w) EXCEPT !.waiting = FALSE]
           copy == With(w, [over EXCEPT !.state = "settled"])
           tried == DrainFails(over)
       IN \/ /\ swaps[over.swap_id].status = "completed"
             /\ Goto(w, [copy EXCEPT !.realized = @ + 1], "after")
          \/ /\ swaps[over.swap_id].status \in {"failed", "cancelled", "refunded"}
             /\ Goto(w, With(w, IF tried.state = "swap_failed" THEN tried
                                ELSE [tried EXCEPT !.state = "open_active", !.swap_id = 0]), "after")
    /\ UNCHANGED <<mode, World, others, overlap, lost, events>>

\* What the round waits for has not come.
NotThere(w) ==
    \/ Round(w, "open_pending") /\ chan[task[w].slot] # "active"
    \/ Round(w, "open_active") /\ chan[task[w].slot] # "active"
    \/ Round(w, "swap_pending") /\ swaps[Entry(w).swap_id].status \in {"created", "busy"}

\* Mutant: a round that is given up counts as settled.
GiveUpSettled(entry) == [entry EXCEPT !.state = "settled", !.waiting = FALSE]

\* _bootstrap_resolve_stuck_round gives the round up.
GiveUp(entry) ==
    [entry EXCEPT !.state = IF entry.swap_id # 0 THEN "swap_failed" ELSE "open_failed", !.waiting = FALSE]

\* The round waits on, unless LND has closed its channel.
Wait(w) ==
    /\ NotThere(w)
    /\ LET entry == IF chan[task[w].slot] = "gone" THEN GiveUp(Entry(w)) ELSE [Entry(w) EXCEPT !.waiting = TRUE]
       IN Goto(w, With(w, entry), "after")
    /\ UNCHANGED <<mode, World, others, overlap, lost, events>>

\* It has waited past the hard timeout.
WaitLate(w) ==
    /\ NotThere(w)
    /\ Entry(w).waiting
    /\ Goto(w, With(w, GiveUp(Entry(w))), "after")
    /\ UNCHANGED <<mode, World, others, overlap, lost, events>>

\* A step that LND does not answer leaves the round as it is.
NoAnswer(w) ==
    /\ At(w, "round")
    /\ Entry(w).state # "opening"
    /\ Happens
    /\ Goto(w, task[w].copy, "after")
    /\ UNCHANGED <<mode, World, others, overlap, lost>>

\* _advance_bootstrap after the step; a failed round ends the run, a settled
\* one leads to the next.
After(w) ==
    LET copy == task[w].copy
        last == copy.channels[Len(copy.channels)]
    IN /\ At(w, "after")
       /\ \/ /\ InFlight(copy) # {}
             /\ Commit(w, [copy EXCEPT !.state = "in_progress"], "idle", 0)
          \/ /\ InFlight(copy) = {}
             /\ last.state # "settled"
             /\ Commit(w, Finalize(copy, "partial_failure"), "idle", 0)
          \/ /\ InFlight(copy) = {}
             /\ last.state = "settled"
             /\ Goto(w, copy, "start")
       /\ UNCHANGED <<mode, World, others, overlap, lost, events>>

\* _bootstrap_maybe_start_round ends the run: a stop was asked for, the goal or
\* a limit is reached, or the wallet is empty before the first round.
EndStates(row) ==
    IF row.stop_requested THEN {"cancelled"}
    ELSE {"complete"} \cup (IF Settled(row) = {} THEN {"stopped_insufficient"} ELSE {})

EndRun(w) ==
    /\ At(w, "start")
    /\ \E state \in EndStates(task[w].copy) : Commit(w, Finalize(task[w].copy, state), "idle", 0)
    /\ UNCHANGED <<mode, World, others, overlap, lost, events>>

MayGoOn(row) == ~row.stop_requested /\ Settled(row) # Slots

\* The wallet cannot pay for the next channel yet, or its balance is unknown.
AwaitFunds(w) ==
    /\ At(w, "start")
    /\ MayGoOn(task[w].copy)
    /\ \/ /\ Settled(task[w].copy) # {}
          /\ Commit(w, [task[w].copy EXCEPT !.state = "awaiting_funds", !.awaiting_since = TRUE], "idle", 0)
          /\ Calm
       \/ Commit(w, [task[w].copy EXCEPT !.state = "in_progress"], "idle", 0) /\ Happens
    /\ UNCHANGED <<mode, World, others, overlap, lost>>

\* It has been short for too long; an unknown balance does not stop the clock.
AwaitLate(w) ==
    /\ At(w, "start")
    /\ MayGoOn(task[w].copy)
    /\ task[w].copy.awaiting_since
    /\ Commit(w, Finalize(task[w].copy, "stopped_insufficient"), "idle", 0)
    /\ UNCHANGED <<mode, World, others, overlap, lost, events>>

\* The next round; its first step is taken at once.
StartRound(w) ==
    /\ At(w, "start")
    /\ MayGoOn(task[w].copy)
    /\ LET copy == task[w].copy
       IN task' = [task EXCEPT ![w].copy = [copy EXCEPT !.channels = Append(@, NewEntry("skipped")),
                                                        !.state = "in_progress", !.awaiting_since = FALSE],
                               ![w].slot = Len(copy.channels) + 1, ![w].pc = "round"]
    /\ UNCHANGED <<mode, run, lock, World, others, overlap, lost, events>>

-----------------------------------------------------------------------------
(* Failures, requests and the world.                                       *)

\* The worker dies or the tick raises: what it did not commit is gone.
\* _audit_channel_open may raise right after a channel was opened.
Crash(w) ==
    /\ Busy(w)
    /\ Happens
    /\ task' = [task EXCEPT ![w] = Idle]
    /\ lock' = IF lock = w THEN Nobody ELSE lock
    /\ lost' = \/ lost \/ At(w, "opened") \/ task[w].made # 0
               \/ \E c \in task[w].fresh : opened[c] > 0 /\ run.channels[c].state = "queued"
    /\ UNCHANGED <<mode, run, World, others, overlap>>

\* post_channel_mix_run_stop.  The cooperative request waits for the row too;
\* on a run that has ended by then it changes nothing that is read again.
AskStop ==
    /\ lock = Nobody
    /\ ~Ended /\ ~run.stop_requested
    /\ Happens
    /\ run' = [run EXCEPT !.stop_requested = TRUE]
    /\ UNCHANGED <<mode, lock, task, World, others, overlap, lost>>

AskForceStop ==
    /\ lock = Nobody
    /\ Happens
    /\ run' = Finalize([run EXCEPT !.stop_requested = TRUE], "cancelled")
    /\ overlap' = (overlap \/ Between)
    /\ UNCHANGED <<mode, lock, task, World, others, lost>>

\* post_channel_mix_execute and the dashboard's, serialised by the advisory
\* lock, start another run only when none is active.
Execute ==
    /\ Ended /\ ~others
    /\ others' = TRUE
    /\ UNCHANGED <<mode, run, lock, task, World, overlap, lost, events>>

\* Channels confirm, go offline and come back, and are closed, as far as an
\* entry still looks at them.  A bootstrap tick looks once, so a move while it
\* holds the row is one before it began.
ChannelMoves ==
    /\ mode = "bootstrap" => lock = Nobody
    /\ \E c \in DOMAIN run.channels : \E to \in {"down", "active", "gone"} :
          /\ run.channels[c].state \in {"open_pending", "open_active", "swap_pending"}
          /\ chan[c] \in {"down", "active"} \ {to}
          /\ chan' = [chan EXCEPT ![c] = to]
    /\ UNCHANGED <<mode, run, lock, task, opened, swaps, owner, others, overlap, lost, events>>

\* Only the swap of a round in "swap_pending" is read, and of it only the
\* status; its coin moves when the status tells of it.
SwapMoves ==
    /\ lock = Nobody
    /\ \E c \in DOMAIN run.channels :
          LET i == run.channels[c].swap_id
          IN /\ run.channels[c].state = "swap_pending"
             /\ Move(i)
             /\ ~swaps'[i].claim_txid
             /\ swaps'[i].coin # "none" => swaps'[i].status \in {"completed", "refunded"}
    /\ UNCHANGED <<mode, run, lock, task, chan, opened, owner, others, overlap, lost, events>>

\* What a tick does on its own.
Step(w) ==
    \/ OpenOne(w) \/ Refresh(w) \/ Resolve(w) \/ SeedOne(w) \/ Seeded(w) \/ Rollup(w)
    \/ Advance(w) \/ OpeningFails(w) \/ Opening(w) \/ RecordOpened(w) \/ OpenPending(w)
    \/ OpenActiveNoSwap(w) \/ OpenActive(w) \/ LinkSwap(w) \/ SwapPending(w) \/ Wait(w) \/ NoAnswer(w)
    \/ After(w) \/ EndRun(w) \/ AwaitFunds(w) \/ StartRound(w)

\* What it does because time has passed.
Late(w) == ResolveLate(w) \/ WaitLate(w) \/ AwaitLate(w)

Next ==
    \/ \E w \in Workers : Begin(w) \/ Step(w) \/ Late(w) \/ Crash(w)
    \/ AskStop \/ AskForceStop \/ Execute \/ ChannelMoves \/ SwapMoves

\* The beat enqueues a message for every run that has not ended, a tick that
\* began goes on, and a wait that is polled for ever is found too long.
Fairness ==
    /\ WF_vars(\E w \in Workers : Begin(w))
    /\ \A w \in Workers : WF_vars(Step(w) \/ Late(w))
    /\ SF_vars(\E w \in Workers : ResolveLate(w))
    /\ SF_vars(\E w \in Workers : WaitLate(w))
    /\ SF_vars(\E w \in Workers : AwaitLate(w))

Spec == Init /\ [][Next]_vars /\ Fairness

-----------------------------------------------------------------------------
(* Properties.                                                             *)

Entries ==
    [state : OpenStates \cup RoundStates, seed : SeedStates, open_txid : BOOLEAN, waiting : BOOLEAN,
     swap_id : Swaps \cup {0}, peer : 1..Peers, connect_attempts : 0..MaxConnects,
     swap_attempts : 0..MaxDrains]

Rows ==
    [state : Terminal \cup {"queued", "in_progress", "awaiting_funds"}, stop_requested : BOOLEAN,
     awaiting_since : BOOLEAN, realized : Nat, channels : Seq(Entries)]

TypeOK ==
    /\ mode \in Modes
    /\ run \in Rows
    /\ lock \in Workers \cup {Nobody}
    /\ \A w \in Workers : {task[w].base, task[w].copy} \subseteq Rows
    /\ chan \in [Slots -> {"none", "down", "active", "gone"}]
    /\ opened \in [Slots -> 0..MaxOpens]
    /\ swaps \in [Swaps -> SwapRows]
    /\ owner \in [Swaps -> Slots \cup {0}]
    /\ {others, overlap, lost} \subseteq BOOLEAN
    /\ events \in 0..MaxEvents

\* No tick was cut in two by another, and nothing was made that the row does
\* not know of.
Clean == ~overlap /\ ~lost

\* The row FOR UPDATE keeps two messages for one run from opening a channel
\* twice: in a parallel run always, also after create_reverse_swap has given the
\* row up, because by then nothing is queued; in a bootstrap run while no tick
\* comes between two commits of another.  What can open a channel twice is an
\* opening that the row never tells of: the worker died before its commit, or
\* open_channel erred for a channel that it did open.
OpenedOnce ==
    ~lost /\ (mode = "bootstrap" => ~overlap) => \A c \in Slots : opened[c] <= 1

\* A channel is drained by one reverse swap at a time: another is made for it
\* only after the last one has failed and the failure was counted.
OneDrain(c) ==
    LET made == Cardinality({i \in Swaps : owner[i] = c})
        failures == IF c \in DOMAIN run.channels THEN run.channels[c].swap_attempts ELSE 0
    IN made <= failures + 1

DrainedOnce == Clean => \A c \in Slots : OneDrain(c)

\* A bootstrap run grows one channel at a time, whatever ticks were cut in two:
\* when a round is started all the rounds before it are settled.
OneRoundAtATime ==
    mode = "bootstrap" =>
        \A c \in DOMAIN run.channels : c < Len(run.channels) => run.channels[c].state = "settled"

\* The inbound liquidity reported is that of swaps whose coin came back.
RealizedIsEarned ==
    Clean /\ mode = "bootstrap" =>
        LET drained == {c \in Settled(run) : run.channels[c].swap_id # 0}
        IN /\ run.realized = Cardinality(drained)
           /\ \A c \in drained : swaps[run.channels[c].swap_id].coin = "claimed"

\* At most one run is active: a run that ended, after which another may have
\* been started, is not active again, whatever ticks were cut in two.
OneActiveRun == others => Ended

\* A force-cancel that lands between the commits of a bootstrap tick is not
\* overwritten when the tick goes on.
CancelSticks == [][mode = "bootstrap" /\ Ended => run'.state = run.state]_vars

\* Every run ends, unless a crash lost the record of something it made: each
\* wait has a limit, and so has each retry.
EveryRunEnds == <>(Ended \/ lost)
=============================================================================
