# TLA+ models of agent-wallet

agent-wallet is a self-hosted Bitcoin/Lightning wallet service: a FastAPI
process and Celery workers in front of an LND node, with Redis for idempotency
keys and rate limits, PostgreSQL for swaps, sessions and the audit log, and
outgoing connections (Boltz, Electrum, mempool, LNURL) over Tor. These modules
model the parts whose correctness depends on the order in which requests,
workers, retries, crashes and outside systems act. Paths below are relative to
`src/app/`; `PROJECT.json` maps every definition to the lines it models.

## The system and what is modelled

| part | source | module |
|---|---|---|
| circuit breaker, retry helper | `core/resilience.py`, `LNDService._request` | `CircuitBreaker` |
| spending endpoints, idempotency slots | `core/idempotency.py`, `api/{payments,channels,cold_storage,bolt12}.py` | `SpendRequests` |
| audit hash chain, high-water row, anchors | `services/audit_service.py` | `AuditChain` |
| Boltz reverse swaps | `services/boltz_service.py`, `tasks/boltz_tasks.py` | `BoltzSwap` |
| what the flows above a swap rely on | how they read `models/boltz_swap.py` | `SwapPromise` |
| Braiins deposits | `services/braiins_deposit_service.py` | `BraiinsDeposit` |
| channel mix | `tasks/channel_mix_tasks.py`, `api/channel_mix.py` | `ChannelMix` |
| anonymize sessions | `services/anonymize/` (loop, tick, hops, probe, start-up) | `AnonymizeSession` |

How the parts meet: an endpoint reserves an idempotency slot and a place in the
spend window, calls LND through the breaker, writes an audit row and stores its
answer. `/cold-storage/initiate`, a deposit session and a channel-mix run each
end up committing a swap row and a Celery message, which is where `BoltzSwap`
starts. `CircuitBreaker`, `SpendRequests` and `AuditChain` take the others'
outcomes as free choices (a call to LND may succeed, fail or end without a
verdict; an audit write may raise), so they hold whatever those do.

The swap is composed by refinement. `SwapPromise` says what a row of
`boltz_swaps` and the coin behind it may do: a claim is recorded only when the
coin was claimed, a coin is claimed or refunded once, a touched swap is not
CREATED again. `BoltzSwap` is shown to implement it (`KeepsPromise`, checked by
TLC and proved). `BraiinsDeposit` and `ChannelMix` EXTEND `SwapPromise`, so their
swaps move as it allows, as far as the flow can tell (`SwapMoves` says what is left
out); that these flows, which also create and cancel swaps, do no more than it
allows is proved too (`DepositKeepsPromise`, `MixKeepsPromise`). `AnonymizeSession`
has its own, cruder swap (a payment that settles or fails): it reads other columns
of the row.

About 11,400 of 106,745 source lines (10.7 %) are mapped. `PROJECT.json` lists 31
components; those not modelled have a reason there.

## Modules

**CircuitBreaker.** `state`, `consecutive_failures`, the cool-down as the
boolean `cooled`, the asyncio lock that serialises half-open probes (with its
waiters, and replaced by `reset()` or a new event loop), and a program counter
per caller. A step is what the event loop runs between two awaits.

**SpendRequests.** An attempt is one HTTP request. `slot[k]` is the Redis value
of a key, `reserved[a]` the attempt's place in the spend window, `node[a]` what
became of its call at the node, which may act after the caller gave up. The six
handlers differ in four flags (`PayInvoice` ... `BumpFee`). `Faults` chooses among
unknown outcomes, failing audit writes, cancellation, crashes, and Redis scripts
(EVAL) that err, whether or not Redis has run them.

**AuditChain.** `rows` in `(created_at, id)` order, the signed high-water row,
the retention task, `reanchor_chain`, `verify_chain` page by page, and the
off-box receiver of the anchors. A transaction under the chain advisory lock is
one step; what runs outside the lock is one step per SQL statement. A hash is an
identity: collisions and key rotation are left out.

**BoltzSwap.** One swap's row, its row lock, and the tasks that work on copies
of it: `process_boltz_swap` messages, recovery passes, operator requests. A
commit writes the attributes that differ from the loaded copy (sessions keep
their objects across commits), so a stale copy can overwrite a newer status.
Boltz, LND and the chain are external actions.

**BraiinsDeposit.** One session of any of the six sources (`kind`). `task[w]` is a
worker (a caller of `advance()`, or a request of the user) with its copy of the
row. The copy is loaded before the row is locked and the locking SELECT does not
refresh it; the lock ends with the first of the several commits of a handler.
`overlap` records that two workers were in a handler at a time or one began with
a stale copy; `lost` that a lockup or an opening went out and the row will not tell:
the process died between `send_coins` or `open_channel` and the commit, or
`open_channel` erred for a channel it did open and the loop goes on. One action per status handler and commit of it; a handler with three
commits is three or four actions. The intake address, the submarine swaps and
the channel are external. Amounts are abstracted to none, short and full.

**ChannelMix.** One run in either mode, ticked by any number of Celery messages.
A tick has the row locked until its first commit, so the actions of a tick are cut
at the commits: the one inside `create_reverse_swap` and those that record a
channel or a swap. `overlap` records that another tick or a cancel came between two
commits of a tick; `lost` that a channel or a swap was made and its record was not
(a crash, or an open error that hides an opening while the next peer is tried);
`Clean` says that neither happened. `others` stands for another run: the one-active-run guard lets one be
started when this run has ended.

**AnonymizeSession.** One session of a pipeline (source, exit, and what the claim
subprocess answers). A tick is one transaction, which commits or is rolled back
with its side effects done; minting an invoice and creating a swap commit in the
middle of it. `past.lost` records a tick that paid and was rolled back.
Dashboard requests read without a lock (`AskCancel` ...) and write later (`Answer`).

## Runs

| run | result | what it shows |
|---|---|---|
| `breaker` | pass | closed exactly while fewer than `failure_threshold` failures stand |
| `breaker_leak` | violation | callers wait on a probe lock that no live call holds |
| `spend_replays` | pass | send-onchain, open and swap with unknown outcomes: one key moves money once, has one holder, and answers are true |
| `spend_invoice` | pass | invoice and offer payments with every fault: metering, truthful answers, and a completed slot never payable again |
| `spend_offer_twice` | violation | a slow reconciliation releases a newer pending slot: an offer is paid twice |
| `audit_retention` | pass | appends, pruning and losses: exact count, no false alarm of the task or of the anchors' receiver |
| `audit_operators` | pass | re-anchoring and paged verification leave one chain |
| `boltz_swap` | pass | a message, a recovery pass, an operator and a crash: the swap ends, and keeps `SwapPromise` |
| `boltz_duplicates` | pass | two messages with a retry each for one swap: exclusive claims, true row, and a live payment given up only when Boltz ended the swap or the retries ran out |
| `braiins_deposit` | pass | funds committed once unless handlers overlap or the row is never told, destination paid once and not as well as refunded, true row, ends stay |
| `channel_mix` | pass | both modes: racing messages do not open a channel twice, a channel is drained once while ticks are whole, one round at a time, cancels stick, every run ends |
| `anonymize` | pass | self-payment once, completion earned, nothing spent early, bounded retries, every session ends |

The two violations are disagreements between the code and a comment in it;
`PROJECT.json` quotes both. `breaker_leak` needs no cancellation: a waiter that
takes the lock after the probe has closed or opened the breaker releases nothing.

**Bounds.** The breaker has two retried callers and a mutating one, threshold 2
and two lock replacements: enough for a probe, a waiter and a late outcome. The
spend runs have three attempts, which is what a first request, its retry and a
rival need. The audit runs have up to five rows, pages of one row and three
clock readings, so clocks repeat and step back. `boltz_swap` has one message, one
pass, one operator request and one crash; `boltz_duplicates` two messages with one
retry and no crash. `MaxRequests` bounds operator requests: an operator who
retries for ever can keep the row locked for ever. `braiins_deposit` has one
caller of `advance()` (whose copy may be old), one request of the user at a time,
two reverse and two submarine swaps (a first one and the one that replaces it) and
two events, an event being a request, a crash or an overlap. It takes four of the
six sources, which between them enter every handler. `channel_mix` has two
workers, two channels with the same peer (so that matching channels by peer key
can mistake one for the other), two peers to try in a bootstrap round, two drain
attempts, two swaps and one event.
`anonymize` has every source and both exits in four pipelines, one retry of each
kind, two loop failures, one reorg to give up at and two events. Symmetry is used
on interchangeable callers, attempts and messages, and never with liveness.
Where deadlock is not checked, the system may rightly stop: all requests are
answered, the bounded rows are written, or the swap, session or run has ended.
Every safety property of a passing run is also proved for all bounds, so these
matter for the liveness properties and as a check of the statements.

**Fairness.** `BoltzSwap!FairSpec`: Celery runs its messages and redelivers
unacknowledged ones, and beat starts a recovery pass every five minutes: weak
fairness of each task's steps and of recovery. Boltz can be reached again and
again though any poll may fail: strong fairness of an answered poll. Boltz acts
on a swap and blocks arrive: weak fairness of those. Nothing is assumed of
payments or of operators.
`ChannelMix!Spec`: the recovery beat ticks an active run every minute, so some
worker begins (weak), and a tick that began goes on. The three time limits of the
code (`_channel_confirmed_dead` with its hard limit, the stuck-round limit, the
limit on waiting for funds) are read from stored timestamps that no tick resets
while the wait lasts, so a tick that keeps looking does find the limit passed:
strong fairness of the three `...Late` actions.
`AnonymizeSession!Spec`: the event loop schedules a started tick and a started
request, the recurring scheduler runs each probe, and time passes: weak fairness.
Nothing is assumed of hops, payments, deposits, confirmations or operators. That
a session grows idle assumes that a hop which keeps failing keeps failing with the
same message: `last_error` is written each time (`per_session_loop.py:178`), and a
changed one would renew the row's `updated_at`, from which the idle time counts.
`BraiinsDeposit` has none: a session may rightly wait for its payer for ever.

`EverySwapEnds` says that a swap reaches a terminal status, not that it is paid:
a recovery pass that only polled an interrupted PAYING_INVOICE swap would satisfy
it too, because Boltz expires a swap it never saw an HTLC for. What it rules out
is a swap that no task takes up again. `EveryRunEnds` excepts a crash that lost
the record of something made (see "swapping" below), and `EverySessionEnds`
sessions that are still `created` and those parked for a reason the code leaves to
the operator.

## Proofs

TLAPS proves these for every value of the constants, from the named `ASSUME` of
each module (disjoint sets of names, natural bounds; the limits of attempts
positive). Every safety invariant and action property that a run checks has a
theorem. A hypothesis in brackets is an assumption of the theorem itself.

| theorem | property | argument |
|---|---|---|
| `BreakerClosedIffBelowThreshold` | `ClosedIffBelowThreshold` | inductive once the types of the breaker's own state are added |
| `BreakerTypes` | `TypeOK` | `BreakerTypeInv`: `with_retry` sleeps only with attempts left |
| `TypesHold` | `TypeOK` | one step per handler action |
| `OutflowIsMetered` (no fee bumps) | `MeteredOutflow` | `MeterInv`: a call not yet resolved keeps its reservation; a refused one cannot be live |
| `CompletedSlotsStay` | `CompletedStays` | `TypeOK`; marking pending and releasing compare the slot's state first, reserving needs an empty slot, and `store_result` only writes completed slots |
| `OncePerKey` (no pay/offer, no fault but unknown outcomes) | `AtMostOncePerKey` | `OnceInv`: the key of a payment that may be live is held, pending or completed, and has one holder |
| `KeysHaveOneHolder` (no keyed pay/offer) | `ReservedByItsHolder` | `HolderInv`: nobody is between a peek and a reservation, and unless a crash or an erring EVAL left it behind, a marker has a live holder |
| `AnswersAreTrue` (retries of pay/offer repeat the body) | `TruthfulAnswers` | `TruthInv`: a stored or looked-up payment went through and is that of the slot's fingerprint |
| `ChainStaysIntact` | `ChainIntact` | `ChainInv`: linked and in time order, with lemmas on appending to and cutting sequences |
| `HighWaterIsExact` (no re-anchoring) | `HighWaterExact` | `HighWaterInv`: count = rows + rows lost |
| `AlarmsAreTrue` (no re-anchoring; not both prune and verify) | `NoFalseAlarm` | `AlarmInv`: unless rows were lost, the cursor of a walk is a row of the table |
| `AnchorsAreTrue` (no re-anchoring, no lost anchor) | `ObserverNotMisled` | `ObserverInv`: the receiver's count is covered by rows, losses and announced deletions |
| `AuditTypes` | `TypeOK` | `AuditTypeInv`: the table is a chain, so cutting it leaves rows |
| `SwapTypes`, `ClaimsAreExclusive`, `RowNeverAhead`, `PaymentsAreWatched` | types, `OneClaimScript`, `RowFollowsChain`, `OwnPaymentNotAbandoned` | `SwapInv`, below |
| `SwapKeepsPromise` | `KeepsPromise` | refinement: `SwapInv` and `FirstStatus`, every step a `Move` or a stutter |
| `DepositTypes`, `RowsAreTrue`, `PaysOnce`, `FundsOnce`, `NeverBoth`, `EndsStay` | `TypeOK`, `RowIsTrue`, `PaidOnce`, `FundedOnce`, `NotBoth`, `EndIsFinal` | `DepositInv`, below |
| `DepositKeepsPromise`, `MixKeepsPromise` | `SwapsSpec` of `SwapPromise` (no run checks it) | `LinkInv`: swaps are truthful, and a request about to cancel a swap has one that exists |
| `MixTypes`, `RoundsInOrder`, `OneRunIsActive`, `CancelsStick`, `ChannelsOpenOnce`, `ChannelsDrainOnce`, `LiquidityIsEarned` | `TypeOK`, `OneRoundAtATime`, `OneActiveRun`, `CancelSticks`, `OpenedOnce`, `DrainedOnce`, `RealizedIsEarned` | `MixInv`, below |
| `SessionTypes`, `SelfPayIsUnique`, `ExitRepaidOnlyIfLost`, `CompletionIsEarned`, `NothingSpentEarly`, `ResumesAreBounded` | `TypeOK`, `SelfPaidOnce`, `RepaidOnlyIfLost`, `CompletedIsEarned`, `SpendsOnlyWhatArrived`, `RetriesAreBounded` | `SessionInv`, below |

None of the properties of the four larger models is inductive, because every row
is written from a copy that may be old.

`SwapInv`: the copy follows the chain (`CopyFollows`); a claiming task holds the
row lock, so no commit can slip in (`ClaimLocked`); a status at Boltz implies what
is on chain (`ChainAgrees`); a task whose copy says FAILED is about to commit or
return, so it cannot pay (`Settled`, `NoLoss`), and unless Boltz ended the swap it
got there by LND's verdict or with no retry left, which is `PaymentsAreWatched`. The refinement also needs that a
copy whose status is CREATED was loaded as CREATED (`FirstStatus`).

`DepositInv` is in three parts. `BaseInv` holds whatever overlaps: what the row,
and every copy of it, says of the world is so, in terms of facts that only grow
(coins paid out, coins claimed, lockups returned); and a worker's place tells the
status of its copy. `RowsAreTrue` follows. `SoleInv` holds as long as handlers do
not overlap: the one worker in a handler has the row as its copy, every coin paid
out and every lockup funded is the one in the row, and an intake was refunded only
if no coin came.
`KnownInv`, as long as moreover no record is lost: what was opened or locked up is
in the row or about to be, so a handler that starts over finds it (`FundsOnce`). Each action is first shown to be one of
a few kinds of step (it turns the row into another, leaves it, or gives it an
address; and does at most one thing outside), by a lemma `<Action>Acts`; then each
kind of step is shown to keep each part, so that the 40-odd actions and the
conjuncts are not multiplied.

`MixInv` has five parts, with a sixth, `ParInv`, beside them. `TicksInv`: all rounds but the last are settled, a tick
that holds the lock has the committed row as its base, and one that lost the lock
is at one of the two places where a commit ends it. `WorldInv`: types, and swaps
keep their promise. `AloneInv`: without overlap one tick is busy and the row is
what it was loaded as, but for a stop request. `CleanInv`: the row and the copy
know every channel opened and every swap made, except the one whose record is
about to be committed. `OneActiveRun` is the fifth. `ParInv` is about parallel runs:
a tick gives the row up only with nothing queued, and a channel that was opened is
queued at most in a row that the tick which opened it still holds. `RoundsInOrder`,
`OneRunIsActive`, `CancelsStick` and `ParInv` need only the first two parts and
`OneActiveRun`, so they hold with overlapping ticks; these are in
`ChannelMix_proofs`, the rest in `ChannelMixOnce_proofs`. `ChannelsOpenOnce` rests on
`ParInv` in a parallel run, where overlap is allowed, and on `CleanInv` in a
bootstrap run.

`SessionInv`: a row says only what the world has done and no growth of the world
undoes it (`RowOK`, `WorldOK`); the tick's copy differs from the row only as its
place allows (`LoopOK`); a request that read an old row can only write what was
true then and still is (`RequestOK`); there is one self-pay invoice, and it is
recorded before it is paid (`InvoiceOK`); the retry counter never exceeds its
budget (`RetryOK`); reorgs are counted once each (`ReorgOK`); and unless a tick was
lost, row or tick know of every payment at the exit (`LostOK`).

The inductive invariants were checked by TLC on the instances above before they
were proved.

Only model-checked: the liveness properties `EverySwapEnds`, `EveryRunEnds` and
`EverySessionEnds` (liveness under fairness is outside what TLAPS proves here). The
two violations are counterexamples, so there is nothing to prove; `OncePerKey`
excludes the endpoints of `spend_offer_twice`.

## Behaviours the properties exclude

Each of these is a behaviour of the model, found by TLC when a condition of a
property above was dropped, or seen in the code while modelling it. None has a run
of its own.

Spending endpoints
- A key replayed with another invoice finds the first one's pending slot and is
  answered with the first one's success: the peek (`api/payments.py:290`) compares no
  fingerprints, where `core/idempotency.py:16-18` promises a 409.
- A failed audit write after a broadcast releases the key (`api/payments.py:550`), and
  a fee bump is reported failed after LND made it (`api/cold_storage.py:625`).
- A slow reconciliation of a keyed pay or offer may store its answer over a slot that
  another request has reserved meanwhile (the hypothesis of `KeysHaveOneHolder`).
- `store_result` writes unconditionally when its EVAL errs (`core/idempotency.py:294-296`),
  so a stored response may be replaced (the comment at 76-80 says it is not).

Audit log
- `reanchor_chain` counts rows after its lock is released (`audit_service.py:699`; the
  docstring at 70-71 says every caller holds it): `HighWaterExact` fails.
- A prune between two pages of `verify_chain` is reported as a broken chain.
- When the anchor that announces a prune is lost, the receiver raises a false alarm
  (`audit_service.py:605-609`), so `AnchorsAreTrue` assumes that none is.

Reverse swaps
- A cancel commits CANCELLED after the worker has paid (`boltz_service.py:2123`;
  `docs/boltz.md:73` says "before invoice payment").
- With two messages, one may commit FAILED on the verdict of its own payment after the
  other has paid again (`boltz_tasks.py:322`); `_mark_swap_failed` overwrites CLAIMED
  (`boltz_tasks.py:519`; the comment at `boltz_service.py:1826-1834` names the case).
- After its last retry a message gives up a swap whose payment is still in flight
  (`_mark_swap_failed`, `boltz_tasks.py:499-531`); `OwnPaymentNotAbandoned` names that
  case as one of its two reasons.
- The unilateral claim is allowed from the timeout height on, when Boltz's refund is
  valid too. The model lets a broadcast claim win.

Deposits
- Funds are committed a second time in three ways: two callers of `advance()` overlap,
  because the commit at `braiins_deposit_service.py:2175` ends the row lock (docstring
  1712-1714); the process dies before the commit at 2225; or `open_channel` errs for a
  channel it did open and the next peer is tried (docstring 2273-2277, comment
  2347-2351).
- Recovery of a CREATED swap pays the invoice an external payer was to pay
  (`boltz_service.py:2068`; `braiins_deposit_service.py:2581` says "do not pay").
- A cancel, or a new invoice, abandons a swap that is being paid (1395); a send short
  of the target is reported FAILED though it was made (3796); a cancelled session may
  become REFUNDED (1568).

Channel mix
- A channel is drained twice when a message waits for the row while a tick commits
  inside `create_reverse_swap` (`channel_mix_tasks.py:1068`, comment 1093-1097).
- In a parallel run a force-cancel is overwritten by the tick at work
  (`models/channel_mix_run.py:314-324`) and a crash opens channels again (1365-1379).
  `CancelSticks` is therefore stated of bootstrap runs.
- A crash before the commit, or an open error that hides an opening, opens a channel
  again (`channel_mix_tasks.py:965` takes every such error as "pre-broadcast").
- In a bootstrap run the commit that links a stale tick's swap may overwrite a newer
  list of rounds, so that a round is started, and its channel opened, again.
- A crash that leaves a seed "swapping" keeps the run, and the guard, for ever (320).
- Channels are matched by peer key only (373).

Anonymize
- An offer is paid again after its tick was rolled back (`hops/bolt12_pay.py:24-28`).
- Sessions with an on-chain source never leave `sourcing`; a `created` row given a
  parking reason keeps it (`service.py:324-339`); a restart leaves `created` rows
  without a loop (`startup_reconciliation.py:219`).
- A stale reason parks a resumed session again (`observation_router.py:84-87`).
- `bolt12_pay` writes statuses past the transition graph (`state_machine.py:27-30`).
- Operator requests decide on rows read without a lock (`dashboard/api.py:6642-6668`).
- The funds of an external BOLT 11 session, and of a BOLT 12 one whose offer could not
  be minted, are not checked before the exit (`ext_lightning_observe.py:131-135`), so
  `SpendsOnlyWhatArrived` does not speak of them.

## Not modelled

In the modelled parts: failing reads and deletes of an idempotency slot and its
24-hour expiry, key rotation in the audit log,
`status_history` but for what the deposit's dispatch looks for, quotes, fee
estimates and coin selection, the channel-mix planner, LND's 100-payment lookup
window except as a lookup that may miss; in anonymize sessions every pay mode but
the strict one (legacy, `abort_below_min`), the Liquid and
private-channel hops, multi-output sessions, the refund paths of submarine funding
that no caller reaches, and the self-broadcast fallback (`service.py:996-1086`),
whose query finds no row.

Not at all: the spend and velocity windows (`core/rate_limit.py`), used here only
as reserve and roll back; the BOLT 12 receive path, its path breaker and its
gateway; the Tor watchdog and LND supervisor; the Electrum client; dashboard
sessions and API-key rotation; and the codecs and transaction building, which have
no protocol state. `PROJECT.json` gives the reason for each.
