--------------------------- MODULE BoltzSwap_proofs ---------------------------
(***************************************************************************)
(* BoltzSwap, for any number of messages, recovery passes and operators:   *)
(* claims are exclusive, the row never runs ahead of the chain, a task     *)
(* gives up a payment of its own only when its retries are used up, and    *)
(* the swap keeps SwapPromise, what the services built on it rely on.      *)
(***************************************************************************)
EXTENDS BoltzSwap, TLAPS

-----------------------------------------------------------------------------
(* What holds of the world, whatever the tasks do.                         *)

ChainAgrees ==
    /\ boltz \in {"swap.created", "swap.expired"} => lockup = "none"
    /\ boltz = "invoice.settled" => lockup = "claimed"
    /\ boltz = "transaction.refunded" => lockup = "refunded"
    /\ pay = "succeeded" => boltz = "invoice.settled"
    /\ buried => lockup = "claimed"

(* What holds of a task t and of the copy of the row it works on.          *)
CopyFollows(t, chain) ==
    /\ t.claim_txid => chain = "claimed"
    /\ t.pc = "broadcast" => chain = "claimed"
    /\ t.status = "claimed" => t.claim_txid
    /\ t.status = "completed" => chain = "claimed"
    /\ t.status = "refunded" => chain = "refunded"
    /\ t.pc = "backfill" => t.status = "completed"

Settled(t) ==
    /\ t.stream # "none" => t.pc = "streaming"
    /\ t.status = "failed" => t.pc \in {"commit", "return"}
    /\ t.status = "failed" /\ t.pc = "commit" => t.next \in {"return", "idle"}
    /\ t.pc = "exhausted" => t.tries = MaxRetries
    /\ t.status = "failed" /\ t.pc = "commit" /\ t.next = "idle" => t.tries = MaxRetries

RowFollows ==
    /\ row.claim_txid => lockup = "claimed"
    /\ row.status = "claimed" => row.claim_txid
    /\ row.status = "completed" => lockup = "claimed"
    /\ row.status = "refunded" => lockup = "refunded"

ClaimLocked ==
    \A w \in Tasks : Claiming(w) => lock = w /\ ~row.claim_txid

NoLoss(w, t) ==
    /\ t.stream = "failed" => pay # "inflight" \/ payer # w
    /\ t.pc = "commit" /\ t.next = "return" /\ t.status = "failed"
          => pay # "inflight" \/ payer # w \/ boltz = "swap.expired"

Fits(w, t) ==
    /\ t \in TaskStates
    /\ CopyFollows(t, lockup)
    /\ Settled(t)
    /\ NoLoss(w, t)

ScalarTypes ==
    /\ row \in [status : Statuses, claim_txid : BOOLEAN]
    /\ lock \in Tasks \cup {Nobody}
    /\ pay \in {"none", "inflight", "failed", "succeeded"}
    /\ payer \in Tasks \cup {Nobody}
    /\ boltz \in {"swap.created", "transaction.mempool", "swap.expired",
                  "transaction.refunded", "invoice.settled"}
    /\ lockup \in {"none", "locked", "claimed", "refunded"}
    /\ height \in {"before", "after"}
    /\ buried \in BOOLEAN
    /\ crashes \in 0..MaxCrashes
    /\ requests \in 0..MaxRequests

\* The inductive invariant.
SwapInv ==
    /\ ScalarTypes
    /\ ChainAgrees
    /\ RowFollows
    /\ ClaimLocked
    /\ DOMAIN task = Tasks
    /\ task = [w \in Tasks |-> task[w]]
    /\ \A w \in Tasks : Fits(w, task[w])

-----------------------------------------------------------------------------
(* Steps that touch one task, and leave the row and the world alone.       *)

\* The lock passes only from nobody to w, or from w to nobody, so a claim that
\* another task runs keeps it.
LEMMA OneTask ==
    ASSUME SwapInv, NEW w \in Tasks, NEW t,
           task' = [task EXCEPT ![w] = t], Fits(w, t),
           UNCHANGED <<row, World>>,
           lock' \in Tasks \cup {Nobody},
           lock' # lock => lock \in {Nobody, w},
           t.pc \in {"claim", "broadcast"} => lock' = w /\ ~row.claim_txid,
           crashes' \in 0..MaxCrashes, requests' \in 0..MaxRequests
    PROVE  SwapInv'
<1>1. ScalarTypes' /\ ChainAgrees' /\ RowFollows'
  BY DEF SwapInv, ScalarTypes, ChainAgrees, RowFollows, World
<1>2. DOMAIN task' = Tasks /\ task' = [v \in Tasks |-> task'[v]]
  BY DEF SwapInv
<1>3. \A v \in Tasks : task'[v] = IF v = w THEN t ELSE task[v]
  BY DEF SwapInv
<1>4. ClaimLocked'
  <2> SUFFICES ASSUME NEW v \in Tasks, Claiming(v)'
               PROVE  lock' = v /\ ~row'.claim_txid
    BY DEF ClaimLocked
  <2>1. CASE v = w
    BY <2>1, <1>3 DEF Claiming
  <2>2. CASE v # w
    <3>1. Claiming(v)
      BY <2>2, <1>3 DEF Claiming
    <3>2. lock = v /\ ~row.claim_txid
      BY <3>1 DEF SwapInv, ClaimLocked
    <3> QED
      BY <3>2, <2>2, SwapAssumption
  <2> QED
    BY <2>1, <2>2
<1>5. \A v \in Tasks : Fits(v, task[v])
  BY DEF SwapInv
<1>6. \A v : \A x : Fits(v, x) => (x \in TaskStates /\ CopyFollows(x, lockup') /\ Settled(x)
                                  /\ (x.stream = "failed" => pay' # "inflight" \/ payer' # v)
                                  /\ (x.pc = "commit" /\ x.next = "return" /\ x.status = "failed"
                                        => pay' # "inflight" \/ payer' # v \/ boltz' = "swap.expired"))
  BY DEF Fits, NoLoss, World
<1>7. \A v \in Tasks : Fits(v, task[v])'
  <2> SUFFICES ASSUME NEW v \in Tasks PROVE Fits(v, task[v])'
    OBVIOUS
  <2>1. Fits(v, task'[v])
    BY <1>3, <1>5
  <2> QED
    BY <2>1, <1>6 DEF Fits, NoLoss
<1> QED
  BY <1>1, <1>2, <1>4, <1>7 DEF SwapInv

\* A step of a task that holds no claim and keeps the lock as it is.
Quiet(w, t) ==
    /\ task' = [task EXCEPT ![w] = t]
    /\ UNCHANGED <<row, lock, World>>
    /\ Fits(w, t)
    /\ t.pc \notin {"claim", "broadcast"}

\* OneTask for those steps.
LEMMA QuietStep ==
    ASSUME SwapInv, NEW w \in Tasks, NEW t, Quiet(w, t),
           crashes' \in 0..MaxCrashes, requests' \in 0..MaxRequests
    PROVE  SwapInv'
<1>1. lock' \in Tasks \cup {Nobody} /\ lock' = lock
  BY DEF SwapInv, ScalarTypes, Quiet
<1> QED
  BY Zenon, <1>1, OneTask DEF Quiet

\* The bounds on crashes and requests survive a step that leaves them alone.
LEMMA CountsKept ==
    ASSUME SwapInv, UNCHANGED Counts
    PROVE  crashes' \in 0..MaxCrashes /\ requests' \in 0..MaxRequests
BY DEF SwapInv, ScalarTypes, Counts

\* A task that stops, or is queued for a retry, fits.
LEMMA IdleFits ==
    ASSUME SwapInv, NEW w \in Tasks, NEW p \in {"idle", "queued", "exhausted"},
           NEW n \in 0..MaxRetries, p = "exhausted" => n = MaxRetries
    PROVE  Fits(w, [Idle EXCEPT !.pc = p, !.tries = n])
BY Zenon DEF Fits, TaskStates, Statuses, Unpaid, Terminal, Idle, CopyFollows, Settled, NoLoss

\* The same, with no retry counted.
LEMMA PlainIdleFits ==
    ASSUME SwapInv, NEW w \in Tasks
    PROVE  Fits(w, [Idle EXCEPT !.pc = "queued"])
<1> DEFINE t == [Idle EXCEPT !.pc = "queued"]
<1>1. /\ t.pc = "queued" /\ t.status = "created" /\ t.claim_txid = FALSE /\ t.stream = "none"
  BY DEF Idle
<1>2. 0 \in 0..MaxRetries
  BY SwapAssumption
<1>3. Idle \in TaskStates
  BY <1>2 DEF Idle, TaskStates, Statuses, Unpaid
<1>4. t \in TaskStates
  BY <1>3 DEF TaskStates
<1> HIDE DEF t
<1>5. CopyFollows(t, lockup) /\ Settled(t) /\ NoLoss(w, t)
  BY <1>1 DEF CopyFollows, Settled, NoLoss
<1> QED
  BY <1>4, <1>5 DEF Fits, t

\* The same, for the idle task itself.
LEMMA IdleItself == SwapInv => \A w \in Tasks : Fits(w, Idle) /\ Idle.pc = "idle"
BY SwapAssumption DEF Fits, TaskStates, Statuses, Unpaid, Terminal, Idle, CopyFollows, Settled, NoLoss

\* What a task that is not streaming has: a typed record and no stream.
LEMMA Shape ==
    ASSUME SwapInv, NEW w \in Tasks
    PROVE  /\ task[w] \in TaskStates
           /\ CopyFollows(task[w], lockup)
           /\ Settled(task[w])
           /\ NoLoss(w, task[w])
           /\ task[w].pc # "streaming" => task[w].stream = "none"
BY DEF SwapInv, Fits, Settled, TaskStates

\* A fresh copy of the row fits, unless the row has failed.
LEMMA LoadedFits ==
    ASSUME SwapInv, NEW w \in Tasks, task[w].pc # "streaming", row.status # "failed",
           NEW p \in {"lookup", "poll", "lockup", "commit"}
    PROVE  Fits(w, Loaded(w, p))
<1>1. row \in [status : Statuses, claim_txid : BOOLEAN] /\ RowFollows
  BY DEF SwapInv, ScalarTypes
<1> DEFINE t == Loaded(w, p)
<1>2. /\ task[w] \in TaskStates /\ task[w].stream = "none"
  BY Shape
<1>3. /\ t.pc = p /\ t.status = row.status /\ t.claim_txid = row.claim_txid
      /\ t.stream = "none"
  BY <1>2 DEF Loaded, TaskStates
<1>4. t \in TaskStates
  BY Zenon, <1>1, <1>2 DEF Loaded, TaskStates
<1> HIDE DEF t
<1>5. CopyFollows(t, lockup) /\ Settled(t) /\ NoLoss(w, t)
  BY <1>1, <1>3 DEF RowFollows, CopyFollows, Settled, NoLoss
<1> QED
  BY <1>4, <1>5 DEF Fits, t

-----------------------------------------------------------------------------
(* Moving on, and saving a status.                                         *)

\* A task between two pieces of work fits wherever it goes on.
LEMMA GotoFits ==
    ASSUME SwapInv, NEW w \in Tasks, task[w].pc \notin {"streaming", "commit", "return"},
           NEW p \in {"poll", "confirmations", "lock", "claim", "return"}
    PROVE  /\ Fits(w, [task[w] EXCEPT !.pc = p])
           /\ [task[w] EXCEPT !.pc = p].pc = p
<1> DEFINE t == [task[w] EXCEPT !.pc = p]
<1>1. /\ task[w] \in TaskStates /\ CopyFollows(task[w], lockup) /\ Settled(task[w])
      /\ task[w].stream = "none"
  BY Shape
<1>2. /\ t \in TaskStates /\ t.pc = p /\ t.status = task[w].status
      /\ t.claim_txid = task[w].claim_txid /\ t.stream = "none"
  BY <1>1 DEF TaskStates
<1>3. task[w].status # "failed"
  BY <1>1 DEF Settled
<1> HIDE DEF t
<1>4. CopyFollows(t, lockup) /\ Settled(t) /\ NoLoss(w, t)
  BY <1>1, <1>2, <1>3 DEF CopyFollows, Settled, NoLoss
<1> QED
  BY <1>2, <1>4 DEF Fits, t

\* What a status must rest on for a task to save it.
MaySave(w, s, n) ==
    /\ s \in Statuses
    /\ n \in {"send", "poll", "return"}
    /\ s = "claimed" => task[w].claim_txid
    /\ s = "completed" => lockup = "claimed"
    /\ s = "refunded" => lockup = "refunded"
    /\ s = "failed" => n = "return" /\ (pay # "inflight" \/ payer # w \/ boltz = "swap.expired")

\* A task about to commit such a status fits.
LEMMA SaveFits ==
    ASSUME SwapInv, NEW w \in Tasks, NEW s, NEW n, MaySave(w, s, n)
    PROVE  LET t == [task[w] EXCEPT !.pc = "commit", !.status = s, !.next = n, !.stream = "none"]
           IN  Fits(w, t) /\ t.pc = "commit"
<1> DEFINE t == [task[w] EXCEPT !.pc = "commit", !.status = s, !.next = n, !.stream = "none"]
<1>1. task[w] \in TaskStates /\ CopyFollows(task[w], lockup)
  BY Shape
<1>2. /\ t \in TaskStates /\ t.pc = "commit" /\ t.status = s /\ t.next = n
      /\ t.claim_txid = task[w].claim_txid /\ t.stream = "none"
  BY Zenon, <1>1 DEF TaskStates, MaySave
<1> HIDE DEF t
<1>3. CopyFollows(t, lockup) /\ Settled(t) /\ NoLoss(w, t)
  BY <1>1, <1>2 DEF MaySave, CopyFollows, Settled, NoLoss
<1> QED
  BY <1>2, <1>3 DEF Fits, t

\* Save and Goto as quiet steps.
LEMMA SaveStep ==
    ASSUME SwapInv, NEW w \in Tasks, NEW s, NEW n, MaySave(w, s, n),
           task[w].pc # "streaming", Save(w, s, n), UNCHANGED <<row, lock, World, Counts>>
    PROVE  SwapInv'
<1> DEFINE t == [task[w] EXCEPT !.pc = "commit", !.status = s, !.next = n, !.stream = "none"]
<1>1. task[w] \in TaskStates /\ task[w].stream = "none"
  BY Shape
<1>2. t = [task[w] EXCEPT !.pc = "commit", !.status = s, !.next = n]
  BY Zenon, <1>1 DEF TaskStates
<1>3. task' = [task EXCEPT ![w] = t]
  BY Zenon, <1>2 DEF Save
<1>4. Fits(w, t) /\ t.pc = "commit"
  BY Zenon, SaveFits
<1> HIDE DEF t
<1>5. Quiet(w, t)
  BY <1>3, <1>4 DEF Quiet
<1> QED
  BY <1>5, QuietStep, CountsKept

\* See SaveStep.
LEMMA GotoStep ==
    ASSUME SwapInv, NEW w \in Tasks, task[w].pc \notin {"streaming", "commit", "return"},
           NEW p \in {"poll", "confirmations", "lock", "return"},
           Goto(w, p), UNCHANGED <<row, lock, World, Counts>>
    PROVE  SwapInv'
<1> DEFINE t == [task[w] EXCEPT !.pc = p]
<1>1. task' = [task EXCEPT ![w] = t]
  BY DEF Goto
<1>2. Fits(w, t) /\ t.pc = p
  BY Zenon, GotoFits
<1> HIDE DEF t
<1>3. Quiet(w, t)
  BY <1>1, <1>2 DEF Quiet
<1> QED
  BY <1>3, QuietStep, CountsKept

\* A task that is neither committing nor returning may save the status it has.
LEMMA KeepStatus ==
    ASSUME SwapInv, NEW w \in Tasks, task[w].pc \notin {"commit", "return"},
           NEW n \in {"send", "poll", "return"}
    PROVE  MaySave(w, task[w].status, n)
BY Shape DEF MaySave, CopyFollows, Settled, TaskStates

-----------------------------------------------------------------------------
(* The steps of a task, one lemma per action.                              *)

\* A statement that waited too long for the row ends its task.
LEMMA LockTimeoutStep ==
    ASSUME SwapInv, NEW w \in Tasks, LockTimeout(w)
    PROVE  SwapInv'
<1>1. Quiet(w, Idle)
  BY IdleItself DEF LockTimeout, Quiet
<1> QED
  BY <1>1, QuietStep, CountsKept DEF LockTimeout

\* A crash frees the lock of the task that dies, and of no other.
LEMMA CrashStep ==
    ASSUME SwapInv, NEW w \in Tasks, Crash(w)
    PROVE  SwapInv'
<1> DEFINE again == [Idle EXCEPT !.pc = "queued", !.tries = task[w].tries]
<1>1. task[w].tries \in 0..MaxRetries
  BY Shape DEF TaskStates
<1>0. Fits(w, again)
  BY Zenon, <1>1, IdleFits
<1>8. again.pc = "queued"
  BY DEF Idle
<1>9. task' = [task EXCEPT ![w] = Idle] \/ task' = [task EXCEPT ![w] = again]
  BY Zenon DEF Crash
<1> HIDE DEF again
<1>10. PICK t \in {Idle, again} : task' = [task EXCEPT ![w] = t]
  BY <1>9
<1>2. Fits(w, t) /\ t.pc \in {"queued", "idle"}
  BY <1>0, <1>8, <1>10, IdleItself
<1>3. /\ task' = [task EXCEPT ![w] = t]
      /\ lock' = IF lock = w THEN Nobody ELSE lock
      /\ UNCHANGED <<row, World>>
  BY <1>10 DEF Crash
<1>4. crashes' \in 0..MaxCrashes /\ requests' \in 0..MaxRequests
  BY SwapAssumption DEF Crash, SwapInv, ScalarTypes
<1>5. lock \in Tasks \cup {Nobody}
  BY DEF SwapInv, ScalarTypes
<1>6. lock' \in Tasks \cup {Nobody} /\ (lock' # lock => lock \in {Nobody, w})
  BY <1>3, <1>5
<1>7. t.pc \notin {"claim", "broadcast"}
  BY <1>2
<1> QED
  BY Zenon, <1>2, <1>3, <1>4, <1>6, <1>7, OneTask

\* A task that pays starts from a swap that is not terminal.
LEMMA StartProcessStep ==
    ASSUME SwapInv, NEW w \in Tasks, StartProcess(w)
    PROVE  SwapInv'
<1>1. CASE row.status \in Terminal
  <2>1. Quiet(w, Idle)
    BY <1>1, IdleItself DEF StartProcess, Quiet
  <2> QED
    BY <2>1, QuietStep, CountsKept DEF StartProcess
<1>2. CASE row.status \notin Terminal
  <2>1. row.status # "failed" /\ task[w].pc # "streaming"
    BY <1>2 DEF Terminal, StartProcess
  <2>2. CASE row.status = "created"
    <3> DEFINE t == [Loaded(w, "commit") EXCEPT !.status = "paying_invoice", !.next = "send"]
    <3>1. Fits(w, Loaded(w, "commit"))
      BY <2>1, LoadedFits
    <3>2. Loaded(w, "commit").stream = "none" /\ Loaded(w, "commit").pc = "commit"
      BY <2>1, Shape DEF Loaded, TaskStates
    <3>3. Fits(w, t) /\ t.pc = "commit"
      <4> DEFINE l == Loaded(w, "commit")
      <4> HIDE DEF l
      <4>1. l \in TaskStates /\ CopyFollows(l, lockup) /\ l.stream = "none" /\ l.pc = "commit"
        BY <3>1, <3>2 DEF Fits, l
      <4> DEFINE u == [l EXCEPT !.status = "paying_invoice", !.next = "send"]
      <4>2. /\ u \in TaskStates /\ u.pc = "commit" /\ u.status = "paying_invoice"
            /\ u.stream = "none" /\ u.claim_txid = l.claim_txid
        BY Zenon, <4>1 DEF TaskStates, Statuses, Unpaid
      <4> HIDE DEF u
      <4>3. Fits(w, u)
        BY <4>1, <4>2 DEF Fits, CopyFollows, Settled, NoLoss
      <4> QED
        BY <4>2, <4>3 DEF u, l
    <3>4. Quiet(w, t)
      BY <3>3, <1>2, <2>2 DEF StartProcess, Quiet
    <3> QED
      BY <3>4, QuietStep, CountsKept DEF StartProcess
  <2>3. CASE row.status # "created"
    <3> DEFINE p == IF row.status = "paying_invoice" THEN "lookup" ELSE "poll"
    <3>1. Fits(w, Loaded(w, p)) /\ p \in {"lookup", "poll"}
      BY <2>1, LoadedFits
    <3>2. Loaded(w, p).pc = p
      BY Shape DEF Loaded, TaskStates
    <3>3. Quiet(w, Loaded(w, p))
      BY <3>1, <3>2, <1>2, <2>3 DEF StartProcess, Quiet
    <3> QED
      BY <3>3, QuietStep, CountsKept DEF StartProcess
  <2> QED
    BY <2>2, <2>3
<1> QED
  BY <1>1, <1>2

\* The lookup keeps the swap where it is, or records a payment that succeeded.
LEMMA LookupPaymentStep ==
    ASSUME SwapInv, NEW w \in Tasks, LookupPayment(w)
    PROVE  SwapInv'
<1>1. CASE Goto(w, "poll")
  BY <1>1, GotoStep DEF LookupPayment
<1>2. CASE Save(w, "paying_invoice", "send")
  BY <1>2, SaveStep DEF LookupPayment, MaySave, Statuses, Unpaid
<1>3. CASE Save(w, "invoice_paid", "poll")
  BY <1>3, SaveStep DEF LookupPayment, MaySave, Statuses, Unpaid
<1> QED
  BY <1>1, <1>2, <1>3 DEF LookupPayment

\* Boltz could not be asked: the task returns.
LEMMA PollFailedStep ==
    ASSUME SwapInv, NEW w \in Tasks, PollFailed(w)
    PROVE  SwapInv'
BY GotoStep DEF PollFailed

\* The third confirmation completes a claim.
LEMMA ConfirmationsStep ==
    ASSUME SwapInv, NEW w \in Tasks, Confirmations(w)
    PROVE  SwapInv'
<1>1. CASE buried /\ Save(w, "completed", "return")
  <2>1. MaySave(w, "completed", "return")
    BY <1>1 DEF MaySave, Statuses, Terminal, SwapInv, ChainAgrees
  <2> QED
    BY <1>1, <2>1, SaveStep DEF Confirmations
<1>2. CASE Save(w, task[w].status, "return")
  BY <1>2, KeepStatus, SaveStep DEF Confirmations
<1> QED
  BY <1>1, <1>2 DEF Confirmations

\* The lockup is there, or the task gives up for now.
LEMMA FetchLockupStep ==
    ASSUME SwapInv, NEW w \in Tasks, FetchLockup(w)
    PROVE  SwapInv'
<1>1. CASE Goto(w, "lock")
  BY <1>1, GotoStep DEF FetchLockup
<1>2. CASE task' = [task EXCEPT ![w] = Idle]
  <2>1. Quiet(w, Idle)
    BY <1>2, IdleItself DEF FetchLockup, Quiet
  <2> QED
    BY <2>1, QuietStep, CountsKept DEF FetchLockup
<1>3. CASE Save(w, task[w].status, "return")
  BY <1>3, KeepStatus, SaveStep DEF FetchLockup
<1> QED
  BY <1>1, <1>2, <1>3 DEF FetchLockup

\* The stream's end fails the swap only on the verdict of LND.
LEMMA StreamEndsStep ==
    ASSUME SwapInv, NEW w \in Tasks, StreamEnds(w)
    PROVE  SwapInv'
<1> DEFINE t(s, n) == [task[w] EXCEPT !.pc = "commit", !.status = s, !.next = n, !.stream = "none"]
<1>1. ASSUME NEW s, NEW n, MaySave(w, s, n), task' = [task EXCEPT ![w] = t(s, n)]
      PROVE  SwapInv'
  <2>1. Fits(w, t(s, n)) /\ t(s, n).pc = "commit"
    BY Zenon, <1>1, SaveFits
  <2>2. Quiet(w, t(s, n))
    BY <1>1, <2>1 DEF StreamEnds, Quiet
  <2> QED
    BY <2>2, QuietStep, CountsKept DEF StreamEnds
<1>2. \/ task' = [task EXCEPT ![w] = t("invoice_paid", "poll")]
      \/ task[w].stream = "failed" /\ task' = [task EXCEPT ![w] = t("failed", "return")]
      \/ task' = [task EXCEPT ![w] = t(task[w].status, "poll")]
  BY Zenon DEF StreamEnds
<1>3. MaySave(w, "invoice_paid", "poll")
  BY DEF MaySave, Statuses, Unpaid
<1>4. task[w].stream = "failed" => MaySave(w, "failed", "return")
  BY Shape DEF MaySave, Statuses, Terminal, NoLoss
<1>5. MaySave(w, task[w].status, "poll")
  BY KeepStatus DEF StreamEnds
<1> HIDE DEF t
<1> QED
  BY <1>1, <1>2, <1>3, <1>4, <1>5

\* A pass ends: the message stops, is queued again, or has no retry left.
LEMMA ReturnStep ==
    ASSUME SwapInv, NEW w \in Tasks, Return(w)
    PROVE  SwapInv'
<1>1. ASSUME NEW t, Fits(w, t), t.pc \in {"idle", "queued", "exhausted"},
             task' = [task EXCEPT ![w] = t]
      PROVE  SwapInv'
  <2>1. Quiet(w, t)
    BY Zenon, <1>1 DEF Return, Quiet
  <2> QED
    BY <2>1, QuietStep, CountsKept DEF Return
<1>2. CASE task' = [task EXCEPT ![w] = Idle]
  BY Zenon, <1>1, <1>2, IdleItself
<1>3. CASE /\ task[w].tries < MaxRetries
           /\ task' = [task EXCEPT ![w] = [Idle EXCEPT !.pc = "queued", !.tries = task[w].tries + 1]]
  <2>1. task[w].tries + 1 \in 0..MaxRetries
    BY <1>3, Shape, SwapAssumption DEF TaskStates
  <2>2. Fits(w, [Idle EXCEPT !.pc = "queued", !.tries = task[w].tries + 1])
    BY Zenon, <2>1, IdleFits
  <2>3. [Idle EXCEPT !.pc = "queued", !.tries = task[w].tries + 1].pc = "queued"
    BY DEF Idle
  <2> QED
    BY Zenon, <1>1, <1>3, <2>2, <2>3
<1>4. CASE /\ ~(task[w].tries < MaxRetries)
           /\ task' = [task EXCEPT ![w] = [Idle EXCEPT !.pc = "exhausted", !.tries = task[w].tries]]
  <2>1. task[w].tries \in 0..MaxRetries /\ task[w].tries = MaxRetries
    BY <1>4, Shape, SwapAssumption DEF TaskStates
  <2>2. Fits(w, [Idle EXCEPT !.pc = "exhausted", !.tries = task[w].tries])
    BY Zenon, <2>1, IdleFits
  <2>3. [Idle EXCEPT !.pc = "exhausted", !.tries = task[w].tries].pc = "exhausted"
    BY DEF Idle
  <2> QED
    BY Zenon, <1>1, <1>4, <2>2, <2>3
<1> QED
  BY Zenon, <1>2, <1>3, <1>4 DEF Return

\* A row loaded in order to save another status in it.
LEMMA LoadedStep ==
    ASSUME SwapInv, NEW w \in Tasks, task[w].pc # "streaming", row.status # "failed",
           NEW s \in {"failed", "cancelled"}, s = "failed" => task[w].pc = "exhausted", NEW t,
           t = [Loaded(w, "commit") EXCEPT !.status = s, !.next = "idle"]
    PROVE  Fits(w, t) /\ t.pc = "commit"
<1>1. Fits(w, Loaded(w, "commit"))
  BY LoadedFits
<1>2. Loaded(w, "commit").pc = "commit" /\ Loaded(w, "commit").stream = "none"
  BY Shape DEF Loaded, TaskStates
<1>3. Loaded(w, "commit") \in TaskStates
  BY <1>1 DEF Fits
<1> HIDE DEF Loaded
<1>4. /\ t \in TaskStates /\ t.pc = "commit" /\ t.next = "idle" /\ t.status = s
      /\ t.stream = "none" /\ t.claim_txid = Loaded(w, "commit").claim_txid
      /\ t.tries = Loaded(w, "commit").tries
  BY Zenon, <1>2, <1>3 DEF TaskStates, Statuses, Terminal
<1>6. Loaded(w, "commit").tries = task[w].tries
  BY Shape DEF Loaded, TaskStates
<1>7. t.status = "failed" => t.tries = MaxRetries
  BY <1>4, <1>6, Shape DEF Settled
<1>5. CopyFollows(t, lockup) /\ Settled(t) /\ NoLoss(w, t)
  BY <1>1, <1>4, <1>7 DEF Fits, CopyFollows, Settled, NoLoss
<1> QED
  BY <1>4, <1>5 DEF Fits

\* _mark_swap_failed prepares FAILED over any status but COMPLETED and FAILED.
LEMMA MarkSwapFailedStep ==
    ASSUME SwapInv, NEW w \in Tasks, MarkSwapFailed(w)
    PROVE  SwapInv'
<1>1. CASE row.status \in {"completed", "failed"}
  <2>1. Quiet(w, Idle)
    BY <1>1, IdleItself DEF MarkSwapFailed, Quiet
  <2> QED
    BY <2>1, QuietStep, CountsKept DEF MarkSwapFailed
<1>2. CASE row.status \notin {"completed", "failed"}
  <2> DEFINE t == [Loaded(w, "commit") EXCEPT !.status = "failed", !.next = "idle"]
  <2>1. Fits(w, t) /\ t.pc = "commit"
    BY Zenon, <1>2, LoadedStep DEF MarkSwapFailed
  <2>2. Quiet(w, t)
    BY <1>2, <2>1 DEF MarkSwapFailed, Quiet
  <2> QED
    BY <2>2, QuietStep, CountsKept DEF MarkSwapFailed
<1> QED
  BY <1>1, <1>2

\* An output found in the wallet is the output of the claim.
LEMMA BackfillStep ==
    ASSUME SwapInv, NEW w \in Tasks, Backfill(w)
    PROVE  SwapInv'
<1>1. PICK found \in BOOLEAN :
          /\ found => lockup = "claimed"
          /\ task' = [task EXCEPT ![w] = [task[w] EXCEPT !.pc = "commit", !.claim_txid = found]]
  BY Zenon DEF Backfill
<1> DEFINE t == [task[w] EXCEPT !.pc = "commit", !.claim_txid = found]
<1>2. /\ task[w] \in TaskStates /\ CopyFollows(task[w], lockup)
      /\ task[w].stream = "none" /\ task[w].status = "completed"
  BY Shape DEF Backfill, CopyFollows
<1>3. /\ t \in TaskStates /\ t.pc = "commit" /\ t.status = "completed"
      /\ t.claim_txid = found /\ t.stream = "none"
  BY Zenon, <1>2 DEF TaskStates
<1>4. task' = [task EXCEPT ![w] = t]
  BY <1>1
<1> HIDE DEF t
<1>5. Fits(w, t)
  BY <1>1, <1>2, <1>3 DEF Fits, CopyFollows, Settled, NoLoss
<1>6. Quiet(w, t)
  BY Zenon, <1>3, <1>4, <1>5 DEF Backfill, Quiet
<1> QED
  BY <1>6, QuietStep, CountsKept DEF Backfill

\* Boltz's answer decides the status to save, or leads to the lockup.
LEMMA PollAnsweredStep ==
    ASSUME SwapInv, NEW w \in Tasks, PollAnswered(w)
    PROVE  SwapInv'
<1>0. /\ ChainAgrees /\ task[w] \in TaskStates /\ CopyFollows(task[w], lockup) /\ Settled(task[w])
      /\ task[w].pc = "poll" /\ task[w].stream = "none"
      /\ UNCHANGED <<row, lock, World, Counts>>
  BY Shape DEF SwapInv, PollAnswered
<1>1. CASE boltz = "swap.expired" /\ Save(w, "failed", "return")
  BY <1>0, <1>1, SaveStep DEF MaySave, Statuses, Terminal
<1>2. CASE boltz = "transaction.refunded" /\ Save(w, "refunded", "return")
  BY <1>0, <1>2, SaveStep DEF MaySave, Statuses, Terminal, ChainAgrees
<1>3. ASSUME NEW t, t \in TaskStates, CopyFollows(t, lockup), t.stream = "none",
             t.status # "failed", t.pc \in {"commit", "backfill", "lockup"},
             task' = [task EXCEPT ![w] = t]
      PROVE  SwapInv'
  <2>1. Quiet(w, t)
    BY <1>0, <1>3 DEF Quiet, Fits, Settled, NoLoss
  <2> QED
    BY <1>0, <2>1, QuietStep, CountsKept
<1>4. CASE /\ boltz = "invoice.settled"
           /\ task' = [task EXCEPT ![w].status = "completed", ![w].next = "return",
                                   ![w].pc = IF task[w].claim_txid THEN "commit" ELSE "backfill"]
  <2> DEFINE p == IF task[w].claim_txid THEN "commit" ELSE "backfill"
             t == [task[w] EXCEPT !.status = "completed", !.next = "return", !.pc = p]
  <2>1. task' = [task EXCEPT ![w] = t]
    BY Zenon, <1>4
  <2>p. p \in {"commit", "backfill"}
    OBVIOUS
  <2> HIDE DEF p
  <2>2. /\ t \in TaskStates /\ t.stream = "none" /\ t.status = "completed"
        /\ t.pc \in {"commit", "backfill"}
    BY Zenon, <1>0, <2>p DEF TaskStates, Statuses, Terminal
  <2>3. lockup = "claimed"
    BY <1>0, <1>4 DEF ChainAgrees
  <2> HIDE DEF t
  <2>4. CopyFollows(t, lockup)
    BY <2>2, <2>3 DEF CopyFollows
  <2> QED
    BY Zenon, <1>3, <2>1, <2>2, <2>4
<1>5. CASE Goto(w, "confirmations")
  BY <1>0, <1>5, GotoStep
<1>6. CASE task' = [task EXCEPT ![w].pc = "lockup", ![w].status =
               IF task[w].status \in Unpaid \cup {"invoice_paid"} THEN "claiming" ELSE task[w].status]
  <2> DEFINE s == IF task[w].status \in Unpaid \cup {"invoice_paid"} THEN "claiming" ELSE task[w].status
             t == [task[w] EXCEPT !.pc = "lockup", !.status = s]
  <2>1. task' = [task EXCEPT ![w] = t]
    BY Zenon, <1>6
  <2>2. s \in Statuses /\ s # "failed" /\ (s # "claiming" => s = task[w].status)
    BY <1>0 DEF TaskStates, Statuses, Settled
  <2> HIDE DEF s
  <2>3. /\ t \in TaskStates /\ t.stream = "none" /\ t.status = s /\ t.pc = "lockup"
        /\ t.claim_txid = task[w].claim_txid
    BY Zenon, <1>0, <2>2 DEF TaskStates
  <2> HIDE DEF t
  <2>4. CopyFollows(t, lockup)
    BY <1>0, <2>2, <2>3 DEF CopyFollows
  <2> QED
    BY Zenon, <1>3, <2>1, <2>2, <2>3, <2>4
<1>7. CASE Save(w, task[w].status, "return")
  BY <1>0, <1>7, KeepStatus, SaveStep
<1> QED
  BY <1>1, <1>2, <1>4, <1>5, <1>6, <1>7 DEF PollAnswered

\* The row lock: a task that goes on to claim takes it from nobody.
LEMMA LockRowStep ==
    ASSUME SwapInv, NEW w \in Tasks, LockRow(w)
    PROVE  SwapInv'
<1>0. /\ task[w].pc = "lock" /\ lock = Nobody /\ UNCHANGED <<row, World, Counts>>
      /\ task[w] \in TaskStates /\ task[w].stream = "none"
      /\ crashes' \in 0..MaxCrashes /\ requests' \in 0..MaxRequests
  BY Shape, CountsKept DEF LockRow
<1>1. CASE ~row.claim_txid /\ Goto(w, "claim") /\ lock' = w
  <2> DEFINE t == [task[w] EXCEPT !.pc = "claim"]
  <2>1. Fits(w, t) /\ t.pc = "claim"
    BY Zenon, <1>0, GotoFits
  <2>2. task' = [task EXCEPT ![w] = t]
    BY <1>1 DEF Goto
  <2> HIDE DEF t
  <2> QED
    BY Zenon, <1>0, <1>1, <2>1, <2>2, OneTask
<1>2. ASSUME row.claim_txid, lock' \in {Nobody, w}, NEW t,
             t \in TaskStates, t.pc \in {"commit", "return"}, t.status = "claimed",
             t.claim_txid, t.stream = "none", task' = [task EXCEPT ![w] = t]
      PROVE  SwapInv'
  <2>1. lockup = "claimed"
    BY <1>2 DEF SwapInv, RowFollows
  <2>2. Fits(w, t)
    BY <1>2, <2>1 DEF Fits, CopyFollows, Settled, NoLoss
  <2> QED
    BY Zenon, <1>0, <1>2, <2>2, OneTask
<1>3. CASE /\ row.claim_txid
           /\ task' = [task EXCEPT ![w].pc = "commit", ![w].status = "claimed",
                                   ![w].claim_txid = TRUE, ![w].next = "idle"]
           /\ lock' = w
  <2> DEFINE t == [task[w] EXCEPT !.pc = "commit", !.status = "claimed",
                                  !.claim_txid = TRUE, !.next = "idle"]
  <2>1. task' = [task EXCEPT ![w] = t]
    BY Zenon, <1>3
  <2>2. /\ t \in TaskStates /\ t.pc = "commit" /\ t.status = "claimed"
        /\ t.claim_txid /\ t.stream = "none"
    BY Zenon, <1>0 DEF TaskStates, Statuses
  <2> HIDE DEF t
  <2> QED
    BY Zenon, <1>2, <1>3, <2>1, <2>2
<1>4. CASE /\ row.claim_txid
           /\ task' = [task EXCEPT ![w].pc = "return", ![w].status = "claimed",
                                   ![w].claim_txid = TRUE]
           /\ UNCHANGED lock
  <2> DEFINE t == [task[w] EXCEPT !.pc = "return", !.status = "claimed", !.claim_txid = TRUE]
  <2>1. task' = [task EXCEPT ![w] = t]
    BY Zenon, <1>4
  <2>2. /\ t \in TaskStates /\ t.pc = "return" /\ t.status = "claimed"
        /\ t.claim_txid /\ t.stream = "none"
    BY Zenon, <1>0 DEF TaskStates, Statuses
  <2> HIDE DEF t
  <2> QED
    BY Zenon, <1>0, <1>2, <1>4, <2>1, <2>2
<1> QED
  BY <1>1, <1>3, <1>4 DEF LockRow

\* A broadcast claim is recorded, or lost with the script's output.
LEMMA ClaimReturnsStep ==
    ASSUME SwapInv, NEW w \in Tasks, ClaimReturns(w)
    PROVE  SwapInv'
<1>1. CASE Save(w, task[w].status, "return")
  BY <1>1, KeepStatus, SaveStep DEF ClaimReturns
<1>2. CASE task' = [task EXCEPT ![w].pc = "commit", ![w].status = "claimed",
                                ![w].claim_txid = TRUE, ![w].next = "return"]
  <2> DEFINE t == [task[w] EXCEPT !.pc = "commit", !.status = "claimed",
                                  !.claim_txid = TRUE, !.next = "return"]
  <2>1. task[w] \in TaskStates /\ task[w].stream = "none" /\ lockup = "claimed"
    BY Shape DEF ClaimReturns, CopyFollows
  <2>2. /\ t \in TaskStates /\ t.pc = "commit" /\ t.status = "claimed"
        /\ t.claim_txid /\ t.stream = "none"
    BY Zenon, <2>1 DEF TaskStates, Statuses
  <2>3. task' = [task EXCEPT ![w] = t]
    BY Zenon, <1>2
  <2> HIDE DEF t
  <2>4. Quiet(w, t)
    BY <2>1, <2>2, <2>3 DEF ClaimReturns, Quiet, Fits, CopyFollows, Settled, NoLoss
  <2> QED
    BY <2>4, QuietStep, CountsKept DEF ClaimReturns
<1> QED
  BY <1>1, <1>2 DEF ClaimReturns

\* A recovery pass queues a message, or advances the swap itself.
LEMMA RecoverStep ==
    ASSUME SwapInv, NEW w \in Tasks, Recover(w)
    PROVE  SwapInv'
<1>1. CASE \E q \in Processes : task' = [task EXCEPT ![q] = [Idle EXCEPT !.pc = "queued"]]
  <2>1. PICK q \in Processes : task' = [task EXCEPT ![q] = [Idle EXCEPT !.pc = "queued"]]
    BY Zenon, <1>1
  <2>2. q \in Tasks
    BY DEF Tasks
  <2>3. Fits(q, [Idle EXCEPT !.pc = "queued"]) /\ [Idle EXCEPT !.pc = "queued"].pc = "queued"
    BY <2>2, PlainIdleFits DEF Idle
  <2>4. Quiet(q, [Idle EXCEPT !.pc = "queued"])
    BY <2>1, <2>3 DEF Recover, Quiet
  <2> QED
    BY <2>2, <2>4, QuietStep, CountsKept DEF Recover
<1>2. CASE row.status \notin Terminal /\ task' = [task EXCEPT ![w] = Loaded(w, "poll")]
  <2>1. Fits(w, Loaded(w, "poll")) /\ Loaded(w, "poll").pc = "poll"
    BY Zenon, <1>2, LoadedFits, Shape DEF Recover, Terminal, Loaded, TaskStates
  <2>2. Quiet(w, Loaded(w, "poll"))
    BY <1>2, <2>1 DEF Recover, Quiet
  <2> QED
    BY <2>2, QuietStep, CountsKept DEF Recover
<1> QED
  BY <1>1, <1>2 DEF Recover

\* A request counts against the bound on requests.
LEMMA RequestCounted ==
    ASSUME SwapInv, NEW w, NEW f, Asked(w, f), UNCHANGED crashes
    PROVE  crashes' \in 0..MaxCrashes /\ requests' \in 0..MaxRequests
BY SwapAssumption DEF SwapInv, ScalarTypes, Asked

\* The operator's requests start from a fresh copy of the row.
LEMMA RequestStep ==
    ASSUME SwapInv, NEW w \in Tasks, Request(w)
    PROVE  SwapInv'
<1>1. CASE CancelSwap(w)
  <2> DEFINE t == [Loaded(w, "commit") EXCEPT !.status = "cancelled"]
  <2>1. task[w] \in TaskStates /\ task[w].pc = "idle" /\ task[w].stream = "none"
        /\ row \in [status : Statuses, claim_txid : BOOLEAN] /\ RowFollows
    BY <1>1, Shape DEF CancelSwap, Asked, SwapInv, ScalarTypes
  <2>2. /\ t \in TaskStates /\ t.pc = "commit" /\ t.status = "cancelled"
        /\ t.stream = "none" /\ t.claim_txid = row.claim_txid
    BY Zenon, <2>1 DEF Loaded, TaskStates, Statuses, Terminal
  <2>3. task' = [task EXCEPT ![w] = t]
    BY <1>1 DEF CancelSwap
  <2> HIDE DEF t
  <2>4. Quiet(w, t)
    BY Zenon, <1>1, <2>1, <2>2, <2>3
    DEF CancelSwap, Quiet, Fits, RowFollows, CopyFollows, Settled, NoLoss
  <2> QED
    BY <1>1, <2>4, QuietStep, RequestCounted DEF CancelSwap
<1>2. CASE RetryCooperativeClaim(w)
  <2>1. Fits(w, Loaded(w, "lockup")) /\ Loaded(w, "lockup").pc = "lockup"
    BY Zenon, <1>2, LoadedFits, Shape DEF RetryCooperativeClaim, Asked, Loaded, TaskStates
  <2>2. Quiet(w, Loaded(w, "lockup"))
    BY <1>2, <2>1 DEF RetryCooperativeClaim, Quiet
  <2> QED
    BY <1>2, <2>2, QuietStep, RequestCounted DEF RetryCooperativeClaim
<1>3. CASE RetryUnilateralClaim(w)
  <2> DEFINE l == Loaded(w, "lockup")
             t == [l EXCEPT !.unilateral = TRUE]
  <2>1. Fits(w, l) /\ l.pc = "lockup"
    BY Zenon, <1>3, LoadedFits, Shape DEF RetryUnilateralClaim, Asked, Loaded, TaskStates
  <2>2. task' = [task EXCEPT ![w] = t]
    BY <1>3 DEF RetryUnilateralClaim
  <2> HIDE DEF l
  <2>3. /\ t \in TaskStates /\ t.pc = l.pc /\ t.status = l.status /\ t.next = l.next
        /\ t.stream = l.stream /\ t.claim_txid = l.claim_txid
    BY Zenon, <2>1 DEF Fits, TaskStates
  <2> HIDE DEF t
  <2>4. Quiet(w, t)
    BY Zenon, <1>3, <2>1, <2>2, <2>3
    DEF RetryUnilateralClaim, Quiet, Fits, CopyFollows, Settled, NoLoss
  <2> QED
    BY <1>3, <2>4, QuietStep, RequestCounted DEF RetryUnilateralClaim
<1> QED
  BY <1>1, <1>2, <1>3 DEF Request

-----------------------------------------------------------------------------
(* Steps that change the row or the world.                                 *)

\* A commit writes what the task's copy justifies; no claim can be running,
\* because the committing task has the lock or nobody has.
LEMMA CommitStep ==
    ASSUME SwapInv, NEW w \in Tasks, Commit(w)
    PROVE  SwapInv'
<1> DEFINE c == task[w]
           t == IF c.next = "idle" THEN Idle
                ELSE [c EXCEPT !.pc = c.next, !.base = c.status, !.next = "idle"]
<1>1. /\ c \in TaskStates /\ CopyFollows(c, lockup) /\ Settled(c) /\ c.pc = "commit"
      /\ c.stream = "none"
  BY Shape DEF Commit
<1>2. /\ task' = [task EXCEPT ![w] = t] /\ lock' = Nobody
      /\ UNCHANGED <<World, Counts>> /\ lock \in {Nobody, w}
      /\ row' = [status |-> IF c.status # c.base THEN c.status ELSE row.status,
                 claim_txid |-> row.claim_txid \/ c.claim_txid]
  BY DEF Commit
<1>3. /\ ScalarTypes /\ RowFollows /\ ChainAgrees /\ ClaimLocked
      /\ row \in [status : Statuses, claim_txid : BOOLEAN]
  BY DEF SwapInv, ScalarTypes
<1>4. /\ row' \in [status : Statuses, claim_txid : BOOLEAN]
      /\ row'.status \in {c.status, row.status}
      /\ row'.claim_txid = (row.claim_txid \/ c.claim_txid)
  BY <1>1, <1>2, <1>3 DEF TaskStates
<1>5. ScalarTypes' /\ ChainAgrees'
  BY <1>2, <1>3, <1>4 DEF ScalarTypes, ChainAgrees, World, Counts
<1>6. RowFollows'
  BY Zenon, <1>1, <1>2, <1>3, <1>4 DEF RowFollows, CopyFollows, World
<1>7. Fits(w, t) /\ t.pc \notin {"claim", "broadcast"}
  <2>1. CASE c.next = "idle"
    BY <2>1, IdleItself
  <2>2. CASE c.next # "idle"
    <3> DEFINE u == [c EXCEPT !.pc = c.next, !.base = c.status, !.next = "idle"]
    <3>1. /\ u \in TaskStates /\ u.pc = c.next /\ u.status = c.status /\ u.next = "idle"
          /\ u.stream = "none" /\ u.claim_txid = c.claim_txid
          /\ c.next \in {"send", "poll", "return"}
      BY Zenon, <1>1, <2>2 DEF TaskStates
    <3> HIDE DEF u
    <3>2. Fits(w, u)
      BY <1>1, <3>1 DEF Fits, CopyFollows, Settled, NoLoss
    <3> QED
      BY <2>2, <3>1, <3>2 DEF u
  <2> QED
    BY <2>1, <2>2
<1> HIDE DEF t
<1>8. DOMAIN task' = Tasks /\ task' = [v \in Tasks |-> task'[v]]
      /\ \A v \in Tasks : task'[v] = IF v = w THEN t ELSE task[v]
  BY <1>2 DEF SwapInv
<1>9. ClaimLocked'
  <2> SUFFICES ASSUME NEW v \in Tasks, Claiming(v)' PROVE FALSE
    BY DEF ClaimLocked
  <2>1. v # w /\ Claiming(v)
    BY <1>7, <1>8 DEF Claiming
  <2>2. lock = v
    BY <1>3, <2>1 DEF ClaimLocked
  <2> QED
    BY <1>2, <2>1, <2>2, SwapAssumption
<1>10. \A v \in Tasks : Fits(v, task'[v])
  BY <1>7, <1>8 DEF SwapInv
<1>11. \A v \in Tasks : Fits(v, task[v])'
  BY <1>2, <1>10 DEF Fits, NoLoss, World
<1> QED
  BY <1>5, <1>6, <1>8, <1>9, <1>11 DEF SwapInv

\* A payment is made by a task that has no other verdict pending.
LEMMA SendPaymentStep ==
    ASSUME SwapInv, NEW w \in Tasks, SendPayment(w)
    PROVE  SwapInv'
<1>1. CASE Save(w, task[w].status, "poll") /\ UNCHANGED <<pay, payer>>
  <2>1. UNCHANGED <<row, lock, World, Counts>>
    BY <1>1 DEF SendPayment, World
  <2> QED
    BY <1>1, <2>1, KeepStatus, SaveStep DEF SendPayment
<1>2. CASE /\ pay \in {"none", "failed"} /\ pay' = "inflight" /\ payer' = w
           /\ task' = [task EXCEPT ![w].pc = "streaming", ![w].stream = "open"]
  <2> DEFINE t == [task[w] EXCEPT !.pc = "streaming", !.stream = "open"]
  <2>1. /\ task[w] \in TaskStates /\ CopyFollows(task[w], lockup) /\ task[w].status # "failed"
    BY Shape DEF SendPayment, Settled
  <2>2. /\ t \in TaskStates /\ t.pc = "streaming" /\ t.stream = "open"
        /\ t.status = task[w].status /\ t.claim_txid = task[w].claim_txid
    BY Zenon, <2>1 DEF TaskStates
  <2>3. task' = [task EXCEPT ![w] = t]
    BY Zenon, <1>2
  <2> HIDE DEF t
  <2>4. UNCHANGED <<row, lock, boltz, lockup, height, buried, Counts>>
    BY DEF SendPayment
  <2>5. ScalarTypes' /\ ChainAgrees' /\ RowFollows'
    BY <1>2, <2>4 DEF SwapInv, ScalarTypes, ChainAgrees, RowFollows, Counts
  <2>6. DOMAIN task' = Tasks /\ task' = [v \in Tasks |-> task'[v]]
        /\ \A v \in Tasks : task'[v] = IF v = w THEN t ELSE task[v]
    BY <2>3 DEF SwapInv
  <2>7. ClaimLocked'
    BY <2>2, <2>4, <2>6 DEF SwapInv, ClaimLocked, Claiming
  <2>8. Fits(w, task[w])'
    BY <2>1, <2>2, <2>4, <2>6 DEF Fits, CopyFollows, Settled, NoLoss
  <2>9. ASSUME NEW v \in Tasks, v # w PROVE Fits(v, task[v])'
    <3>1. Fits(v, task[v]) /\ task'[v] = task[v] /\ payer' # v
      BY <1>2, <2>6, <2>9 DEF SwapInv
    <3> QED
      BY <2>4, <3>1 DEF Fits, NoLoss
  <2> QED
    BY <2>5, <2>6, <2>7, <2>8, <2>9 DEF SwapInv
<1> QED
  BY <1>1, <1>2 DEF SendPayment

\* A copy that rests on no claim and no refund survives the first of either.
LEMMA ChainMoves ==
    ASSUME NEW x, NEW old \in {"none", "locked"}, NEW new, CopyFollows(x, old)
    PROVE  CopyFollows(x, new)
BY DEF CopyFollows

\* The claim script moves the lockup output, once.
LEMMA RunClaimStep ==
    ASSUME SwapInv, NEW w \in Tasks, RunClaim(w)
    PROVE  SwapInv'
<1>1. CASE Save(w, task[w].status, "return") /\ UNCHANGED lockup
  <2>1. UNCHANGED <<row, lock, World, Counts>>
    BY <1>1 DEF RunClaim, World
  <2> QED
    BY <1>1, <2>1, KeepStatus, SaveStep DEF RunClaim
<1>2. CASE lockup = "locked" /\ lockup' = "claimed" /\ Goto(w, "broadcast")
  <2> DEFINE t == [task[w] EXCEPT !.pc = "broadcast"]
  <2>1. /\ task[w] \in TaskStates /\ CopyFollows(task[w], lockup) /\ task[w].status # "failed"
        /\ task[w].stream = "none" /\ Claiming(w)
    BY Shape DEF RunClaim, Settled, Claiming
  <2>2. /\ t \in TaskStates /\ t.pc = "broadcast" /\ t.stream = "none"
        /\ t.status = task[w].status /\ t.claim_txid = task[w].claim_txid
    BY <2>1 DEF TaskStates
  <2>3. task' = [task EXCEPT ![w] = t]
    BY <1>2 DEF Goto
  <2> HIDE DEF t
  <2>4. UNCHANGED <<row, lock, pay, payer, boltz, height, buried, Counts>>
    BY DEF RunClaim
  <2>5. ScalarTypes' /\ ChainAgrees' /\ RowFollows'
    BY <1>2, <2>4 DEF SwapInv, ScalarTypes, ChainAgrees, RowFollows, Counts
  <2>6. DOMAIN task' = Tasks /\ task' = [v \in Tasks |-> task'[v]]
        /\ \A v \in Tasks : task'[v] = IF v = w THEN t ELSE task[v]
    BY <2>3 DEF SwapInv
  <2>7. ClaimLocked'
    BY <2>1, <2>4, <2>6 DEF SwapInv, ClaimLocked, Claiming
  <2>8. Fits(w, task[w])'
    BY <1>2, <2>1, <2>2, <2>4, <2>6 DEF Fits, CopyFollows, Settled, NoLoss
  <2>9. ASSUME NEW v \in Tasks, v # w PROVE Fits(v, task[v])'
    <3>1. Fits(v, task[v]) /\ task'[v] = task[v]
      BY <2>6, <2>9 DEF SwapInv
    <3>2. CopyFollows(task[v], lockup')
      BY <1>2, <3>1, ChainMoves DEF Fits
    <3> QED
      BY <2>4, <3>1, <3>2 DEF Fits, NoLoss
  <2> QED
    BY <2>5, <2>6, <2>7, <2>8, <2>9 DEF SwapInv
<1> QED
  BY <1>1, <1>2 DEF RunClaim

\* Boltz and the chain move, and no task does.
LEMMA WorldMoves ==
    ASSUME SwapInv, UNCHANGED <<row, lock, task, pay, payer>>, ScalarTypes', ChainAgrees',
           lockup' # lockup => lockup \in {"none", "locked"},
           boltz = "swap.expired" => boltz' = boltz
    PROVE  SwapInv'
<1>1. RowFollows' /\ ClaimLocked'
  BY DEF SwapInv, RowFollows, ClaimLocked, Claiming
<1>2. ASSUME NEW v \in Tasks PROVE Fits(v, task[v])'
  <2>1. Fits(v, task[v])
    BY DEF SwapInv
  <2>2. CopyFollows(task[v], lockup')
    BY <2>1, ChainMoves DEF Fits
  <2> QED
    BY <2>1, <2>2 DEF Fits, NoLoss
<1> QED
  BY <1>1, <1>2 DEF SwapInv

\* LND's verdict reaches every stream that is open.
LEMMA PaymentEndsStep ==
    ASSUME SwapInv, NEW verdict \in {"failed", "succeeded"}, PaymentEnds(verdict),
           verdict = "succeeded" => boltz = "invoice.settled"
    PROVE  SwapInv'
<1>1. /\ pay' = verdict /\ UNCHANGED <<row, lock, payer, boltz, lockup, height, buried, Counts>>
  BY DEF PaymentEnds
<1>2. ScalarTypes' /\ ChainAgrees' /\ RowFollows'
  BY <1>1 DEF SwapInv, ScalarTypes, ChainAgrees, RowFollows, Counts
<1>3. /\ DOMAIN task' = Tasks /\ task' = [v \in Tasks |-> task'[v]]
      /\ \A v \in Tasks : task'[v] = IF task[v].stream = "open"
                                     THEN [task[v] EXCEPT !.stream = verdict] ELSE task[v]
  BY DEF PaymentEnds
<1>4. ASSUME NEW v \in Tasks
      PROVE  /\ task'[v] \in TaskStates /\ task'[v].pc = task[v].pc /\ task'[v].next = task[v].next
             /\ task'[v].status = task[v].status /\ task'[v].claim_txid = task[v].claim_txid
             /\ task'[v].tries = task[v].tries
             /\ task[v].stream = "none" => task'[v].stream = "none"
  BY <1>3, Shape DEF TaskStates
<1>5. ClaimLocked'
  BY <1>1, <1>4 DEF SwapInv, ClaimLocked, Claiming
<1>6. ASSUME NEW v \in Tasks PROVE Fits(v, task[v])'
  <2> DEFINE t == task[v]
             u == task'[v]
  <2>1. CopyFollows(t, lockup) /\ Settled(t) /\ NoLoss(v, t)
    BY Shape
  <2>2. /\ u \in TaskStates /\ u.pc = t.pc /\ u.next = t.next /\ u.status = t.status
        /\ u.claim_txid = t.claim_txid /\ (t.stream = "none" => u.stream = "none")
        /\ u.tries = t.tries
    BY <1>4
  <2>3. CopyFollows(u, lockup') /\ Settled(u)
    BY <1>1, <2>1, <2>2 DEF CopyFollows, Settled
  <2>4. pay' # "inflight"
    BY <1>1
  <2> QED
    BY <2>2, <2>3, <2>4 DEF Fits, NoLoss
<1> QED
  BY <1>2, <1>3, <1>5, <1>6 DEF SwapInv

\* Boltz, LND and the chain keep the invariant.
LEMMA EnvironmentStep ==
    ASSUME SwapInv, Environment
    PROVE  SwapInv'
<1>0. ScalarTypes /\ ChainAgrees
  BY DEF SwapInv
<1>1. CASE BoltzLocksUp
  BY <1>0, <1>1, WorldMoves DEF BoltzLocksUp, ScalarTypes, ChainAgrees, Counts
<1>2. CASE BoltzGivesUp
  BY <1>0, <1>2, WorldMoves DEF BoltzGivesUp, ScalarTypes, ChainAgrees, Counts
<1>3. CASE BoltzSettles
  BY <1>0, <1>3, WorldMoves DEF BoltzSettles, ScalarTypes, ChainAgrees, Counts
<1>4. CASE TimeoutPasses
  BY <1>0, <1>4, WorldMoves DEF TimeoutPasses, ScalarTypes, ChainAgrees, Counts
<1>5. CASE BoltzRefunds
  BY <1>0, <1>5, WorldMoves DEF BoltzRefunds, ScalarTypes, ChainAgrees, Counts
<1>6. CASE ClaimIsBuried
  BY <1>0, <1>6, WorldMoves DEF ClaimIsBuried, ScalarTypes, ChainAgrees, Counts
<1>7. CASE PaymentFails
  BY <1>7, PaymentEndsStep DEF PaymentFails
<1>8. CASE PaymentSucceeds
  BY <1>8, PaymentEndsStep DEF PaymentSucceeds
<1> QED
  BY <1>1, <1>2, <1>3, <1>4, <1>5, <1>6, <1>7, <1>8 DEF Environment

-----------------------------------------------------------------------------
(* The invariant is inductive, and implies the properties.                 *)

\* create_reverse_swap leaves a swap that satisfies it.
LEMMA SwapInvInit == Init => SwapInv
<1> SUFFICES ASSUME Init PROVE SwapInv
  OBVIOUS
<1> DEFINE Queued == [Idle EXCEPT !.pc = "queued"]
<1>1. PICK sent : task = [w \in Tasks |-> IF w \in sent THEN Queued ELSE Idle]
  BY DEF Init
<1>2. /\ DOMAIN task = Tasks /\ task = [w \in Tasks |-> task[w]]
      /\ \A w \in Tasks : task[w] = Queued \/ task[w] = Idle
  <2> HIDE DEF Queued
  <2> QED
    BY <1>1
<1>3. ScalarTypes /\ ChainAgrees /\ RowFollows
  <2>1. /\ row.status = "created" /\ row.claim_txid = FALSE
        /\ row \in [status : Statuses, claim_txid : BOOLEAN]
    BY DEF Init, Statuses, Unpaid
  <2>2. 0 \in 0..MaxCrashes /\ 0 \in 0..MaxRequests
    BY SwapAssumption
  <2> QED
    BY Zenon, <2>1, <2>2 DEF Init, ScalarTypes, ChainAgrees, RowFollows
<1> DEFINE Fresh(t) == /\ t \in TaskStates /\ t.pc \in {"idle", "queued"} /\ t.status = "created"
                       /\ t.claim_txid = FALSE /\ t.stream = "none"
<1>4. \A w \in Tasks : Fresh(task[w])
  <2>1. 0 \in 0..MaxRetries
    BY SwapAssumption
  <2>2. Fresh(Idle)
    BY <2>1 DEF Idle, TaskStates, Statuses, Unpaid
  <2>3. Queued \in TaskStates
    BY <2>2 DEF TaskStates
  <2>4. Fresh(Queued)
    BY <2>3 DEF Idle
  <2> HIDE DEF Fresh, Queued
  <2> QED
    BY <1>2, <2>2, <2>4
<1>5. ClaimLocked
  BY <1>4 DEF ClaimLocked, Claiming
<1>6. \A w \in Tasks : Fits(w, task[w])
  BY <1>4 DEF Fits, CopyFollows, Settled, NoLoss
<1> QED
  BY <1>2, <1>3, <1>5, <1>6 DEF SwapInv

\* Every step keeps it.
LEMMA SwapInvNext == SwapInv /\ [Next]_vars => SwapInv'
<1> SUFFICES ASSUME SwapInv, [Next]_vars PROVE SwapInv'
  OBVIOUS
<1>1. ASSUME NEW w \in Tasks, Step(w) PROVE SwapInv'
  BY <1>1, CommitStep, LockTimeoutStep, StartProcessStep, LookupPaymentStep, SendPaymentStep,
     StreamEndsStep, ReturnStep, MarkSwapFailedStep, PollAnsweredStep, PollFailedStep, BackfillStep,
     ConfirmationsStep, FetchLockupStep, LockRowStep, RunClaimStep, ClaimReturnsStep
  DEF Step
<1>2. ASSUME NEW w \in Tasks, Recover(w) \/ Request(w) \/ Crash(w) PROVE SwapInv'
  BY <1>2, RecoverStep, RequestStep, CrashStep
<1>3. CASE Environment
  BY <1>3, EnvironmentStep
<1>4. CASE UNCHANGED vars
  <2>1. /\ UNCHANGED <<row, lock, task, pay, payer>> /\ UNCHANGED <<boltz, lockup, height, buried>>
        /\ UNCHANGED <<crashes, requests>>
    BY <1>4 DEF vars
  <2>2. ScalarTypes' /\ ChainAgrees'
    BY <2>1 DEF SwapInv, ScalarTypes, ChainAgrees
  <2> QED
    BY <2>1, <2>2, WorldMoves
<1> QED
  BY <1>1, <1>2, <1>3, <1>4 DEF Next

\* So it holds throughout.
LEMMA SwapInvHolds == Spec => []SwapInv
BY SwapInvInit, SwapInvNext, PTL DEF Spec

\* For any number of messages, recovery passes and operator requests every
\* variable keeps its type, and no message exceeds max_retries.
THEOREM SwapTypes == Spec => []TypeOK
<1>1. SwapInv => TypeOK
  <2> SUFFICES ASSUME SwapInv PROVE TypeOK
    OBVIOUS
  <2>1. task = [w \in Tasks |-> task[w]] /\ \A w \in Tasks : task[w] \in TaskStates
    BY DEF SwapInv, Fits
  <2>2. task \in [Tasks -> TaskStates]
    BY <2>1
  <2> QED
    BY <2>2 DEF SwapInv, ScalarTypes, TypeOK
<1> QED
  BY <1>1, SwapInvHolds, PTL

\* At most one claim script runs for a swap, and none after a recorded claim:
\* the FOR UPDATE guard holds against any number of tasks, crashes included.
THEOREM ClaimsAreExclusive == Spec => []OneClaimScript
<1>1. SwapInv => OneClaimScript
  BY DEF SwapInv, ClaimLocked, OneClaimScript
<1> QED
  BY <1>1, SwapInvHolds, PTL

\* The swap's row never records a claim, completion or refund that did not
\* happen on chain, whichever stale copies are committed.
THEOREM RowNeverAhead == Spec => []RowFollowsChain
<1>1. SwapInv => RowFollowsChain
  BY DEF SwapInv, RowFollows, ChainAgrees, RowFollowsChain
<1> QED
  BY <1>1, SwapInvHolds, PTL

\* A task fails the swap over a payment it made that may still go through only
\* on Boltz's word, or when its message has no retry left.
THEOREM PaymentsAreWatched == Spec => []OwnPaymentNotAbandoned
<1>1. SwapInv => OwnPaymentNotAbandoned
  BY DEF SwapInv, Fits, Settled, NoLoss, OwnPaymentNotAbandoned
<1> QED
  BY <1>1, SwapInvHolds, PTL

-----------------------------------------------------------------------------
(* The detailed swap implements SwapPromise.                               *)

\* A copy whose status is CREATED was loaded as CREATED: nothing sets it.
FirstStatus == \A w \in Tasks : task[w].status = "created" => task[w].base = "created"

\* No step undoes a claim or a refund on chain, or forgets a recorded txid.
LEMMA Monotone ==
    ASSUME SwapInv, FirstStatus, [Next]_vars
    PROVE  /\ lockup \in {"claimed", "refunded"} => lockup' = lockup
           /\ row.claim_txid => row'.claim_txid
           /\ row'.status = "created" => row.status = "created"
<1>0. ScalarTypes
  BY DEF SwapInv
<1>1. CASE UNCHANGED vars
  BY <1>1 DEF vars
<1>2. CASE Environment
  BY <1>2 DEF Environment, BoltzLocksUp, BoltzGivesUp, BoltzSettles, TimeoutPasses, BoltzRefunds,
              ClaimIsBuried, PaymentFails, PaymentSucceeds, PaymentEnds, SwapInv, ChainAgrees
<1>3. ASSUME NEW w \in Tasks, Commit(w)
      PROVE  /\ UNCHANGED lockup /\ (row.claim_txid => row'.claim_txid)
             /\ row'.status = "created" => row.status = "created"
  BY Zenon, <1>0, <1>3 DEF Commit, World, FirstStatus
<1>4. ASSUME NEW w \in Tasks, RunClaim(w)
      PROVE  UNCHANGED row /\ (lockup \in {"claimed", "refunded"} => lockup' = lockup)
  BY <1>4 DEF RunClaim
<1>5. ASSUME NEW w \in Tasks, Recover(w) \/ Request(w) \/ Crash(w) PROVE UNCHANGED <<row, lockup>>
  BY <1>5 DEF Recover, Request, CancelSwap, RetryCooperativeClaim, RetryUnilateralClaim, Crash, World
<1>6. ASSUME NEW w \in Tasks,
             \/ LockTimeout(w) \/ StartProcess(w) \/ LookupPayment(w) \/ SendPayment(w)
             \/ StreamEnds(w) \/ Return(w) \/ MarkSwapFailed(w)
      PROVE  UNCHANGED <<row, lockup>>
  BY SMTT(30), <1>6 DEF LockTimeout, StartProcess, LookupPayment, SendPayment, StreamEnds, Return,
              MarkSwapFailed, World
<1>7. ASSUME NEW w \in Tasks,
             \/ PollAnswered(w) \/ PollFailed(w) \/ Backfill(w) \/ Confirmations(w)
             \/ FetchLockup(w) \/ LockRow(w) \/ ClaimReturns(w)
      PROVE  UNCHANGED <<row, lockup>>
  BY <1>7 DEF PollAnswered, PollFailed, Backfill, Confirmations, FetchLockup, LockRow, ClaimReturns,
              World
<1> QED
  BY <1>1, <1>2, <1>3, <1>4, <1>5, <1>6, <1>7 DEF Next, Step

\* What the readers of the row see is always truthful.
LEMMA OfferedIsTruthful ==
    ASSUME SwapInv
    PROVE  /\ Offered \in Promise!SwapRows
           /\ Offered.status # "none"
           /\ Promise!Truthful(Offered)
BY DEF SwapInv, ScalarTypes, RowFollows, Offered, Promise!SwapRows, Promise!SwapStatuses,
       Promise!SwapEnded, Promise!Truthful, Statuses, Unpaid, Terminal

\* The same of the next state.
LEMMA OfferedNext ==
    ASSUME SwapInv'
    PROVE  /\ Offered' \in Promise!SwapRows
           /\ Offered'.status # "none"
           /\ Promise!Truthful(Offered')
BY DEF SwapInv, ScalarTypes, RowFollows, Offered, Promise!SwapRows, Promise!SwapStatuses,
       Promise!SwapEnded, Promise!Truthful, Statuses, Unpaid, Terminal

\* FirstStatus is inductive: every step of a task keeps the status, loads it
\* together with its base, or sets another one.
LEMMA FirstStatusKept ==
    ASSUME SwapInv, FirstStatus, [Next]_vars
    PROVE  FirstStatus'
<1>0. /\ DOMAIN task = Tasks
      /\ \A w \in Tasks : task[w] \in TaskStates
  BY DEF SwapInv, Fits
<1>1. CASE UNCHANGED task
  BY <1>1 DEF FirstStatus
<1>2. CASE Environment
  BY <1>0, <1>2 DEF Environment, BoltzLocksUp, BoltzGivesUp, BoltzSettles, TimeoutPasses, BoltzRefunds,
              ClaimIsBuried, PaymentFails, PaymentSucceeds, PaymentEnds, FirstStatus, TaskStates
<1>3. ASSUME NEW w \in Tasks, Commit(w) PROVE FirstStatus'
  BY <1>0, <1>3 DEF Commit, FirstStatus, TaskStates, Idle
<1>4. ASSUME NEW w \in Tasks, RunClaim(w) PROVE FirstStatus'
  BY <1>0, <1>4 DEF RunClaim, Save, Goto, FirstStatus, TaskStates
<1>5. ASSUME NEW w \in Tasks, NEW t, task' = [task EXCEPT ![w] = t],
             t.status = "created" => t.base = "created"
      PROVE  FirstStatus'
  BY <1>0, <1>5 DEF FirstStatus
<1>6. ASSUME NEW w \in Tasks, NEW p
      PROVE  /\ Loaded(w, p).status = row.status /\ Loaded(w, p).base = row.status
             /\ [Loaded(w, p) EXCEPT !.status = "cancelled"].status = "cancelled"
             /\ LET t == [Loaded(w, p) EXCEPT !.status = "paying_invoice", !.next = "send"]
                IN t.status = "paying_invoice"
             /\ [Loaded(w, p) EXCEPT !.status = "failed", !.next = "idle"].status = "failed"
             /\ LET t == [Loaded(w, p) EXCEPT !.unilateral = TRUE]
                IN t.status = row.status /\ t.base = row.status
  BY <1>0 DEF Loaded, TaskStates
<1>7. /\ Idle.base = "created"
      /\ \A p : [Idle EXCEPT !.pc = p].base = "created"
      /\ \A p, n : [Idle EXCEPT !.pc = p, !.tries = n].base = "created"
  BY DEF Idle
<1>13. ASSUME NEW w \in Tasks, Recover(w) PROVE FirstStatus'
  <2>1. CASE task' = [task EXCEPT ![w] = Loaded(w, "poll")]
    BY ZenonT(60), <2>1, <1>5, <1>6
  <2>2. ASSUME NEW q \in Processes, task' = [task EXCEPT ![q] = [Idle EXCEPT !.pc = "queued"]]
        PROVE  FirstStatus'
    <3>1. q \in Tasks
      BY DEF Tasks
    <3>2. [Idle EXCEPT !.pc = "queued"].base = "created"
      BY <1>7
    <3> QED
      BY Zenon, <3>1, <3>2, <2>2, <1>5
  <2> QED
    BY <2>1, <2>2, <1>13 DEF Recover
<1>14. ASSUME NEW w \in Tasks, Crash(w) \/ LockTimeout(w) PROVE FirstStatus'
  <2>1. CASE task' = [task EXCEPT ![w] = Idle]
    BY Zenon, <2>1, <1>5, <1>7
  <2>2. CASE task' = [task EXCEPT ![w] = [Idle EXCEPT !.pc = "queued", !.tries = task[w].tries]]
    BY Zenon, <2>2, <1>5, <1>7
  <2> QED
    BY <2>1, <2>2, <1>14 DEF Crash, LockTimeout
<1>15. ASSUME NEW w \in Tasks, Request(w) PROVE FirstStatus'
  <2> DEFINE cancelled == [Loaded(w, "commit") EXCEPT !.status = "cancelled"]
             coop == Loaded(w, "lockup")
             alone == [Loaded(w, "lockup") EXCEPT !.unilateral = TRUE]
  <2>1. cancelled.status = "cancelled" /\ coop.status = coop.base /\ alone.status = alone.base
    BY <1>6
  <2>2. \E t \in {cancelled, coop, alone} : task' = [task EXCEPT ![w] = t]
    BY <1>15 DEF Request, CancelSwap, RetryCooperativeClaim, RetryUnilateralClaim
  <2> HIDE DEF cancelled, coop, alone
  <2> QED
    BY Zenon, <2>1, <2>2, <1>5
<1>16. ASSUME NEW w \in Tasks, StartProcess(w) PROVE FirstStatus'
  <2> DEFINE paying == [Loaded(w, "commit") EXCEPT !.status = "paying_invoice", !.next = "send"]
             found == Loaded(w, IF row.status = "paying_invoice" THEN "lookup" ELSE "poll")
  <2>1. paying.status = "paying_invoice" /\ found.status = found.base /\ Idle.base = "created"
    BY <1>6, <1>7
  <2>2. \E t \in {Idle, paying, found} : task' = [task EXCEPT ![w] = t]
    BY Zenon, <1>16 DEF StartProcess
  <2> HIDE DEF paying, found
  <2> QED
    BY Zenon, <2>1, <2>2, <1>5
<1>8. ASSUME NEW w \in Tasks, LookupPayment(w) \/ SendPayment(w) \/ StreamEnds(w) PROVE FirstStatus'
  BY <1>0, <1>8 DEF LookupPayment, SendPayment, StreamEnds, Save, Goto, FirstStatus, TaskStates, Idle
<1>9. ASSUME NEW w \in Tasks, Return(w) PROVE FirstStatus'
  <2> DEFINE again == [Idle EXCEPT !.pc = "queued", !.tries = task[w].tries + 1]
             over == [Idle EXCEPT !.pc = "exhausted", !.tries = task[w].tries]
  <2>1. again.base = "created" /\ over.base = "created" /\ Idle.base = "created"
    BY <1>7
  <2>2. \E t \in {Idle, again, over} : task' = [task EXCEPT ![w] = t]
    BY Zenon, <1>9 DEF Return
  <2> HIDE DEF again, over
  <2> QED
    BY Zenon, <2>1, <2>2, <1>5
<1>17. ASSUME NEW w \in Tasks, MarkSwapFailed(w) PROVE FirstStatus'
  <2> DEFINE failed == [Loaded(w, "commit") EXCEPT !.status = "failed", !.next = "idle"]
  <2>1. failed.status = "failed" /\ Idle.base = "created"
    BY <1>6, <1>7
  <2>2. \E t \in {Idle, failed} : task' = [task EXCEPT ![w] = t]
    BY Zenon, <1>17 DEF MarkSwapFailed
  <2> HIDE DEF failed
  <2> QED
    BY Zenon, <2>1, <2>2, <1>5
<1>18. ASSUME NEW w \in Tasks, Backfill(w) PROVE FirstStatus'
  BY <1>0, <1>18 DEF Backfill, FirstStatus, TaskStates
<1>10. ASSUME NEW w \in Tasks, PollAnswered(w) \/ PollFailed(w) PROVE FirstStatus'
  BY <1>0, <1>10 DEF PollAnswered, PollFailed, Save, Goto, FirstStatus, TaskStates, Idle
<1>11. ASSUME NEW w \in Tasks, Confirmations(w) \/ FetchLockup(w) PROVE FirstStatus'
  BY <1>0, <1>11 DEF Confirmations, FetchLockup, Save, Goto, FirstStatus, TaskStates, Idle, Loaded
<1>12. ASSUME NEW w \in Tasks, LockRow(w) \/ ClaimReturns(w) PROVE FirstStatus'
  BY <1>0, <1>12 DEF LockRow, ClaimReturns, Save, Goto, FirstStatus, TaskStates, Idle, Loaded
<1> QED
  BY <1>1, <1>2, <1>3, <1>4, <1>8, <1>9, <1>10, <1>11, <1>12, <1>13, <1>14, <1>15, <1>16,
     <1>17, <1>18
  DEF Next, Step, vars

\* A swap driven by any number of messages, recovery passes and requests, with
\* crashes, implements the abstract swap that deposits and mixes are built on.
THEOREM SwapKeepsPromise == Spec => KeepsPromise
<1>0. Init => FirstStatus
  BY DEF Init, FirstStatus, Idle
<1>1. Init => Promise!SwapsInit
  BY DEF Init, Offered, Promise!SwapsInit, Promise!NewSwap, Promise!NoSwap
<1>2. SwapInv /\ SwapInv' /\ FirstStatus /\ [Next]_vars => [Promise!SwapsNext]_([i \in {"this"} |-> Offered])
  <2> SUFFICES ASSUME SwapInv, SwapInv', FirstStatus, [Next]_vars
               PROVE  Promise!SwapsNext
    OBVIOUS
  <2> DEFINE now == [i \in {"this"} |-> Offered]
             then == [i \in {"this"} |-> Offered']
  <2>1. /\ Offered' \in Promise!SwapRows /\ Offered'.status # "none"
        /\ Promise!Truthful(Offered')
    BY OfferedNext
  <2>2. Promise!Follows(Offered, Offered')
    BY <2>1, Monotone DEF Offered, Promise!Follows, Promise!TruthfulRows, Promise!SwapRows, SwapInv, ScalarTypes
  <2>3. now["this"] # Promise!NoSwap
    BY OfferedIsTruthful DEF Promise!NoSwap
  <2>4. then = [now EXCEPT !["this"] = Offered']
    OBVIOUS
  <2>5. Promise!Move("this")
    BY <2>1, <2>2, <2>3, <2>4 DEF Promise!Move, Promise!TruthfulRows
  <2> QED
    BY <2>5 DEF Promise!SwapsNext
<1> QED
  BY <1>0, <1>1, <1>2, SwapInvHolds, FirstStatusKept, PTL DEF Spec, KeepsPromise, Promise!SwapsSpec
=============================================================================
