# TLA+ models of anlapi

anlapi is a gateway in front of AI providers: users pay into an account, their
API keys are routed to upstream accounts, usage is billed against the balance.
The backend is one Go program (`backend/`), run as one or more instances over a
shared PostgreSQL database and Redis. This directory holds TLA+ models of the
parts where several goroutines, instances, the payment provider and the clock
meet on one row of the database or one key of Redis, the TLC configurations
that check them, and TLAPS proofs about the most important one.

## The system and its parts

| Part | State | Operations | Meets others through | What makes it correct |
|---|---|---|---|---|
| Payment orders and fulfilment (`service/payment_order*.go`, `payment_fulfillment.go`) | row of `payment_orders` (status, paid_at, updated_at as lease version), redeem code, audit rows | create, webhook, cancel, expire, verify, retry, manual fulfilment, stale sweep | provider calls and webhooks, redeem codes, subscriptions, affiliates | one grant per order, none without payment, COMPLETED is true and final, no order hangs |
| Refunds (`payment_refund.go`) | the same row, the balance, audit rows `REFUND_*`, a plan in memory | request, prepare, execute, roll back, mark pending, finalise | gateway, wallet, usage billing on the same balance | one refund at a time, one deduction, the user made whole when a refund ends without effect |
| Redeem codes (`redeem_service.go`) | row of `redeem_codes` | create, redeem | fulfilment and the user redeem the same code | used at most once |
| Idempotency (`idempotency.go`, `idempotency_repo.go`) | row of `idempotency_records` per scope and key | execute, reclaim, replay, cleanup | every write endpoint, the cleanup job | the effect happens once per life of the record, a replay is the right response |
| System operation lock (`system_operation_lock_service.go`) | one row of the same table, a renewing goroutine | acquire, renew, release | update, rollback, restart endpoints | one operation at a time |
| Concurrency slots (`concurrency_service.go`, `repository/concurrency_cache.go`, `handler/gateway_helper.go`, `openai_live.go`) | Redis sorted sets of slots and live leases, wait counter, index of active users | increment, acquire, poll, release, decrement, live lease, clean up | every gateway request, every instance that starts | limits hold, the queue is bounded, what the dead leave behind goes |
| Batch image jobs (`batch_image_*.go`, `repository/batch_image_queue.go`, `batch_image_repo.go`) | job row, Redis queue (list, two sorted sets, in-flight key), job lock, hold on the balance | submit, cancel, recovery scan, reserve, index, settle | provider's batch API, usage billing, workers of all instances | the price is charged or given back, never both; delivered only if charged; every queued job ends |
| Usage billing (`usage_billing_repo.go`, `billing_cache_service.go`) | dedup rows and their archive, wallets, ledgers, cached balance | apply, reserve, capture, release | gateway, batch images | each usage billed once |
| Message queue, token refresh, auth cache and scheduler outboxes, leader lock | queues, locks, caches | worker loops | Redis, database | listed in `PROJECT.json` |
| Gateway scheduling and forwarding, accounts, authentication, settings, operations, shop, carpool, frontend, plugins, generated `ent` code | | | | not modelled, with the reason in `PROJECT.json` |

What is hard here: handlers are sequences of single SQL statements without a
transaction around them, so every gap between two statements is an
interleaving; the provider delivers webhooks more than once, late, or races
them with its own answer to a query; leases are compared by `updated_at`; a
process may die between two statements; an answer of Redis or of the database
may be lost after the effect; periodic jobs (order expiry, record cleanup, lease
renewal, recovery scans) race all of it. `PROJECT.json` lists each such place
under `hazards`, with the property that would catch it.

## Modules

One actor of a model is one goroutine of some server instance, and one action
is one SQL statement or one call of the provider with the Go code up to the
next one. Actions have the names of the functions they model.

| Module | Models | Composition |
|---|---|---|
| `PaymentFulfillment` | one order from its insert to COMPLETED, with every handler that touches it | instantiated by `MCPaymentFulfillment`, proved about in `PaymentFulfillmentProofs` |
| `PaymentRefund` | the refund of one completed balance order | `MCPaymentRefund`, `PaymentRefundProofs` |
| `IdempotencyStore` | the statements of `idempotency_repo.go` as operators on a row | extended by the next two |
| `IdempotencyCoordinator` | `IdempotencyCoordinator.Execute` for the requests with one key | `MCIdempotency`, `IdempotencyCoordinatorProofs` |
| `SystemOperationLock` | `Acquire`, `renewLoop` and `Release` on the one lock row | `MCSystemOperationLock`, `SystemOperationLockProofs` |
| `BatchImageBilling` | the transactions of `usage_billing_repo.go` on a hold, as operators on a ledger | extended by `BatchImageJob` |
| `BatchImageQueue` | the scripts of `batch_image_queue.go`, as operators on a queue entry | extended by `BatchImageJob` |
| `BatchImageJob` | one batch job: `Submit`, `Cancel`, the recovery scan and the workers, over the two modules above | `MCBatchImageJob`, `BatchImageJobProofs` |
| `PrepaidBatch` | abstract: what a job promises the user who pays in advance | implemented by `BatchImageJob` (`KeepsContract`) |
| `ConcurrencySlots` | the gate of one user: slots, wait counter, live leases | `MCConcurrencySlots`, `ConcurrencySlotsProofs` |

### PaymentFulfillment

`status`, `paidAt`, `code`, `assigned`, `rebate` are columns or the presence of
rows. Time is relative: `age` is the time since `updated_at`, `clock` the time
since creation; both stop at the last value a guard tells apart (`AgeCap`,
`ClockCap`), so the model has no bound on time. `lease` is the set of workers
whose lease version equals the row's `updated_at`: every UPDATE empties it
(`Touch`), because ent's `UpdateDefault` sets a new `updated_at`; two updates
are assumed to get two different timestamps. `grants` is history: how often the
user got his due.

A handler is a worker with a program counter. `HandleNotify`, `CancelOrder`,
`ExpireTimedOutOrder`, `VerifyOrder`, `RetryFulfillment` and
`AdminManualFulfillOrder` start it; `QueryOrder` … `CancelCore` are
`checkPaid` and `cancelCore`; `ConfirmPayment`, `AlreadyProcessed` the webhook's
core; `ExecuteFulfillment`, `AcquireLease`, `LeaseMissed`, `ReloadLease` the
lease; `LookupCode`, `CreateCode`, `Redeem` `doBalance`; `CheckAssigned` and
`AssignSubscription` `doSub`; `ApplyRebate`, `MarkCompleted`,
`RecheckCompleted`, `MarkFailed` the end. `FailStaleRecharging` is the sweep of
the expiry job. The provider (`UserPays`) and the owner of the code
(`UserRedeem`) act on their own. `StepFails` and `QueryFailed` fail one call
where the code handles the error, `Crash` ends a goroutine anywhere.

Refund statuses do not occur in this module: `CompletedIsFinal` is about the
fulfilment handlers, and the refund of a COMPLETED order is the next module.

### PaymentRefund

`PrepareRefund` and `ExecuteRefund` run one after the other in one goroutine
with a plan in memory; `QueryAndFinalizeRefund` is the other call. `debit` is
history: what was taken from the balance for this order, less what was given
back. Audit rows are written by steps of their own that may fail, because the
code reads them again (`REFUND_ROLLBACK_FAILED`, `REFUND_SUCCESS`,
`deductionRollbackOK` in `REFUND_PENDING`), and the unique index on
(order, action) keeps the first row of a kind (`migrations/131`).

`tradeNo` says whether the order has a trade number, which each behaviour chooses
at the start: without one `gwRefund` reports success and the gateway is never
called, so only orders with one can promise that `REFUNDED` was paid out. The
gateway is external. It keeps, for each amount, the furthest a refund of that
amount has come: wxpay and airwallex make the refund's id from order and amount
(`wxpay.go:536-546`), so a retry with another amount is a second refund and one
with the same amount meets the first; stripe and alipay make a new refund at each
request. `GatewayAnswer` therefore lets a request get any answer, whatever an
earlier one got. `QueryRefund` asks for the refund named by the `REFUND_PENDING`
row, or for any if there is no row (label "queryBlind"). The order is a balance
order; deductions of subscription days are not modelled.

### IdempotencyStore, IdempotencyCoordinator, SystemOperationLock

A record is id, fingerprint, status, `locked_until`, `expires_at` and response;
NULL in `locked_until` is 0. The store's operators have the WHERE clauses of
the SQL (`CanReclaim`, `CanExtend`) and its SET clauses. The coordinator
executes the business operation as one step that has all of its effect or none;
`effectUntil` remembers how long the last effect should be protected by its
record, `call[r].until` what success the row held when a request arrived.
Response bodies are the payload they answer or "truncated". Requests without a
key are passed through without state and left out.

The lock's operations have ids of their own and are started once. `renewAt` is
the next tick of `renewLoop`, 0 once the loop has ended; `created` remembers
whether the operation inserted the row or took it over.

### BatchImageBilling, BatchImageQueue, BatchImageJob, PrepaidBatch

The ledger has the user's balance and frozen balance and, for each of the three
request ids of a job (hold, capture, release), where its claim row is: nowhere,
in the dedup table, or in the archive. Every operation is the transaction of the
code: claim first, then the UPDATE with its WHERE clause. The frozen balance is
shared with the user's other batches (`OtherFrozen`), which is why a second
release or a release after a capture would not be stopped by the statement
itself. The queue entry says how often the job is in the ready list, whether it
is in the delayed and in the active set, and whether the in-flight key exists.

In `BatchImageJob` each of the four parties has a program counter: `sub` for
`Submit` and its repetition under the same idempotency key, `can` for `Cancel`,
`rec` for `ReleaseStaleUnsubmittedOnce`, `pc[w]` for a worker from `Reserve` to
the release of the job lock. A call is one action with three outcomes
(operator `Call`): it succeeds, it is refused by its own condition, or it fails,
with or without its effect. What one job's images cost (`output`) becomes known
when the provider ends the job; a cost above the hold is possible because hold
and price have multipliers of their own, and stands for all the checks of
`Settle` that fail again at each retry. `stale` is the comparison of
`updated_at` with the recovery's cutoff. `outlived` is history: some worker's
heartbeats have failed for a whole lease while it worked.

`PrepaidBatch` has three variables: where the price is, whether the images are
delivered, and whether the system is orderly. The refinement mapping reads the
price from the claims of the ledger. Orderly means that no worker has outlived
its lease and that fewer calls have failed than a settlement has retries
(`batchImageSettlementMaxRetries`): the job lock is not a fencing token, and an
exhausted settlement releases without looking for a capture whose answer was
lost, so without this nothing more than the abstract `ChargeAndRefund` can be
promised.

### ConcurrencySlots

A sorted set is, for each client, the age of its member (`fresh`, `old` once past
its TTL, `gone` once Redis removed it without the client's knowledge), and the
number of members that belong to nobody. A step is one Lua script or one
command. A request is counted (`IncrementWaitCount`, or `IncrementFailsOpen`
when Redis fails), tries and polls for a slot, gives its count back, works and
releases; requests of the Responses API enter without being counted
(`EnterUncounted`). A live call takes a slot without waiting, then a lease with
one more place allowed for its own slot, then gives the slot back and keeps the
lease alive. Instances die (`InstanceDies`) and start
(`CleanupStaleProcessSlots`, which removes slots and counter of all other
processes). `stripped` and `miscounted` are history: whose slot or lease went
while it was held, and that the counter has missed a waiting request. The index
of active users, which only tells the cleanups where to look, is abstracted: a
cleanup may run for this user or not. When the client goes away,
`wrapReleaseOnDone` gives its slot back at once, while the handler may go on to
read the upstream, whose context is detached from the client's, to its end for
the usage: such a request is in "drain" until `EndDrain`. `WorkIsBounded` counts
the requests whose clients are still there; how many others drain, nothing in
the code bounds.

## Runs

All bounds are constants of the modules (`MaxFaults`, `MaxCrashes`,
`MaxClock`, `MaxClaim`, `MaxRun`, `MaxCalls`, `MaxSpend`, `MaxTrouble`) or the sets of
actors. Deadlock is not checked: an order, a refund, a job or an operation ends,
and the bounded models stop when time and faults are used up. Symmetry is used
only for safety.

| Run | Checks | Shows |
|---|---|---|
| `pay_admin` | `GrantedAtMostOnce` `GrantOnlyIfPaid` `CompletedIsSettled` `LeaseIsRespected` | webhook, retry and manual fulfilment race on a balance order, one fault, one crash |
| `pay_lifecycle` | `TypeOK` `GrantedAtMostOnce` `CompletedIsSettled` `CompletedIsFinal` `RechargingEnds` `PendingEnds` | webhook, cancel, expiry and verification race on a subscription order, one fault, fair scheduling |
| `refund_calls` | `TypeOK` `OneRefundAtATime` `UserIsWhole` `SequentialDeductsOnce` `RefundedWasPaidOut` `RefundedIsFinal` | up to four refund calls of two administrators, order with or without trade number, the user spends, one fault, one crash |
| `idem_reclaim` | `TypeOK` `OneExecutionAtATime` `ReplayIsOwnResponse` `RetryDoesNotRepeat` | two requests, two payloads, several lives of the record, cleanup, one fault, one crash |
| `lock_renew` | `TypeOK` `FreshLockIsKept` `FreshHolderIsAlone` | three operations, longer than the lease, one fault, one crash, cleanup |
| `batch_settle` | `TypeOK` `HoldEndsOnce` `BalanceIsExact` `ChargedIsDelivered` `RefundedIsDead` `QueuedIsNotLost` `QueuedJobEnds` `KeepsContract` | one job, two workers, two faults or crashes or one lost lease, fair scheduling |
| `slots_gate` | `TypeOK` `WorkIsBounded` `QueueIsBounded` `FullQueueHeals` `DeadSlotsGo` | two requests and a live call, concurrency one, two faults, deaths or starts of instances |

Why the bounds are enough to be interesting: two workers suffice for every
race of the payment modules, since they meet only on one row and each can be
restarted any number of times; all timeouts are one or two units, so stale
leases, expired orders and late webhooks all happen; amounts of 2 tell a
partial refund from a full one. In the lock model a lease of six units and a
renewal every two leaves room for one failed renewal, as in the code (a third
of the lease). That claims and executions are shorter than the timeouts
(`RequestTimeAssumption`, `RenewalAssumption`) and renewals on time are
assumptions about the environment: the code has no check against a request that
sleeps through them. That the backoff is above zero is checked by the code
(`config.go`, `validate`).

In `batch_settle` two workers suffice for a straggler and its successor, and
a cost of 1 or 3 against a hold of 2 lets the settlement succeed and exhaust its
retries; three retries against two faults keep the run within what `Orderly`
promises, and losing a lease, which takes a minute of failing heartbeats, uses
up both faults. With as many faults as retries (two of each, and three of each)
the invariants hold as well, `Orderly` being what they then depend on. In
`slots_gate` the TTL of the wait counter may be shorter than the wait
(`ShortWaitTTL`), which a configuration can cause; the safety properties were
also checked with concurrency two, and the refund's with two faults.

In `refund_calls` four calls (`MaxCalls`) let a first attempt, a retry and two
finalisations follow or overlap each other; a call that is refused at its first
read does not count.

The properties of the refund are conditional on two history variables:
`blemished`, an audit row that the code relies on was not written or not read,
and `overlapped`, a finalisation ran beside another call. Two of them have an
exception of their own. `UserIsWhole` does not speak of an order with a recorded
failed rollback, since there the deduction stays taken. `SequentialDeductsOnce`
covers such an order, but for `DeductionIsForgotten`, the sequence described
first under "Other observations", in which the code does deduct twice.

Several listed hazards are in the models but outside what a property promises,
because the code does not survive them: a payment during the expiry job's race,
the payment of a wrong amount, `CreateOrder`'s unguarded write, the cleanup of a
starting instance, draining requests, a settlement that has exhausted its
retries. `PROJECT.json` says so at each of them, and names the exception.

### Runs that end in a counterexample

Each states what a document, comment or test of the repository says, and TLC
shows a behaviour of the code that contradicts it (`findings` has the quotes).

| Run | Property | Behaviour |
|---|---|---|
| `pay_crash` | `PaidIsCredited` | the process dies between `toPaid` and the lease; the redelivered webhook is acknowledged and nobody fulfils the PAID order |
| `refund_double` | `DeductedAtMostOnce` | two finalisers deduct twice |
| `idem_expired` | `EffectIsNotRepeated` | two retries reclaim the same expired row one after the other |
| `lock_second` | `OneSystemOperation` | an operation that took the row over cannot renew it |
| `batch_cancel` | `RefundedIsNotRunning` | `Cancel` reads the job before `Submit` records the provider's job, and cancels and refunds after it, without asking the provider to stop |

### Other observations

The models contain further behaviours worth a reader's attention; no run is
devoted to them.

- A failed rollback and a pending retry deduct twice, with a single fault and
  without overlap. The first attempt deducts, the gateway refuses and
  `RollbackRefund` fails: the row `REFUND_ROLLBACK_FAILED` is written and the
  order is REFUND_FAILED. The retry finds the row and sets its deduction to 0;
  the gateway answers pending, `RollbackRefund` with nothing to roll back
  succeeds, and `markRefundPending` records `deductionRollbackOK = true`.
  `QueryAndFinalizeRefund` takes this for "nothing is taken" and deducts again.
  The comments at `payment_refund.go:253` ("Re-check/retry must not deduct user
  balance or subscription days again.") and at `:297-298` (skip the deduction
  after a failed rollback) say the contrary. `SequentialDeductsOnce` names this
  state `DeductionIsForgotten`; without that conjunct TLC finds the behaviour,
  and the proof of `DeductsOnce` shows that, calls in sequence and audit rows
  kept, there is no other.
- An order without a trade number is marked refunded without any call of the
  gateway (`gwRefund`), with only an audit row `REFUND_NO_TRADE_NO`.
- The unique index drops every `REFUND_PENDING` row but the first. If a later
  attempt of another amount is pending as well, the finalisation asks the gateway
  about the first refund and marks the amount of the later one:
  `RefundedWasPaidOut` allows for both amounts.
- `refundFinalizePlan` plans the deduction from the audit row alone: a refund
  that was asked for with `deduct_balance` false and left pending is deducted
  when it is finalised.
- A payment made between the expiry job's query and its UPDATE is credited only
  if the webhook comes within the grace period after it; otherwise
  `alreadyProcessed` acknowledges it without effect (`ConfirmPayment`, `Payable`).
- `acquirePaymentFulfillmentLease` reads the lease's version with a second
  statement (`ReloadLease`), so a worker delayed between the two may hold the
  version of the worker that took over and may fail that worker's order. The
  proofs show that no second grant and no false COMPLETED follows from it.
- If the first read of `confirmPayment` fails, the webhook is acknowledged as if
  the order did not exist (`StepFails`), and only the expiry job's query can still
  find the payment.
- An order whose payment `confirmPayment` rejects stays PENDING: `checkPaid`
  calls it paid, so the expiry job leaves it, and `RetryFulfillment` calls it
  unpaid. `PendingEnds` has this exception.
- `finalizeRefundFailed`, `restoreStatus` and `markRefundPending` write the
  status without a guard, so an old answer of the gateway may overwrite
  REFUNDED once finalisation runs beside a retry; `RefundedIsFinal` therefore
  leaves out overlapping calls. A finalisation that dies or fails between the
  deduction and the final status deducts again when it is repeated, also without
  overlap (`blemished`).
- With endless retries by an administrator each new lease may go stale in turn,
  and the order stays in RECHARGING; `RechargingEnds` is checked without retries.
- A pending refund gives its deduction back, and the plan of its retry has none:
  a retry that succeeds leaves the user both the refund and the balance.

- Batch images. A `Cancel` or recovery scan that releases before `Submit` has
  reserved claims the release id for nothing, and the hold that follows is
  released by nobody, although the comment in `batch_image_billing_hold.go`
  expects a hold under every release. A crash between the record of the
  provider's job and `Enqueue` leaves a submitted job that is in no queue until
  it is submitted again or cancelled; a crash in `Cancel` between transition and
  release, or the lost answer of a reserve or of the scan's UPDATE, leaves a dead
  job with its hold. `QueuedJobEnds` is about queued jobs for this reason. A
  straggler that finds the job `settling` acknowledges the entry of its
  successor, and one whose index fails can fail a job that was captured: why the
  money properties ask for leases. Any database error while indexing fails the
  job.
- Slots. The cleanup of an instance that starts takes slots and wait counts from
  instances that serve; its comment calls them those of dead processes. The one
  extra place of a live lease presupposes that the caller's own slot still
  exists. With a concurrency of two, two live calls created at once can refuse
  one of them although there is room. An acquire whose answer is lost holds a
  slot until its TTL. A refused increment does not renew the counter's TTL, and
  `FullQueueHeals` rests on that.

### Fairness

`FairSpec` of `PaymentFulfillment`: goroutines proceed, time passes, the expiry
job runs every minute (`payment_order_expiry_service.go`) and so both its parts
eventually act, and a provider redelivers a notification until it is answered
with success. Strong fairness is assumed only for the start of the expiry job's
work on the order and of a redelivered webhook: they have goroutines of their
own in the program, while the model lends them one of its few workers, which
other handlers may keep taking. Everything else is weak.

`FairSpec` of `BatchImageJob`: a submission goes on, workers proceed and reserve,
the delayed mover, the stale recovery and the recovery scan run
(`RunDelayedMover`, `RunStaleActiveRecovery`), time passes, the provider ends its
job. Nobody has to submit, cancel or submit again.

`FairSpec` of `ConcurrencySlots` has only time and Redis: members grow old and
keys expire. Requests may run for ever and no cleanup need come.

Users, administrators, faults and crashes owe nothing.

## Proofs

Every invariant and action property that a passing run checks is also a theorem,
for every value of the constants; so is the refinement of `PrepaidBatch`. Each
model has a module of proofs of its own. The argument is the same in all of
them: an inductive invariant `IInv`, which TLC has checked on the instances of
the runs, one lemma per part of it that goes through the actions, the theorem
`InductiveInvariant`, and the properties read off it. Lemmas about operators
(what a statement does to a row, a transaction to the ledger, a script to a
sorted set) keep the actions' proofs short. The assumptions are those named in
the modules; the ones that say more than the type of a constant are discussed
below.

### PaymentFulfillmentProofs

For every set of workers, mix of handlers, kind of order, timeouts and number of
faults and crashes. `IInv` has, beside the types:

- `GrantInv`: the number of grants is exactly what the used code or the audit
  row says, so the evidence the next attempt looks for is never missing or
  forged; it needs to know that balance steps occur only in balance orders;
- `PaidInv`: `paid_at` implies money or an administrator's word, PAID implies
  `paid_at`, and every worker past the checks works on an order with `paid_at`.
  It is the retry's test of `paid_at` and `toPaid`'s guard that carry it;
- `SettledInv`: a worker at the rebate has the grant behind it, a worker about
  to complete also the rebate: the order of the steps, not the lease, makes
  COMPLETED truthful, so two workers at once do no harm;
- `SeenInv`: an administrator never goes on with an order he read as COMPLETED,
  which is why his update on the status alone cannot reopen it.

`StatusWriters` lists who may change the status; `CompletedIsFinal` and
`LeaseIsRespected` are read off it.

### PaymentRefundProofs

For every set of administrators, amount and balance. `LockInv`: while
finalisations stay apart from other calls, REFUNDING is held by one goroutine
and a finalisation is alone with an order in REFUND_PENDING. `PaidOutInv`:
whoever is about to mark an order with a trade number refunded has the gateway's
success for its amount or for the row's.
`PlanInv`: a plan deducts at most the amount, and refunds at least one unit.
`RowInv`: as long as no audit row is lost and calls do not overlap (`Orderly`), a
pending order has its row or the goroutine that is about to write it, so a
finalisation asks about the refund the row names. `DebitInv` is in two parts:
while also no rollback has failed (`Clean`), `AccountInv` says what has been
deducted from the status and from where the one goroutine stands; once one has
failed, `KeptInv` says that no attempt deducts or gives back any more, so that
only a finalisation that goes by a row with `deductionRollbackOK`
(`DeductionIsForgotten`) can take more. `UserIsWhole` alone says nothing of an
attempt on its way, which is why it is not inductive. Most leaves are given more
time than the prover's default; the module takes some minutes.

### IdempotencyCoordinatorProofs

For every set of requests and payloads. `OwnerInv`: a row never changes its
fingerprint and ids do not return, so whoever claims, finishes or replays a row
has its payload; this alone gives `ReplayIsOwnResponse`, without any assumption
on time. `HoldInv`: the row of a request that executes is as its claim left it,
and a rival that took an older state for expired started too early to reclaim it.
`RetryInv`: while the success that a retry has met is valid, the row is that
success or was taken over after the retry arrived. The last two need
`RequestTimeAssumption`: `MaxClaim < ProcessingTimeout`, `2 * MaxClaim < TTL`,
`MaxRun < TTL`. The defaults of the two timeouts are 30 seconds and 24 hours.

### SystemOperationLockProofs

For every set of operations, lease, duration and time to live. `FreshInv`: the
lease of an operation that inserted its row ends later than its next renewal by
what failed renewals and a slow claim leave of it, the row lives as long as its
lease, and nobody else knows its id, so a `TryReclaim` prepared before cannot
hit it. `RenewalAssumption`, `(MaxFaults + 1) * RenewInterval + MaxClaim <
Lease`, says that they leave something. The code renews after a third of the
lease, so the assumption allows one failure and a claim below a third of the
lease. `MaxFaults` counts failures over the whole behaviour; failures that are
far apart would be harmless, but the model does not tell them apart.

### BatchImageJobProofs

For every set of workers, hold, cost, balance and number of retries, faults,
crashes and lost leases. Lemmas say what `Reserve`, `Capture`, `Release` and the
archiving do to claims and balances. `NameInv` ties `provider_job_name` to the
reserved hold and to Submit's progress; `DeadInv`, `SettleInv` and `ReturnInv`
say from where a hold is captured or given back; `BillInv` is the exact ledger;
`ExclusionInv` is what the job lock gives while no worker has outlived its
lease; `RetryInv` bounds the retries of a settlement that the hold covers by the
failures so far, so that an orderly system never exhausts one; `MoneyInv`
concludes that what is captured does not fail and what is given back is not
captured. `BalanceIsExact`, `QueuedIsNotLost` and the first half of
`ChargedIsDelivered` need no orderly system. `ImplementsContract` maps every
action to a step of `PrepaidBatch` or a stutter.

The proof corrected one property. `RefundedIsDead` used to say that a job whose
hold went back is never completed. With a lost lease and enough other failures
that is false: one worker exhausts the retries and releases while the other, its
lease lost, captures and marks the job completed. TLC shows it as well once the
bounds allow one lost lease and four failures against two retries. The property
now claims this only of an orderly system, and that the job is not submitted,
running or indexing of every system.

### ConcurrencySlotsProofs

For every finite set of requests and live calls, concurrency, length of the
queue and number of failures. `HeldInv`: a client has a member in a set exactly
at the steps where it believes so, a removed one included, and whoever lost one
is in `stripped`; a request that drains has none and is not counted. `LoadInv`: slots and leases together belong to at most
`MaxConcurrency` clients that have lost nothing. Only a granted slot adds a
client (`LoadGrows`), and then the script has just counted all members of both
sets, the dead ones too; a lease goes to a client that has its slot or is in
`stripped`, so the one place more that `acquireLiveLeaseScript` allows is not an
additional client. `DeadInv` bounds the members that belong to nobody by the
failures. `QueueIsBounded` is inductive with the types: `QueueCases` lists the
four things a step can do to the queue.

### Left to TLC

Liveness under fairness is out of the prover's reach: `RechargingEnds`,
`PendingEnds`, `QueuedJobEnds`, `FullQueueHeals` and `DeadSlotsGo` are checked on
the instances of the runs only. So are the counterexamples.

## Not modelled

Within the modelled parts, each abstraction that leaves out a branch is named at
its definition: `QueryFailed` also stands for a paid answer with an unusable
amount that is not better when repeated; `Settle` leaves out the checks for a
missing API key or account, which `CreateBatchImageJob` stores and nothing clears;
the claim of a request id is one step in `BatchImageBilling`, and its archiving
(claims are kept for a year) comes when nobody works on the job. Left out as a
whole: the checks before an order is inserted, amounts and
currencies, providers' protocols, the choice of provider instances, a crash
inside `CreateOrder` itself; subscription deductions in refunds; business
operations that take partial effect under an idempotency key; clocks that differ
between instances; the week-long TTL of the queue's in-flight key, event rows,
cleanup of inputs and outputs and downloads of batch jobs; the statistics slots
of API keys, the WebSocket ingress lease, and account slots, which the service
has turned into no-ops.

Most of the repository's 700 000 lines hold no protocol a model could say
something about: the ORM code under `backend/ent` is generated; handlers,
settings, reports and the frontends move and format data; the gateway's adapters
translate between providers' formats; prices are decimal arithmetic inside one
transaction. The models cover the places where several actors meet on shared
state, which is a small part of the lines. `PROJECT.json` gives the reason for
every part of the system that has no module.

## Plan

1. Done: the payment order, refunds, idempotency, system lock, batch image jobs
   with their contract, the user's concurrency gate; theorems for every safety
   property of their runs.
2. Proofs: an abstract specification of the gate or of the payment order and its
   refinement; the lock with failures counted per lease.
3. The leader lock with its fallback from Redis to the database; several orders
   of one user against the pending limit.
4. Token refresh with rotating refresh tokens, auth cache and scheduler
   outboxes, the cached balance of usage billing.
