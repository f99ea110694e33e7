------------------------- MODULE PaymentFulfillment -------------------------
(* The life of one payment order, from its creation to its fulfilment:       *)
(* backend/internal/service/payment_order.go, payment_order_lifecycle.go,    *)
(* payment_fulfillment.go and redeem_service.go.                             *)
(*                                                                           *)
(* An order is one row of payment_orders.  Every handler (a webhook, a       *)
(* cancellation, the expiry job, an active verification, an administrator's  *)
(* retry or manual fulfilment) runs in a goroutine of some server instance   *)
(* and talks to the row through single SQL statements, so a handler is a     *)
(* process of its own (a Worker) with one step per statement or per call of  *)
(* the provider.  Rows of different orders never meet in these handlers.     *)
EXTENDS Integers, FiniteSets

CONSTANTS
    Worker,         \* goroutines that may run a handler of this order
    OrderType,      \* "balance" or "subscription"
    Jobs,           \* the kinds of handler that are invoked in this instance
    Cancelable,     \* does the provider implement CancelableProvider?
    OrderTTL,       \* order timeout (cfg.OrderTimeoutMin), in clock units
    Grace,          \* paymentGraceMinutes
    LeaseDuration,  \* paymentFulfillmentLeaseDuration
    MaxFaults,      \* bound: failed database or provider calls
    MaxCrashes      \* bound: goroutines that die between two steps

AllJobs == {"webhook", "cancel", "expire", "verify", "retry", "manual"}

ASSUME OrderTypeAssumption == OrderType \in {"balance", "subscription"}
ASSUME JobsAssumption == Jobs \subseteq AllJobs
ASSUME CancelableAssumption == Cancelable \in BOOLEAN
ASSUME TimeAssumption ==
    /\ OrderTTL \in Nat \ {0} /\ Grace \in Nat \ {0} /\ LeaseDuration \in Nat \ {0}
    /\ LeaseDuration <= Grace      \* both are five minutes in the code
ASSUME BoundAssumption == MaxFaults \in Nat /\ MaxCrashes \in Nat

VARIABLES
    status,    \* payment_orders.status
    paidAt,    \* payment_orders.paid_at IS NOT NULL
    age,       \* time since payment_orders.updated_at, saturating at AgeCap
    clock,     \* time since the order was created, saturating at ClockCap
    lease,     \* workers whose lease.version equals updated_at
    code,      \* the redeem code RechargeCode: "none", "unused", "used"
    assigned,  \* audit row SUBSCRIPTION_ASSIGNED exists
    rebate,    \* audit row AFFILIATE_REBATE_APPLIED or _SKIPPED exists
    grants,    \* times the user was given what the order pays for
    manual,    \* an administrator declared the order paid
    creating,  \* where the goroutine of CreateOrder stands
    provider,  \* the payment at the provider
    notice,    \* the provider has a success notification to deliver
    pc, job,   \* per worker: the next step, and the handler it belongs to
    seen,      \* per worker: the status AdminManualFulfillOrder has read
    faults, crashes

row == <<status, paidAt, age, lease>>
book == <<code, assigned, rebate, grants>>
bounds == <<faults, crashes>>
vars == <<row, book, bounds, clock, manual, creating, provider, notice, pc, job, seen>>

Status == {"PENDING", "PAID", "RECHARGING", "COMPLETED", "EXPIRED", "CANCELLED", "FAILED"}
Label == {"idle", "query", "close", "cancel", "persist", "confirm", "already", "exec",
          "acquire", "missed", "reload", "lookup", "createCode", "redeem", "assign",
          "assignTx", "rebate", "complete", "recheck", "fail", "manual"}

(* rechargingTimeout: the order timeout, but never below the grace period.   *)
RechargingTimeout == IF OrderTTL < Grace THEN Grace ELSE OrderTTL

AgeCap == IF RechargingTimeout > LeaseDuration + Grace
          THEN RechargingTimeout ELSE LeaseDuration + Grace
ClockCap == OrderTTL + Grace + 1

TypeOK ==
    /\ status \in Status /\ paidAt \in BOOLEAN
    /\ age \in 0..AgeCap /\ clock \in 0..ClockCap
    /\ lease \subseteq Worker
    /\ code \in {"none", "unused", "used"}
    /\ assigned \in BOOLEAN /\ rebate \in BOOLEAN /\ grants \in Nat
    /\ manual \in BOOLEAN /\ creating \in {"call", "save", "fail", "done"}
    /\ provider \in {"none", "open", "paid", "mispaid", "closed"} /\ notice \in BOOLEAN
    /\ pc \in [Worker -> Label]
    /\ job \in [Worker -> AllJobs \union {"none"}]
    /\ seen \in [Worker -> Status \union {"none"}]
    /\ faults \in 0..MaxFaults /\ crashes \in 0..MaxCrashes

(* CreateOrder has just committed createOrderInTx and is about to call the   *)
(* provider; no other handler knows the order yet.                           *)
Init ==
    /\ status = "PENDING" /\ paidAt = FALSE /\ age = 0 /\ clock = 0
    /\ lease = {}
    /\ code = "none" /\ assigned = FALSE /\ rebate = FALSE /\ grants = 0
    /\ manual = FALSE /\ creating = "call" /\ provider = "none" /\ notice = FALSE
    /\ pc = [w \in Worker |-> "idle"] /\ job = [w \in Worker |-> "none"]
    /\ seen = [w \in Worker |-> "none"]
    /\ faults = 0 /\ crashes = 0

-----------------------------------------------------------------------------
(* Every UPDATE of the row sets updated_at to the time of the statement (the *)
(* UpdateDefault of ent/schema/payment_order.go), so it invalidates the      *)
(* version of every lease that was read before it.  Timestamps have          *)
(* microseconds: two updates are assumed to get two different ones.          *)
Touch == age' = 0 /\ lease' = {}
SetStatus(s) == status' = s /\ Touch
RowUnchanged == UNCHANGED row

Fault == faults < MaxFaults /\ faults' = faults + 1 /\ UNCHANGED crashes
NoFault == UNCHANGED bounds

Goto(w, label) == pc' = [pc EXCEPT ![w] = label] /\ UNCHANGED <<job, seen, notice>>

(* A handler returns; a webhook that returns nil is answered with success    *)
(* and the provider stops delivering it.                                     *)
Return(w, ok) ==
    /\ pc' = [pc EXCEPT ![w] = "idle"]
    /\ job' = [job EXCEPT ![w] = "none"]
    /\ seen' = [seen EXCEPT ![w] = "none"]
    /\ notice' = (notice /\ ~(ok /\ job[w] = "webhook"))

Start(w, j, label) ==
    /\ j \in Jobs /\ pc[w] = "idle"
    /\ pc' = [pc EXCEPT ![w] = label]
    /\ job' = [job EXCEPT ![w] = j]

-----------------------------------------------------------------------------
(* CreateOrder after the insert: invokeProvider calls CreatePayment; an      *)
(* error does not say whether the provider has created the payment.          *)
CreatePayment ==
    /\ creating = "call"
    /\ \/ provider' = "open" /\ creating' = "save" /\ NoFault
       \/ provider' \in {"none", "open"} /\ creating' = "fail" /\ Fault
    /\ UNCHANGED <<row, book, clock, manual, notice, pc, job, seen>>

(* invokeProvider stores trade number and payment URL, whatever the status.  *)
SaveProviderOrder ==
    /\ creating = "save"
    /\ \/ creating' = "done" /\ Touch /\ UNCHANGED <<status, paidAt>> /\ NoFault
       \/ creating' = "fail" /\ RowUnchanged /\ Fault
    /\ UNCHANGED <<book, clock, manual, provider, notice, pc, job, seen>>

(* CreateOrder's error path: an UpdateOneID that does not look at the status.*)
CreateFailed ==
    /\ creating = "fail" /\ creating' = "done"
    /\ \/ SetStatus("FAILED") /\ UNCHANGED paidAt /\ NoFault
       \/ RowUnchanged /\ Fault
    /\ UNCHANGED <<book, clock, manual, provider, notice, pc, job, seen>>

(* External: the user pays an open payment, with the right amount or not,    *)
(* and the provider queues a notification.                                   *)
UserPays ==
    /\ provider = "open" /\ provider' \in {"paid", "mispaid"} /\ notice' = TRUE
    /\ UNCHANGED <<row, book, bounds, clock, manual, creating, pc, job, seen>>

(* Use: a redeem code changes hands only while it is unused.                 *)
UsableCode_exists == code # "none"
UsableCode == code = "unused"

(* The owner sees recharge_code in the order and may redeem it himself.      *)
UserRedeem ==
    /\ UsableCode /\ code' = "used" /\ grants' = grants + 1
    /\ UNCHANGED <<row, assigned, rebate, bounds, clock, manual, creating, provider,
                   notice, pc, job, seen>>

(* Time passes: both clocks stop at the last value a guard distinguishes.    *)
Tick ==
    /\ age < AgeCap \/ clock < ClockCap
    /\ age' = IF age < AgeCap THEN age + 1 ELSE age
    /\ clock' = IF clock < ClockCap THEN clock + 1 ELSE clock
    /\ UNCHANGED <<status, paidAt, lease, book, bounds, manual, creating,
                   provider, notice, pc, job, seen>>

-----------------------------------------------------------------------------
(* Entry points of the handlers.                                             *)

(* The webhook: the provider delivers at least once, possibly again later.   *)
HandleNotify(w) ==
    /\ provider \in {"paid", "mispaid"} /\ Start(w, "webhook", "confirm")
    /\ UNCHANGED <<row, book, bounds, clock, manual, creating, provider, notice, seen>>

(* CancelOrder, AdminCancelOrder, ExpireTimedOutOrders and                   *)
(* VerifyOrderByOutTradeNo all go through checkPaid first.                   *)
CancelOrder(w) ==
    /\ status = "PENDING" /\ Start(w, "cancel", "query")
    /\ UNCHANGED <<row, book, bounds, clock, manual, creating, provider, notice, seen>>

ExpireTimedOutOrder_beforeDeadline(w) ==
    /\ status = "PENDING" /\ clock < OrderTTL /\ Start(w, "expire", "query")
    /\ UNCHANGED <<row, book, bounds, clock, manual, creating, provider, notice, seen>>

ExpireTimedOutOrder(w) ==
    /\ status = "PENDING" /\ clock >= OrderTTL /\ Start(w, "expire", "query")
    /\ UNCHANGED <<row, book, bounds, clock, manual, creating, provider, notice, seen>>

VerifyOrder(w) ==
    /\ status \in {"PENDING", "EXPIRED"} /\ Start(w, "verify", "query")
    /\ UNCHANGED <<row, book, bounds, clock, manual, creating, provider, notice, seen>>

(* RetryFulfillment insists on paid_at: FAILED also means that the provider  *)
(* could not create the payment.                                             *)
Retryable_unpaid == status \in {"FAILED", "PAID", "RECHARGING"}
Retryable == paidAt /\ status \in {"FAILED", "PAID", "RECHARGING"}

RetryFulfillment(w) ==
    /\ Retryable /\ Start(w, "retry", "exec")
    /\ UNCHANGED <<row, book, bounds, clock, manual, creating, provider, notice, seen>>

(* AdminManualFulfillOrder reads the row and refuses a live RECHARGING one.  *)
AdminManualFulfillOrder(w) ==
    /\ status # "COMPLETED"
    /\ status = "RECHARGING" => age >= RechargingTimeout
    /\ Start(w, "manual", "manual") /\ seen' = [seen EXCEPT ![w] = status]
    /\ UNCHANGED <<row, book, bounds, clock, manual, creating, provider, notice>>

(* ... then updates it if the status is still the one it has read; an order  *)
(* read as PAID only gets its payment details changed, without a guard.      *)
ManualUpdate(w) ==
    /\ pc[w] = "manual"
    /\ \/ /\ seen[w] # "PAID" /\ status = seen[w]
          /\ SetStatus("PAID") /\ paidAt' = TRUE /\ manual' = TRUE /\ Goto(w, "exec")
       \/ /\ seen[w] # "PAID" /\ status # seen[w]
          /\ Return(w, FALSE) /\ UNCHANGED <<row, manual>>
       \/ /\ seen[w] = "PAID" /\ Goto(w, "exec")
          /\ Touch \/ UNCHANGED <<age, lease>>
          /\ UNCHANGED <<status, paidAt, manual>>
    /\ UNCHANGED <<book, bounds, clock, creating, provider>>

-----------------------------------------------------------------------------
(* checkPaid and cancelCore.                                                 *)

(* QueryOrder: the provider reports the payment, or that there is none.  The *)
(* provider may report another trade number than the row has, which checkPaid*)
(* stores before it handles the payment.                                     *)
QueryOrder(w) ==
    /\ pc[w] = "query"
    /\ IF provider \in {"paid", "mispaid"}
       THEN Goto(w, "persist") \/ Goto(w, "confirm")
       ELSE Goto(w, "close")
    /\ UNCHANGED <<row, book, bounds, clock, manual, creating, provider>>

(* The UPDATE of payment_trade_no in checkPaid has no guard on the status.   *)
PersistTradeNo(w) ==
    /\ pc[w] = "persist" /\ Touch /\ Goto(w, "confirm")
    /\ UNCHANGED <<status, paidAt, book, bounds, clock, manual, creating, provider>>

(* An unpaid order is cancelled at a provider that can do so; the user may   *)
(* have paid between the query and this call, and then it has no effect.     *)
CancelPayment(w) ==
    /\ pc[w] = "close"
    /\ provider' = IF Cancelable /\ provider = "open" THEN "closed" ELSE provider
    /\ IF job[w] = "verify" THEN Return(w, TRUE) ELSE Goto(w, "cancel")
    /\ UNCHANGED <<row, book, bounds, clock, manual, creating>>

(* A query that fails is taken for an order without payment, and so is the   *)
(* answer "paid" with an unusable amount whose repetition fails or repeats it.*)
QueryFailed(w) ==
    /\ pc[w] = "query" /\ Fault
    /\ IF job[w] = "verify" THEN Return(w, TRUE) ELSE Goto(w, "cancel")
    /\ UNCHANGED <<row, book, clock, manual, creating, provider>>

(* cancelCore: PENDING -> CANCELLED or EXPIRED in one guarded UPDATE.        *)
CancelCore_swappedArguments(w) ==
    /\ pc[w] = "cancel" /\ Return(w, TRUE)
    /\ IF status = "PENDING" THEN SetStatus("system") /\ UNCHANGED paidAt ELSE RowUnchanged
    /\ UNCHANGED <<book, bounds, clock, manual, creating, provider>>

CancelCore(w) ==
    /\ pc[w] = "cancel" /\ Return(w, TRUE)
    /\ IF status = "PENDING"
       THEN SetStatus(IF job[w] = "expire" THEN "EXPIRED" ELSE "CANCELLED")
            /\ UNCHANGED paidAt
       ELSE RowUnchanged
    /\ UNCHANGED <<book, bounds, clock, manual, creating, provider>>

(* failStaleRechargingOrders: the expiry job gives up on a stale fulfilment. *)
FailStaleRecharging_paid ==
    /\ status = "PAID" /\ age >= RechargingTimeout
    /\ SetStatus("FAILED")
    /\ UNCHANGED <<paidAt, book, bounds, clock, manual, creating, provider,
                   notice, pc, job, seen>>

FailStaleRecharging ==
    /\ status = "RECHARGING" /\ age >= RechargingTimeout
    /\ SetStatus("FAILED")
    /\ UNCHANGED <<paidAt, book, bounds, clock, manual, creating, provider,
                   notice, pc, job, seen>>
-----------------------------------------------------------------------------
(* confirmPayment rejects a payment of the wrong amount; toPaid is one UPDATE*)
(* guarded by the statuses a payment may still revive.                       *)
Payable_anyStatus == TRUE
Payable ==
    \/ status \in {"PENDING", "CANCELLED"}
    \/ status = "FAILED" /\ clock <= OrderTTL + Grace
    \/ status = "EXPIRED" /\ age <= Grace

ConfirmPayment(w) ==
    /\ pc[w] = "confirm"
    /\ \/ provider = "mispaid" /\ Return(w, FALSE) /\ RowUnchanged
       \/ /\ provider = "paid" /\ Payable
          /\ SetStatus("PAID") /\ paidAt' = TRUE /\ Goto(w, "exec")
       \/ provider = "paid" /\ ~Payable /\ Goto(w, "already") /\ RowUnchanged
    /\ UNCHANGED <<book, bounds, clock, manual, creating, provider>>

(* alreadyProcessed: only a failed order that was paid is taken up again;    *)
(* everything else is acknowledged.                                          *)
AlreadyProcessed(w) ==
    /\ pc[w] = "already"
    /\ IF status = "FAILED" /\ paidAt THEN Goto(w, "exec") ELSE Return(w, TRUE)
    /\ UNCHANGED <<row, book, bounds, clock, manual, creating, provider>>

(* ExecuteBalanceFulfillment and ExecuteSubscriptionFulfillment up to the    *)
(* lease: a completed order is done, an unpaid one is refused.               *)
ExecuteFulfillment(w) ==
    /\ pc[w] = "exec"
    /\ \/ status = "COMPLETED" /\ Return(w, TRUE)
       \/ status \in {"PAID", "FAILED", "RECHARGING"} /\ Goto(w, "acquire")
       \/ status \in {"PENDING", "EXPIRED", "CANCELLED"} /\ Return(w, FALSE)
    /\ UNCHANGED <<row, book, bounds, clock, manual, creating, provider>>

(* acquirePaymentFulfillmentLease, the UPDATE: free, or stale, or a miss.    *)
Leasable == \/ status \in {"PAID", "FAILED"}
            \/ status = "RECHARGING" /\ age >= LeaseDuration

AcquireLease(w) ==
    /\ pc[w] = "acquire"
    /\ \/ /\ Leasable /\ SetStatus("RECHARGING")
          /\ Goto(w, "reload") /\ UNCHANGED paidAt
       \/ ~Leasable /\ Goto(w, "missed") /\ RowUnchanged
    /\ UNCHANGED <<book, bounds, clock, manual, creating, provider>>

(* ... a miss reads the row again to tell completion from a conflict.        *)
LeaseMissed(w) ==
    /\ pc[w] = "missed" /\ Return(w, status = "COMPLETED")
    /\ UNCHANGED <<row, book, bounds, clock, manual, creating, provider>>

(* ... a hit reads updated_at back: the version of the lease is whatever the *)
(* row holds at the time of that second statement.                           *)
ReloadLease(w) ==
    /\ pc[w] = "reload"
    /\ \/ /\ status = "RECHARGING" /\ lease' = lease \union {w}
          /\ Goto(w, IF OrderType = "balance" THEN "lookup" ELSE "assign")
       \/ status # "RECHARGING" /\ Return(w, FALSE) /\ UNCHANGED lease
    /\ UNCHANGED <<status, paidAt, age, book, bounds, clock, manual, creating, provider>>

-----------------------------------------------------------------------------
(* doBalance: look the redeem code up, create it if need be, redeem it.      *)
LookupCode_existing(w) ==
    /\ pc[w] = "lookup" /\ Goto(w, IF code = "none" THEN "createCode" ELSE "rebate")
    /\ UNCHANGED <<row, book, bounds, clock, manual, creating, provider>>

LookupCode(w) ==
    /\ pc[w] = "lookup"
    /\ \/ code = "none" /\ Goto(w, "createCode")
       \/ code = "unused" /\ Goto(w, "redeem")
       \/ code = "used" /\ Goto(w, "rebate")
    /\ UNCHANGED <<row, book, bounds, clock, manual, creating, provider>>

(* CreateCode: redeem_codes.code is unique, a second insert is an error.     *)
CreateCode(w) ==
    /\ pc[w] = "createCode"
    /\ IF code = "none" THEN code' = "unused" /\ Goto(w, "redeem")
                        ELSE UNCHANGED code /\ Goto(w, "fail")
    /\ UNCHANGED <<row, assigned, rebate, grants, bounds, clock, manual, creating, provider>>

(* Redeem: the code and the balance change in one transaction, guarded by    *)
(* status = 'unused'; reading the code back after the commit may fail.       *)
Redeem(w) ==
    /\ pc[w] = "redeem"
    /\ \/ /\ UsableCode /\ code' = "used" /\ grants' = grants + 1
          /\ \/ Goto(w, "rebate") /\ NoFault
             \/ Goto(w, "fail") /\ Fault
       \/ ~UsableCode /\ Goto(w, "fail") /\ NoFault /\ UNCHANGED <<code, grants>>
    /\ UNCHANGED <<row, assigned, rebate, clock, manual, creating, provider>>

(* ensurePaymentSubscriptionAssigned: the transaction first looks for the    *)
(* audit row of an earlier assignment ...                                    *)
CheckAssigned_negated(w) ==
    /\ pc[w] = "assign"
    /\ Goto(w, IF assigned THEN "assignTx" ELSE "rebate")
    /\ UNCHANGED <<row, book, bounds, clock, manual, creating, provider>>

CheckAssigned(w) ==
    /\ pc[w] = "assign"
    /\ Goto(w, IF assigned THEN "rebate" ELSE "assignTx")
    /\ UNCHANGED <<row, book, bounds, clock, manual, creating, provider>>

(* ... then extends the subscription and inserts that row.  The unique index *)
(* on (order_id, action) makes a concurrent second transaction roll back and *)
(* take the assignment as done; the cache invalidation after the commit may  *)
(* fail.                                                                     *)
AssignSubscription_noIndex(w) ==
    /\ pc[w] = "assignTx" /\ assigned' = TRUE /\ grants' = grants + 1
    /\ Goto(w, "rebate") /\ NoFault
    /\ UNCHANGED <<row, code, rebate, clock, manual, creating, provider>>

AssignSubscription(w) ==
    /\ pc[w] = "assignTx"
    /\ IF assigned THEN UNCHANGED <<assigned, grants>>
                   ELSE assigned' = TRUE /\ grants' = grants + 1
    /\ \/ Goto(w, "rebate") /\ NoFault
       \/ Goto(w, "fail") /\ Fault
    /\ UNCHANGED <<row, code, rebate, clock, manual, creating, provider>>

(* applyAffiliateRebateForOrder: one transaction claims the audit row and    *)
(* accrues the rebate; an order whose row exists is passed over.             *)
ApplyRebate(w) ==
    /\ pc[w] = "rebate" /\ rebate' = TRUE /\ Goto(w, "complete")
    /\ UNCHANGED <<row, code, assigned, grants, bounds, clock, manual, creating, provider>>

(* The WHERE clause of markCompleted and markFailed.                         *)
HoldsLease_anyVersion(w) == status = "RECHARGING"
HoldsLease(w) == status = "RECHARGING" /\ w \in lease

MarkCompleted(w) ==
    /\ pc[w] = "complete"
    /\ IF HoldsLease(w)
       THEN SetStatus("COMPLETED") /\ Return(w, TRUE) /\ UNCHANGED paidAt
       ELSE Goto(w, "recheck") /\ RowUnchanged
    /\ UNCHANGED <<book, bounds, clock, manual, creating, provider>>

(* markCompleted without effect: fine if somebody else completed the order.  *)
RecheckCompleted(w) ==
    /\ pc[w] = "recheck"
    /\ IF status = "COMPLETED" THEN Return(w, TRUE) ELSE Goto(w, "fail")
    /\ UNCHANGED <<row, book, bounds, clock, manual, creating, provider>>

MarkFailed(w) ==
    /\ pc[w] = "fail" /\ Return(w, FALSE)
    /\ IF HoldsLease(w)
       THEN SetStatus("FAILED") /\ UNCHANGED paidAt
       ELSE RowUnchanged
    /\ UNCHANGED <<book, bounds, clock, manual, creating, provider>>

-----------------------------------------------------------------------------
(* A database call fails without effect.  With a lease in hand the error     *)
(* goes to markFailed; a failed lookup counts as "no such code"; a failed    *)
(* first read in confirmPayment counts as "no such order" and acknowledges   *)
(* the webhook, as does a failed re-read in alreadyProcessed; the others     *)
(* return the error.                                                         *)
StepFails(w) ==
    /\ Fault
    /\ \/ /\ pc[w] \in {"confirm", "exec", "acquire", "missed", "reload", "manual",
                        "cancel", "fail"}
          /\ Return(w, FALSE)
       \/ pc[w] \in {"confirm", "already"} /\ Return(w, TRUE)
       \/ pc[w] = "persist" /\ Goto(w, "confirm")
       \/ pc[w] = "lookup" /\ Goto(w, "createCode")
       \/ /\ pc[w] \in {"createCode", "redeem", "assign", "assignTx", "rebate",
                        "complete", "recheck"}
          /\ Goto(w, "fail")
    /\ UNCHANGED <<row, book, clock, manual, creating, provider>>

(* The goroutine dies (restart, panic, cancelled context): what it has       *)
(* committed stays, a webhook stays unanswered.                              *)
Crash(w) ==
    /\ pc[w] # "idle" /\ crashes < MaxCrashes /\ crashes' = crashes + 1
    /\ Return(w, FALSE)
    /\ UNCHANGED <<row, book, faults, clock, manual, creating, provider>>

Invoke(w) ==
    \/ HandleNotify(w) \/ CancelOrder(w) \/ ExpireTimedOutOrder(w) \/ VerifyOrder(w)
    \/ RetryFulfillment(w) \/ AdminManualFulfillOrder(w)

Proceed(w) ==
    \/ ManualUpdate(w) \/ QueryOrder(w) \/ PersistTradeNo(w) \/ CancelPayment(w)
    \/ CancelCore(w) \/ ConfirmPayment(w) \/ AlreadyProcessed(w) \/ ExecuteFulfillment(w)
    \/ AcquireLease(w) \/ LeaseMissed(w) \/ ReloadLease(w) \/ LookupCode(w)
    \/ CreateCode(w) \/ Redeem(w) \/ CheckAssigned(w) \/ AssignSubscription(w)
    \/ ApplyRebate(w) \/ MarkCompleted(w) \/ RecheckCompleted(w) \/ MarkFailed(w)

Disturb(w) == QueryFailed(w) \/ StepFails(w) \/ Crash(w)

Create == CreatePayment \/ SaveProviderOrder \/ CreateFailed

Next ==
    \/ Create \/ UserPays \/ UserRedeem \/ Tick \/ FailStaleRecharging
    \/ \E w \in Worker : Invoke(w) \/ Proceed(w) \/ Disturb(w)

(* Goroutines run, time passes, the expiry job ticks every minute, and a     *)
(* provider redelivers a notification until it is answered with success.     *)
(* The job and the webhooks have goroutines of their own, so other handlers  *)
(* do not keep them from starting for ever: strong fairness, as there are    *)
(* fewer Workers here than goroutines there.  Users and administrators owe   *)
(* nothing.                                                                  *)
Fairness ==
    /\ WF_vars(Create) /\ WF_vars(Tick) /\ WF_vars(FailStaleRecharging)
    /\ \A w \in Worker : WF_vars(Proceed(w))
    /\ SF_vars(\E w \in Worker : ExpireTimedOutOrder(w))
    /\ SF_vars(notice /\ \E w \in Worker : HandleNotify(w))

Spec == Init /\ [][Next]_vars
FairSpec == Spec /\ Fairness

-----------------------------------------------------------------------------
(* The user gets what one order pays for at most once, whatever duplicates,  *)
(* retries, lease takeovers, crashes and own redemptions happen: the unique  *)
(* redeem code and the audit row guard the balance and the subscription, not *)
(* the lease (doBalance, ensurePaymentSubscriptionAssigned).                 *)
GrantedAtMostOnce == grants <= 1

(* Only money, or an administrator's word, buys something: nothing is granted*)
(* unless the provider took the right amount or AdminManualFulfillOrder      *)
(* declared the order paid (confirmPayment, RetryFulfillment).               *)
GrantOnlyIfPaid == grants > 0 => provider = "paid" \/ manual

(* COMPLETED tells the truth: the grant and the rebate decision were made    *)
(* before markCompleted, however many workers shared the job.                *)
CompletedIsSettled == status = "COMPLETED" => grants = 1 /\ rebate

(* No late webhook, cancellation, sweep, retry or stale worker moves an order*)
(* out of COMPLETED; only CreateOrder's own unguarded error path could.      *)
CompletedIsFinal ==
    [][status = "COMPLETED" /\ creating # "fail" => status' = "COMPLETED"]_vars

(* While a lease is valid and not yet stale, RECHARGING is left only by a    *)
(* worker with that lease; the exceptions are an administrator whose read of *)
(* the row is old (AdminManualFulfillOrder compares the status alone) and    *)
(* CreateOrder's error path.                                                 *)
LeaseIsRespected ==
    [][ (status = "RECHARGING" /\ status' # "RECHARGING" /\ lease # {} /\ age < LeaseDuration)
        => \/ \E w \in lease : pc'[w] # pc[w]
           \/ \E w \in Worker : pc[w] = "manual" /\ pc'[w] # "manual"
           \/ creating = "fail" ]_vars

(* An order does not hang in RECHARGING: its worker finishes, or the expiry  *)
(* job fails it (failStaleRechargingOrders).                                 *)
RechargingEnds == status = "RECHARGING" ~> status # "RECHARGING"

(* An order does not stay PENDING: it is paid, cancelled, failed or expired, *)
(* unless the provider reports a payment that confirmPayment rejects.        *)
PendingEnds == status = "PENDING" ~> status # "PENDING" \/ provider = "mispaid"

(* docs/PAYMENT.md: "Balance top-up is processed automatically upon          *)
(* successful payment - no manual intervention needed".                      *)
PaidIsCredited == provider = "paid" ~> grants = 1

=============================================================================
