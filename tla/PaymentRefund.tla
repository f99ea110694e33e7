--------------------------- MODULE PaymentRefund ---------------------------
(* The refund of one completed balance order:                                *)
(* backend/internal/service/payment_refund.go.                               *)
(*                                                                           *)
(* An administrator's refund is PrepareRefund followed by ExecuteRefund      *)
(* (handler/admin/payment_handler.go ProcessRefund); a refund the gateway    *)
(* left pending is settled by QueryAndFinalizeRefund.  Each call runs in a   *)
(* goroutine (an Admin), one step per SQL statement or gateway call, and     *)
(* carries a RefundPlan in memory from its first read to its last write.     *)
EXTENDS Integers, FiniteSets

CONSTANTS
    Admin,          \* goroutines that may run a refund call
    Ops,            \* the calls that are made: "request", "refund", "finalize"
    Deduct,         \* values of deduct_balance in the refund requests
    Amount,         \* order.Amount; refunds are 1..Amount units
    InitialBalance, \* the user's balance before the first refund call
    MaxCalls,       \* bound: calls that find an order to refund or to finalize
    MaxSpend,       \* bound: units the user spends meanwhile
    MaxFaults,      \* bound: failed database or gateway calls
    MaxCrashes      \* bound: goroutines that die between two steps

ASSUME OpsAssumption == Ops \subseteq {"request", "refund", "finalize"}
ASSUME DeductAssumption == Deduct \subseteq BOOLEAN
ASSUME AmountAssumption == Amount \in Nat \ {0} /\ InitialBalance \in Nat
ASSUME RefundBoundAssumption ==
    MaxCalls \in Nat /\ MaxSpend \in Nat /\ MaxFaults \in Nat /\ MaxCrashes \in Nat

VARIABLES
    status,         \* payment_orders.status
    refundAmount,   \* payment_orders.refund_amount
    balance,        \* the user's balance
    debit,          \* taken from the balance for this refund, less what was given back
    tradeNo,        \* payment_orders.payment_trade_no is not empty
    gateway,        \* per amount: the furthest a refund of it has come
    rollbackFailed, \* audit row REFUND_ROLLBACK_FAILED
    refundSuccess,  \* audit row REFUND_SUCCESS
    pendingDetail,  \* refundID and deductionRollbackOK of audit row REFUND_PENDING
    pc, plan,       \* per admin: next step and RefundPlan
    blemished,      \* history: an audit row was lost or not found, see Blemish
    overlapped,     \* history: QueryAndFinalizeRefund ran beside another call
    calls, spent, faults, crashes

provider == <<tradeNo, gateway>>
audit == <<rollbackFailed, refundSuccess, pendingDetail>>
history == <<blemished, overlapped>>
bounds == <<calls, spent, faults, crashes>>
vars == <<status, refundAmount, balance, debit, provider, audit, pc, plan, history, bounds>>

Status == {"COMPLETED", "REFUND_REQUESTED", "REFUNDING", "REFUND_PENDING",
           "PARTIALLY_REFUNDED", "REFUNDED", "REFUND_FAILED"}
Refundable_partial == {"COMPLETED", "REFUND_REQUESTED", "REFUND_PENDING", "REFUND_FAILED",
                       "PARTIALLY_REFUNDED"}
Refundable == {"COMPLETED", "REFUND_REQUESTED", "REFUND_PENDING", "REFUND_FAILED"}
Locked == {"rollbackCheck", "deduct", "gateway", "ok", "pendingRollback", "auditPending",
           "pending", "failRollback", "auditFail", "restore", "refundFailed"}
Finalizing == {"detail", "query", "queryBlind", "finalCheck", "finalDeduct", "finalOk", "finalFailed"}
Label == Locked \union Finalizing
           \union {"idle", "prepDeduct", "lock", "successRow", "pendingRow"}

(* refundPendingAuditDetail: the refund the gateway left pending, known by   *)
(* its amount, and whether the deduction was given back.  NoDetail is what   *)
(* the code takes when there is no row.                                      *)
Detail == [refundID : 0..Amount, rollbackOK : BOOLEAN]
NoDetail == [refundID |-> 0, rollbackOK |-> TRUE]

(* RefundPlan: the status of the order as read, the amount to refund, and the*)
(* amount to take from the balance.                                          *)
Plan == [read : Status, amount : 0..Amount, deduct : Int]
NoPlan == [read |-> "COMPLETED", amount |-> 0, deduct |-> 0]

TypeOK ==
    /\ status \in Status /\ refundAmount \in 0..Amount
    /\ balance \in Int /\ debit \in Int
    /\ tradeNo \in BOOLEAN
    /\ gateway \in [1..Amount -> {"none", "pending", "success"}]
    /\ rollbackFailed \in BOOLEAN /\ refundSuccess \in BOOLEAN
    /\ pendingDetail \in Detail
    /\ pc \in [Admin -> Label] /\ plan \in [Admin -> Plan]
    /\ blemished \in BOOLEAN /\ overlapped \in BOOLEAN
    /\ calls \in 0..MaxCalls /\ spent \in 0..MaxSpend
    /\ faults \in 0..MaxFaults /\ crashes \in 0..MaxCrashes

Init ==
    /\ status = "COMPLETED" /\ refundAmount = 0
    /\ balance = InitialBalance /\ debit = 0
    /\ tradeNo \in BOOLEAN /\ gateway = [n \in 1..Amount |-> "none"]
    /\ rollbackFailed = FALSE /\ refundSuccess = FALSE /\ pendingDetail = NoDetail
    /\ pc = [a \in Admin |-> "idle"] /\ plan = [a \in Admin |-> NoPlan]
    /\ blemished = FALSE /\ overlapped = FALSE
    /\ calls = 0 /\ spent = 0 /\ faults = 0 /\ crashes = 0

Goto(a, label) == pc' = [pc EXCEPT ![a] = label] /\ UNCHANGED plan
Done(a) == pc' = [pc EXCEPT ![a] = "idle"] /\ plan' = [plan EXCEPT ![a] = NoPlan]
GotoWith(a, label, p) == pc' = [pc EXCEPT ![a] = label] /\ plan' = [plan EXCEPT ![a] = p]

FaultWith(b) ==
    /\ faults < MaxFaults /\ faults' = faults + 1 /\ UNCHANGED <<calls, spent, crashes>>
    /\ blemished' = (blemished \/ b) /\ UNCHANGED overlapped
Fault == FaultWith(FALSE)
NoFault == UNCHANGED <<bounds, history>>

(* A fault that costs an audit row, or its sight.                            *)
Blemish == FaultWith(TRUE)

(* hasAuditLog: a query that fails reads as "no such row".                   *)
HasAuditLog(row, found) ==
    \/ found = row /\ NoFault
    \/ row /\ ~found /\ Blemish

(* A call begins; b says whether it overlaps as in history.                  *)
Begin(b) ==
    /\ calls < MaxCalls /\ calls' = calls + 1 /\ UNCHANGED <<spent, faults, crashes>>
    /\ overlapped' = (overlapped \/ b) /\ UNCHANGED blemished

Charge(n) == balance' = balance - n /\ debit' = debit + n
NoCharge == UNCHANGED <<balance, debit>>
Lesser(m, n) == IF m < n THEN m ELSE n

-----------------------------------------------------------------------------
(* RequestRefund: the user asks for the whole amount of a completed order.   *)
RequestRefund ==
    /\ "request" \in Ops /\ status = "COMPLETED" /\ balance >= Amount
    /\ status' = "REFUND_REQUESTED" /\ refundAmount' = Amount
    /\ UNCHANGED <<balance, debit, provider, audit, pc, plan, history, bounds>>

(* Usage billing takes from the same balance at any time.                    *)
UserSpends ==
    /\ spent < MaxSpend /\ balance > 0
    /\ balance' = balance - 1 /\ spent' = spent + 1
    /\ UNCHANGED <<status, refundAmount, debit, provider, audit, pc, plan, history, calls, faults, crashes>>

(* PrepareRefund reads the order ...                                         *)
PrepareRefund_unlimited(a) ==
    /\ "refund" \in Ops /\ pc[a] = "idle" /\ status \in Refundable
    /\ \E n \in 1..Amount + 1, deduct \in Deduct :
          GotoWith(a, IF deduct THEN "prepDeduct" ELSE "lock",
                   [read |-> status, amount |-> n, deduct |-> 0])
    /\ Begin(\E b \in Admin : pc[b] \in Finalizing)
    /\ UNCHANGED <<status, refundAmount, balance, debit, provider, audit>>

PrepareRefund(a) ==
    /\ "refund" \in Ops /\ pc[a] = "idle" /\ status \in Refundable
    /\ \E n \in 1..Amount, deduct \in Deduct :
          GotoWith(a, IF deduct THEN "prepDeduct" ELSE "lock",
                   [read |-> status, amount |-> n, deduct |-> 0])
    /\ Begin(\E b \in Admin : pc[b] \in Finalizing)
    /\ UNCHANGED <<status, refundAmount, balance, debit, provider, audit>>

(* ... then, in prepDeduct, the user; a pending refund plans no deduction.   *)
(* If the user cannot be read, a forced refund goes on without deducting.    *)
PrepDeduct(a) ==
    /\ pc[a] = "prepDeduct"
    /\ \/ /\ NoFault
          /\ GotoWith(a, "lock", [plan[a] EXCEPT !.deduct =
                IF plan[a].read = "REFUND_PENDING" THEN 0
                                                   ELSE Lesser(plan[a].amount, balance)])
       \/ (Goto(a, "lock") \/ Done(a)) /\ Fault
    /\ UNCHANGED <<status, refundAmount, balance, debit, provider, audit>>

(* ExecuteRefund takes the order to REFUNDING whatever refundable status it  *)
(* now has, not only from the one the plan was made for.                     *)
LockOrder_unguarded(a) ==
    /\ pc[a] = "lock" /\ status' = "REFUNDING" /\ Goto(a, "rollbackCheck")
    /\ UNCHANGED <<refundAmount, balance, debit, provider, audit, history, bounds>>

LockOrder(a) ==
    /\ pc[a] = "lock"
    /\ \/ /\ status \in Refundable /\ NoFault
          /\ status' = "REFUNDING" /\ Goto(a, "rollbackCheck")
       \/ status \notin Refundable /\ UNCHANGED status /\ Done(a) /\ NoFault
       \/ UNCHANGED status /\ Done(a) /\ Fault
    /\ UNCHANGED <<refundAmount, balance, debit, provider, audit>>

(* An earlier deduction that could not be rolled back stands for this one.   *)
CheckRollbackFailed_unread(a) ==
    /\ pc[a] = "rollbackCheck" /\ NoFault
    /\ Goto(a, IF plan[a].deduct > 0 THEN "deduct" ELSE "gateway")
    /\ UNCHANGED <<status, refundAmount, balance, debit, provider, audit>>

CheckRollbackFailed(a) ==
    /\ pc[a] = "rollbackCheck"
    /\ \/ plan[a].deduct <= 0 /\ Goto(a, "gateway") /\ NoFault
       \/ /\ plan[a].deduct > 0
          /\ \E found \in BOOLEAN :
                /\ HasAuditLog(rollbackFailed, found)
                /\ IF found THEN GotoWith(a, "gateway", [plan[a] EXCEPT !.deduct = 0])
                            ELSE Goto(a, "deduct")
    /\ UNCHANGED <<status, refundAmount, balance, debit, provider, audit>>

(* DeductBalance has no floor: the balance may become negative.              *)
DeductBalance(a) ==
    /\ pc[a] = "deduct"
    /\ \/ Charge(plan[a].deduct) /\ Goto(a, "gateway") /\ NoFault
       \/ NoCharge /\ Goto(a, "restore") /\ Fault
    /\ UNCHANGED <<status, refundAmount, provider, audit>>

(* External: a refund is known by its amount, from which wxpay and airwallex *)
(* make its id.  They answer a repeated request with the refund they have,   *)
(* stripe and alipay make another: a request may get any answer here.        *)
GatewayAnswer(n, answer) ==
    /\ gateway' = [gateway EXCEPT ![n] =
          IF answer = "failed" \/ @ = "success" THEN @ ELSE answer]
    /\ UNCHANGED tradeNo

GatewaySettles ==
    /\ \E n \in 1..Amount : gateway[n] = "pending" /\ GatewayAnswer(n, "success")
    /\ UNCHANGED <<status, refundAmount, balance, debit, audit, pc, plan, history, bounds>>

(* gwRefund and the branch of finishRefund on its answer.  An order without  *)
(* a trade number counts as refunded without a word to the gateway; "failed" *)
(* is also a provider that is missing or not the order's; a call may fail    *)
(* before it reaches the gateway or after the gateway has accepted it.       *)
GatewayRefund_pendingIsOk(a) ==
    /\ pc[a] = "gateway" /\ NoFault
    /\ \E answer \in {"pending", "success", "failed"} :
          /\ GatewayAnswer(plan[a].amount, answer)
          /\ Goto(a, IF answer = "failed" THEN "failRollback" ELSE "ok")
    /\ UNCHANGED <<status, refundAmount, balance, debit, audit>>

GatewayRefund(a) ==
    /\ pc[a] = "gateway"
    /\ \/ ~tradeNo /\ UNCHANGED provider /\ Goto(a, "ok") /\ NoFault
       \/ /\ tradeNo
          /\ \E answer \in {"pending", "success", "failed"} :
                /\ GatewayAnswer(plan[a].amount, answer)
                /\ \/ /\ Goto(a, CASE answer = "success" -> "ok"
                                   [] answer = "pending" -> "pendingRollback"
                                   [] answer = "failed"  -> "failRollback")
                      /\ NoFault
                   \/ Goto(a, "failRollback") /\ Fault
    /\ UNCHANGED <<status, refundAmount, balance, debit, audit>>

(* markRefundOk writes the final status whatever the order has become, and   *)
(* then the audit row.                                                       *)
MarkRefundOk(a) ==
    /\ pc[a] \in {"ok", "finalOk"}
    /\ \/ /\ status' = (IF plan[a].amount < Amount THEN "PARTIALLY_REFUNDED" ELSE "REFUNDED")
          /\ refundAmount' = plan[a].amount /\ Goto(a, "successRow") /\ NoFault
       \/ UNCHANGED <<status, refundAmount>> /\ Done(a) /\ FaultWith(pc[a] = "finalOk")
    /\ UNCHANGED <<balance, debit, provider, audit>>

AuditRefundSuccess(a) ==
    /\ pc[a] = "successRow" /\ Done(a)
    /\ \/ refundSuccess' = TRUE /\ NoFault
       \/ UNCHANGED refundSuccess /\ Blemish
    /\ UNCHANGED <<status, refundAmount, balance, debit, provider, rollbackFailed, pendingDetail>>

(* RollbackRefund, called by markRefundPending and handleGwFail: gives the   *)
(* deduction back, or records that it could not.                             *)
RollbackRefund_notPending(a) ==
    /\ pc[a] \in {"pendingRollback", "failRollback"} /\ NoFault
    /\ IF pc[a] = "failRollback"
       THEN Charge(-plan[a].deduct) /\ Goto(a, "restore")
       ELSE NoCharge /\ GotoWith(a, "pending", [plan[a] EXCEPT !.deduct = 0])
    /\ UNCHANGED <<status, refundAmount, provider, audit>>

RollbackRefund(a) ==
    /\ pc[a] \in {"pendingRollback", "failRollback"}
    /\ LET next == IF pc[a] = "pendingRollback" THEN "pending" ELSE "restore"
           onError == IF pc[a] = "pendingRollback" THEN "auditPending" ELSE "auditFail"
       IN  \/ plan[a].deduct <= 0 /\ NoCharge /\ Goto(a, next) /\ NoFault
           \/ /\ plan[a].deduct > 0 /\ Charge(-plan[a].deduct) /\ NoFault
              /\ GotoWith(a, next, [plan[a] EXCEPT !.deduct = 0])
           \/ plan[a].deduct > 0 /\ NoCharge /\ Goto(a, onError) /\ Fault
    /\ UNCHANGED <<status, refundAmount, provider, audit>>

AuditRollbackFailed(a) ==
    /\ pc[a] \in {"auditPending", "auditFail"}
    /\ Goto(a, IF pc[a] = "auditPending" THEN "pending" ELSE "refundFailed")
    /\ \/ rollbackFailed' = TRUE /\ NoFault
       \/ UNCHANGED rollbackFailed /\ Blemish
    /\ UNCHANGED <<status, refundAmount, balance, debit, provider, refundSuccess, pendingDetail>>

(* markRefundPending: the audit row keeps the refund and whether the         *)
(* deduction was given back, also when there was none to give back; the      *)
(* unique index on (order_id, action) drops every later row.                 *)
MarkRefundPending(a) ==
    /\ pc[a] = "pending"
    /\ \/ /\ status' = "REFUND_PENDING" /\ refundAmount' = plan[a].amount
          /\ Goto(a, "pendingRow") /\ NoFault
       \/ UNCHANGED <<status, refundAmount>> /\ Done(a) /\ Fault
    /\ UNCHANGED <<balance, debit, provider, audit>>

AuditRefundPending(a) ==
    /\ pc[a] = "pendingRow" /\ Done(a)
    /\ \/ /\ pendingDetail' = (IF pendingDetail # NoDetail THEN pendingDetail
                               ELSE [refundID |-> plan[a].amount,
                                     rollbackOK |-> plan[a].deduct <= 0])
          /\ NoFault
       \/ UNCHANGED pendingDetail /\ Blemish
    /\ UNCHANGED <<status, refundAmount, balance, debit, provider, rollbackFailed, refundSuccess>>

(* restoreStatus: back to REFUND_REQUESTED if the plan was made for that,    *)
(* else to COMPLETED.                                                        *)
RestoreStatus(a) ==
    /\ pc[a] = "restore" /\ Done(a)
    /\ \/ /\ status' = (IF plan[a].read = "REFUND_REQUESTED" THEN "REFUND_REQUESTED"
                                                            ELSE "COMPLETED")
          /\ NoFault
       \/ UNCHANGED status /\ Fault
    /\ UNCHANGED <<refundAmount, balance, debit, provider, audit>>

(* handleGwFail when the rollback failed, and finalizeRefundFailed.          *)
MarkRefundFailed(a) ==
    /\ pc[a] \in {"refundFailed", "finalFailed"} /\ Done(a)
    /\ \/ status' = "REFUND_FAILED" /\ NoFault
       \/ UNCHANGED status /\ Fault
    /\ UNCHANGED <<refundAmount, balance, debit, provider, audit>>

-----------------------------------------------------------------------------
(* QueryAndFinalizeRefund reads a pending order; it does not take the order  *)
(* to REFUNDING.                                                             *)
QueryAndFinalizeRefund(a) ==
    /\ "finalize" \in Ops /\ pc[a] = "idle" /\ status = "REFUND_PENDING"
    /\ GotoWith(a, "detail", [read |-> status, amount |-> refundAmount, deduct |-> 0])
    /\ Begin(\E b \in Admin \ {a} : pc[b] # "idle")
    /\ UNCHANGED <<status, refundAmount, balance, debit, provider, audit>>

(* latestRefundPendingDetail: without a readable row the deduction counts as *)
(* rolled back, and is planned again.                                        *)
LatestRefundPendingDetail(a) ==
    /\ pc[a] = "detail"
    /\ \/ /\ pendingDetail # NoDetail /\ NoFault
          /\ GotoWith(a, "query", [plan[a] EXCEPT !.deduct =
                IF pendingDetail.rollbackOK THEN plan[a].amount ELSE 0])
       \/ /\ GotoWith(a, "queryBlind", [plan[a] EXCEPT !.deduct = plan[a].amount])
          /\ IF pendingDetail = NoDetail THEN NoFault ELSE Blemish
    /\ UNCHANGED <<status, refundAmount, balance, debit, provider, audit>>

(* QueryRefund asks about the refund of the audit row; without its id wxpay  *)
(* rebuilds one from the order and stripe takes the latest refund.  It may   *)
(* be another refund of the same amount, and have failed; nothing happens    *)
(* while it is pending, cannot be asked about or is unknown.                 *)
QueryRefund(a) ==
    /\ pc[a] \in {"query", "queryBlind"} /\ NoFault
    /\ \E n \in 1..Amount :
          /\ pc[a] = "query" => n = pendingDetail.refundID
          /\ \/ gateway[n] = "success" /\ Goto(a, "finalCheck")
             \/ gateway[n] # "none" /\ Goto(a, "finalFailed")
             \/ Done(a)
    /\ UNCHANGED <<status, refundAmount, balance, debit, provider, audit>>

(* applyRefundFinalDeduction: nothing to do if somebody has recorded the     *)
(* refund as successful; otherwise the deduction follows in a later          *)
(* statement.                                                                *)
CheckRefundSuccess(a) ==
    /\ pc[a] = "finalCheck"
    /\ \E found \in BOOLEAN :
          /\ HasAuditLog(refundSuccess, found)
          /\ IF found \/ plan[a].deduct = 0
             THEN GotoWith(a, "finalOk", [plan[a] EXCEPT !.deduct = 0])
             ELSE Goto(a, "finalDeduct")
    /\ UNCHANGED <<status, refundAmount, balance, debit, provider, audit>>

FinalDeduction(a) ==
    /\ pc[a] = "finalDeduct"
    /\ \/ Charge(plan[a].deduct) /\ Goto(a, "finalOk") /\ NoFault
       \/ NoCharge /\ Done(a) /\ Fault
    /\ UNCHANGED <<status, refundAmount, provider, audit>>

(* The goroutine dies; what it has committed stays.                          *)
Crash(a) ==
    /\ pc[a] # "idle" /\ crashes < MaxCrashes /\ crashes' = crashes + 1 /\ Done(a)
    /\ blemished' = (blemished \/ pc[a] \in {"finalOk", "successRow", "pendingRow",
                                             "auditPending", "auditFail"})
    /\ UNCHANGED overlapped
    /\ UNCHANGED <<status, refundAmount, balance, debit, provider, audit, calls, spent, faults>>

Step(a) ==
    \/ PrepareRefund(a) \/ PrepDeduct(a) \/ LockOrder(a) \/ CheckRollbackFailed(a)
    \/ DeductBalance(a) \/ GatewayRefund(a) \/ MarkRefundOk(a) \/ AuditRefundSuccess(a)
    \/ RollbackRefund(a) \/ AuditRollbackFailed(a) \/ MarkRefundPending(a)
    \/ AuditRefundPending(a) \/ RestoreStatus(a) \/ MarkRefundFailed(a)
    \/ QueryAndFinalizeRefund(a) \/ LatestRefundPendingDetail(a) \/ QueryRefund(a)
    \/ CheckRefundSuccess(a) \/ FinalDeduction(a) \/ Crash(a)

Next == RequestRefund \/ UserSpends \/ GatewaySettles \/ \E a \in Admin : Step(a)

Spec == Init /\ [][Next]_vars
-----------------------------------------------------------------------------
(* ExecuteRefund's move to REFUNDING is a lock: no two goroutines are between*)
(* it and the status that ends the refund, unless QueryAndFinalizeRefund,    *)
(* which takes no lock, worked beside another call.                          *)
OneRefundAtATime ==
    ~overlapped => Cardinality({a \in Admin : pc[a] \in Locked}) <= 1

(* A refund attempt that ends without effect leaves the user whole: an order *)
(* that is back in COMPLETED or REFUND_REQUESTED, or waits in REFUND_PENDING,*)
(* has nothing deducted, unless a failed rollback was recorded.  Faults and  *)
(* deaths do not matter as long as no audit row is lost and no finalization  *)
(* runs beside another call.                                                 *)
UserIsWhole ==
    /\ status \in {"COMPLETED", "REFUND_REQUESTED", "REFUND_PENDING"}
    /\ ~rollbackFailed /\ ~blemished /\ ~overlapped
    /\ \A a \in Admin : pc[a] # "finalOk"
    => debit = 0

(* PrepareRefund's comment: "Re-check/retry must not deduct user balance or  *)
(* subscription days again."  The user never pays back more than he got.     *)
DeductedAtMostOnce == debit <= Amount

(* The same as long as calls follow each other and no audit row is lost: a   *)
(* retry that finds the row of a failed rollback does not deduct again.  The *)
(* one gap is DeductionIsForgotten: the deduction is still taken, a retry    *)
(* that for this reason deducted nothing was left pending by the gateway, and*)
(* its audit row says that nothing is owed back; finalizing deducts again.   *)
DeductionIsForgotten ==
    rollbackFailed /\ pendingDetail # NoDetail /\ pendingDetail.rollbackOK

SequentialDeductsOnce ==
    ~overlapped /\ ~blemished /\ ~DeductionIsForgotten => DeductedAtMostOnce

(* An order with a trade number is marked refunded only when the gateway has *)
(* paid out a refund: of the amount on the order or, since a later           *)
(* REFUND_PENDING row is dropped, of the first refund it left pending.       *)
(* Without that row, or beside another call, it may be any refund.           *)
PaidOut(amounts) == \E n \in amounts \intersect 1..Amount : gateway[n] = "success"

RefundedWasPaidOut ==
    status \in {"REFUNDED", "PARTIALLY_REFUNDED"} /\ tradeNo =>
        PaidOut(IF blemished \/ overlapped THEN 1..Amount
                                          ELSE {refundAmount, pendingDetail.refundID})

(* A refund that was completed is not undone: the order leaves REFUNDED or   *)
(* PARTIALLY_REFUNDED by no later call, unless it overlapped with the        *)
(* finalization of the same refund.                                          *)
RefundedIsFinal ==
    [][(status \in {"REFUNDED", "PARTIALLY_REFUNDED"} /\ ~overlapped) => status' = status]_vars

=============================================================================
