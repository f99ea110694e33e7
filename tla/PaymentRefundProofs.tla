------------------------ MODULE PaymentRefundProofs ------------------------
(* Theorems about PaymentRefund for every set of goroutines, every amount    *)
(* and balance, and every number of faults and deaths.  SMTT(30) allows a    *)
(* leaf more time than the default.                                          *)
EXTENDS PaymentRefund, FiniteSetTheorems, TLAPS

(* REFUNDING is a lock as long as finalizations stay apart from other calls: *)
(* whoever is in Locked holds it, and a finalization is alone with an order  *)
(* that waits in REFUND_PENDING.                                             *)
LockInv ==
    ~overlapped =>
        /\ \A a, b \in Admin : pc[a] \in Locked /\ pc[b] \in Locked => a = b
        /\ \A a \in Admin : pc[a] \in Locked => status = "REFUNDING"
        /\ \A a, b \in Admin : pc[a] \in Finalizing /\ b # a => pc[b] = "idle"
        /\ \A a \in Admin : pc[a] \in Finalizing => status = "REFUND_PENDING"

(* Steps of a refund that has an amount.                                     *)
Attempting == Locked \union {"prepDeduct", "lock", "pendingRow"}

(* A plan refunds between one unit and the order's amount and deducts at most*)
(* that, and something if it deducts; the row REFUND_PENDING names a refund. *)
PlanInv ==
    /\ \A a \in Admin :
          /\ plan[a].deduct <= Amount
          /\ pc[a] = "deduct" => plan[a].deduct > 0
          /\ pc[a] = "finalDeduct" => plan[a].deduct # 0
          /\ pc[a] \in Attempting => plan[a].amount \in 1..Amount
    /\ pendingDetail # NoDetail => pendingDetail.refundID \in 1..Amount

Orderly == ~overlapped /\ ~blemished
Answered == {"query", "finalCheck", "finalDeduct", "finalOk"}

(* As long as audit rows are neither lost nor unseen, a pending order has its*)
(* row, or the goroutine that writes it, and a finalization goes by that row.*)
RowInv ==
    Orderly =>
        /\ status = "REFUND_PENDING" =>
              pendingDetail # NoDetail \/ \E a \in Admin : pc[a] = "pendingRow"
        /\ \A a \in Admin :
              /\ pc[a] # "queryBlind"
              /\ pc[a] \in Answered =>
                    /\ pendingDetail # NoDetail
                    /\ plan[a].deduct = 0 \/ pendingDetail.rollbackOK

(* Whoever is about to mark the order refunded has the gateway's word for it.*)
PaidOutInv ==
    /\ RefundedWasPaidOut
    /\ tradeNo => \A a \in Admin :
          /\ pc[a] = "ok" => gateway[plan[a].amount] = "success"
          /\ pc[a] \in {"finalCheck", "finalDeduct", "finalOk"} =>
                PaidOut(IF Orderly THEN {pendingDetail.refundID} ELSE 1..Amount)

(* Steps at which nothing, or exactly the plan's deduction, has been taken.  *)
BeforeDeduction == {"rollbackCheck", "deduct", "restore", "pending"}
AfterDeduction == {"gateway", "ok", "pendingRollback", "failRollback", "auditPending",
                   "auditFail"}

Clean == Orderly /\ ~rollbackFailed

(* What has been deducted follows from where the refund is.                  *)
AccountInv ==
    /\ debit <= Amount
    /\ /\ status \in {"COMPLETED", "REFUND_REQUESTED", "REFUND_PENDING", "REFUND_FAILED"}
       /\ \A a \in Admin : pc[a] # "finalOk"
       => debit = 0
    /\ \A a \in Admin :
          /\ pc[a] \in BeforeDeduction => debit = 0
          /\ pc[a] \in AfterDeduction =>
                debit = IF plan[a].deduct > 0 THEN plan[a].deduct ELSE 0
          /\ pc[a] # "refundFailed"

(* Once the row REFUND_ROLLBACK_FAILED is there, no attempt deducts or gives *)
(* back, and what is taken stays bounded until the deduction is forgotten.   *)
KeptInv ==
    Orderly /\ rollbackFailed =>
        /\ \A a \in Admin :
              /\ pc[a] \notin {"deduct", "auditPending", "auditFail"}
              /\ pc[a] \in AfterDeduction => plan[a].deduct <= 0
        /\ DeductionIsForgotten \/ debit <= Amount

DebitInv == (Clean => AccountInv) /\ KeptInv

IInv == TypeOK /\ LockInv /\ PlanInv /\ RowInv /\ PaidOutInv /\ DebitInv

-----------------------------------------------------------------------------
(* Every step keeps the types of pc and plan ...                             *)
LEMMA ControlStep ==
    ASSUME pc \in [Admin -> Label], plan \in [Admin -> Plan], status \in Status,
           balance \in Int, refundAmount \in 0..Amount, [Next]_vars
    PROVE  pc' \in [Admin -> Label] /\ plan' \in [Admin -> Plan]
<1> USE AmountAssumption
    DEF Plan, NoPlan, Status, Label, Locked, Finalizing, Goto, Done, GotoWith
<1>1. CASE RequestRefund
  BY <1>1, SMTT(30) DEF RequestRefund
<1>2. CASE UserSpends
  BY <1>2, SMTT(30) DEF UserSpends
<1>3. CASE GatewaySettles
  BY <1>3, SMTT(30) DEF GatewaySettles
<1>4. ASSUME NEW a \in Admin, Step(a)
      PROVE  pc' \in [Admin -> Label] /\ plan' \in [Admin -> Plan]
  <2>1. CASE PrepareRefund(a)
    BY <2>1, SMTT(30) DEF PrepareRefund, Refundable
  <2>2. CASE PrepDeduct(a)
    BY <2>2, SMTT(30) DEF PrepDeduct, Lesser
  <2>3. CASE LockOrder(a)
    BY <2>3, SMTT(30) DEF LockOrder, Refundable
  <2>4. CASE CheckRollbackFailed(a)
    BY <2>4, SMTT(30) DEF CheckRollbackFailed
  <2>5. CASE DeductBalance(a)
    BY <2>5, SMTT(30) DEF DeductBalance
  <2>6. CASE GatewayRefund(a)
    BY <2>6, SMTT(30) DEF GatewayRefund
  <2>7. CASE MarkRefundOk(a)
    BY <2>7, SMTT(30) DEF MarkRefundOk
  <2>8. CASE AuditRefundSuccess(a)
    BY <2>8, SMTT(30) DEF AuditRefundSuccess
  <2>9. CASE RollbackRefund(a)
    BY <2>9, SMTT(30) DEF RollbackRefund
  <2>10. CASE AuditRollbackFailed(a)
    BY <2>10, SMTT(30) DEF AuditRollbackFailed
  <2>11. CASE MarkRefundPending(a)
    BY <2>11, SMTT(30) DEF MarkRefundPending
  <2>12. CASE AuditRefundPending(a)
    BY <2>12, SMTT(30) DEF AuditRefundPending
  <2>13. CASE RestoreStatus(a)
    BY <2>13, SMTT(30) DEF RestoreStatus
  <2>14. CASE MarkRefundFailed(a)
    BY <2>14, SMTT(30) DEF MarkRefundFailed
  <2>15. CASE QueryAndFinalizeRefund(a)
    BY <2>15, SMTT(30) DEF QueryAndFinalizeRefund
  <2>16. CASE LatestRefundPendingDetail(a)
    BY <2>16, SMTT(30) DEF LatestRefundPendingDetail
  <2>17. CASE QueryRefund(a)
    BY <2>17, SMTT(30) DEF QueryRefund
  <2>18. CASE CheckRefundSuccess(a)
    BY <2>18, SMTT(30) DEF CheckRefundSuccess
  <2>19. CASE FinalDeduction(a)
    BY <2>19, SMTT(30) DEF FinalDeduction
  <2>20. CASE Crash(a)
    BY <2>20, SMTT(30) DEF Crash
  <2> QED
    BY <1>4, <2>1, <2>2, <2>3, <2>4, <2>5, <2>6, <2>7, <2>8, <2>9, <2>10, <2>11, <2>12,
       <2>13, <2>14, <2>15, <2>16, <2>17, <2>18, <2>19, <2>20 DEF Step
<1>5. CASE UNCHANGED vars
  BY <1>5 DEF vars
<1> QED
  BY <1>1, <1>2, <1>3, <1>4, <1>5 DEF Next

(* A fault that costs an audit row keeps the types of history and bounds.    *)
LEMMA BlemishStep ==
    ASSUME blemished \in BOOLEAN, overlapped \in BOOLEAN, calls \in 0..MaxCalls,
           spent \in 0..MaxSpend, faults \in 0..MaxFaults, crashes \in 0..MaxCrashes,
                  Blemish
    PROVE  blemished' \in BOOLEAN /\ overlapped' \in BOOLEAN /\ calls' \in 0..MaxCalls
           /\ spent' \in 0..MaxSpend /\ faults' \in 0..MaxFaults /\ crashes' \in
                  0..MaxCrashes
<1>1. blemished'
  BY Zenon DEF Blemish, FaultWith
<1>2. blemished' \in BOOLEAN
  BY <1>1, Zenon DEF Blemish, FaultWith
<1>3. faults' \in 0..MaxFaults /\ UNCHANGED <<calls, spent, crashes, overlapped>>
  BY RefundBoundAssumption DEF Blemish, FaultWith
<1> QED
  BY <1>2, <1>3

(* ... and of the history and the bounds ...                                 *)
LEMMA HistoryStep ==
    ASSUME blemished \in BOOLEAN, overlapped \in BOOLEAN, calls \in 0..MaxCalls,
           spent \in 0..MaxSpend, faults \in 0..MaxFaults, crashes \in 0..MaxCrashes,
                  [Next]_vars
    PROVE  blemished' \in BOOLEAN /\ overlapped' \in BOOLEAN /\ calls' \in 0..MaxCalls
           /\ spent' \in 0..MaxSpend /\ faults' \in 0..MaxFaults /\ crashes' \in
                  0..MaxCrashes
<1> USE RefundBoundAssumption
    DEF FaultWith, Fault, Blemish, NoFault, bounds, history
<1>1. CASE RequestRefund
  BY <1>1, SMTT(30) DEF RequestRefund
<1>2. CASE UserSpends
  BY <1>2, SMTT(30) DEF UserSpends
<1>3. CASE GatewaySettles
  BY <1>3, SMTT(30) DEF GatewaySettles
<1>4. ASSUME NEW a \in Admin, Step(a)
      PROVE  blemished' \in BOOLEAN /\ overlapped' \in BOOLEAN /\ calls' \in 0..MaxCalls
           /\ spent' \in 0..MaxSpend /\ faults' \in 0..MaxFaults /\ crashes' \in
                  0..MaxCrashes
  <2>1. CASE PrepareRefund(a)
    <3>1. PICK b \in BOOLEAN : Begin(b)
      BY ONLY <2>1 DEF PrepareRefund
    <3> QED
      BY <3>1 DEF Begin
  <2>2. CASE PrepDeduct(a)
    BY <2>2, SMTT(30) DEF PrepDeduct
  <2>3. CASE LockOrder(a)
    <3>1. NoFault \/ Fault
      BY ONLY <2>3 DEF LockOrder
    <3> QED
      BY <3>1
  <2>4. CASE CheckRollbackFailed(a)
    <3>1. NoFault \/ Blemish
      BY ONLY <2>4 DEF CheckRollbackFailed, HasAuditLog
    <3> QED
      BY <3>1, BlemishStep
  <2>5. CASE DeductBalance(a)
    <3>1. NoFault \/ Fault
      BY ONLY <2>5 DEF DeductBalance
    <3> QED
      BY <3>1
  <2>6. CASE GatewayRefund(a)
    <3>1. NoFault \/ Fault
      BY ONLY <2>6 DEF GatewayRefund
    <3> QED
      BY <3>1
  <2>7. CASE MarkRefundOk(a)
    <3>1. PICK b \in BOOLEAN : NoFault \/ FaultWith(b)
      BY ONLY <2>7 DEF MarkRefundOk
    <3> QED
      BY <3>1
  <2>8. CASE AuditRefundSuccess(a)
    <3>1. NoFault \/ Blemish
      BY ONLY <2>8 DEF AuditRefundSuccess
    <3> QED
      BY <3>1, BlemishStep
  <2>9. CASE RollbackRefund(a)
    <3>1. NoFault \/ Fault
      BY ONLY <2>9 DEF RollbackRefund
    <3> QED
      BY <3>1
  <2>10. CASE AuditRollbackFailed(a)
    <3>1. NoFault \/ Blemish
      BY ONLY <2>10 DEF AuditRollbackFailed
    <3> QED
      BY <3>1, BlemishStep
  <2>11. CASE MarkRefundPending(a)
    <3>1. NoFault \/ Fault
      BY ONLY <2>11 DEF MarkRefundPending
    <3> QED
      BY <3>1
  <2>12. CASE AuditRefundPending(a)
    <3>1. NoFault \/ Blemish
      BY ONLY <2>12 DEF AuditRefundPending
    <3> QED
      BY <3>1, BlemishStep
  <2>13. CASE RestoreStatus(a)
    <3>1. NoFault \/ Fault
      BY ONLY <2>13 DEF RestoreStatus
    <3> QED
      BY <3>1
  <2>14. CASE MarkRefundFailed(a)
    <3>1. NoFault \/ Fault
      BY ONLY <2>14 DEF MarkRefundFailed
    <3> QED
      BY <3>1
  <2>15. CASE QueryAndFinalizeRefund(a)
    <3>1. PICK b \in BOOLEAN : Begin(b)
      BY ONLY <2>15 DEF QueryAndFinalizeRefund
    <3> QED
      BY <3>1 DEF Begin
  <2>16. CASE LatestRefundPendingDetail(a)
    <3>1. NoFault \/ Blemish
      BY ONLY <2>16 DEF LatestRefundPendingDetail
    <3> QED
      BY <3>1, BlemishStep
  <2>17. CASE QueryRefund(a)
    <3>1. NoFault \/ Fault
      BY ONLY <2>17 DEF QueryRefund
    <3> QED
      BY <3>1
  <2>18. CASE CheckRefundSuccess(a)
    <3>1. NoFault \/ Blemish
      BY ONLY <2>18 DEF CheckRefundSuccess, HasAuditLog
    <3> QED
      BY <3>1, BlemishStep
  <2>19. CASE FinalDeduction(a)
    <3>1. NoFault \/ Fault
      BY ONLY <2>19 DEF FinalDeduction
    <3> QED
      BY <3>1
  <2>20. CASE Crash(a)
    BY <2>20, SMTT(30) DEF Crash
  <2> QED
    BY <1>4, <2>1, <2>2, <2>3, <2>4, <2>5, <2>6, <2>7, <2>8, <2>9, <2>10, <2>11, <2>12,
       <2>13, <2>14, <2>15, <2>16, <2>17, <2>18, <2>19, <2>20 DEF Step
<1>5. CASE UNCHANGED vars
  BY <1>5 DEF vars
<1> QED
  BY <1>1, <1>2, <1>3, <1>4, <1>5 DEF Next

(* ... and of what the database and the gateway keep.                        *)
StoredOK ==
    /\ status \in Status /\ refundAmount \in 0..Amount
    /\ balance \in Int /\ debit \in Int
    /\ tradeNo \in BOOLEAN
    /\ gateway \in [1..Amount -> {"none", "pending", "success"}]
    /\ rollbackFailed \in BOOLEAN /\ refundSuccess \in BOOLEAN
    /\ pendingDetail \in Detail

(* Every step keeps what is stored in its type.                              *)
LEMMA StoredStep ==
    ASSUME StoredOK, plan \in [Admin -> Plan], [Next]_vars
    PROVE  StoredOK'
<1> USE AmountAssumption
    DEF StoredOK, Plan, Detail, Status, Goto, audit, provider
<1>1. CASE RequestRefund
  BY <1>1, SMTT(30) DEF RequestRefund
<1>2. CASE UserSpends
  BY <1>2, SMTT(30) DEF UserSpends
<1>3. CASE GatewaySettles
  BY <1>3, SMTT(30) DEF GatewaySettles, GatewayAnswer
<1>4. ASSUME NEW a \in Admin, Step(a)
      PROVE  StoredOK'
  <2>1. CASE PrepareRefund(a)
    BY <2>1, SMTT(30) DEF PrepareRefund
  <2>2. CASE PrepDeduct(a)
    BY <2>2, SMTT(30) DEF PrepDeduct
  <2>3. CASE LockOrder(a)
    BY <2>3, SMTT(30) DEF LockOrder
  <2>4. CASE CheckRollbackFailed(a)
    BY <2>4, SMTT(30) DEF CheckRollbackFailed
  <2>5. CASE DeductBalance(a)
    BY <2>5, SMTT(30) DEF DeductBalance, Charge, NoCharge
  <2>6. CASE GatewayRefund(a)
    BY <2>6, SMTT(30) DEF GatewayRefund, GatewayAnswer
  <2>7. CASE MarkRefundOk(a)
    <3>1. plan[a].amount \in 0..Amount /\ plan[a].deduct \in Int
      OBVIOUS
    <3>2. status' \in Status /\ refundAmount' \in 0..Amount
      BY <2>7, <3>1 DEF MarkRefundOk
    <3>3. balance' \in Int /\ debit' \in Int
      BY <2>7, <3>1 DEF MarkRefundOk, Charge, NoCharge
    <3> QED
      BY <2>7, <3>2, <3>3 DEF MarkRefundOk
  <2>8. CASE AuditRefundSuccess(a)
    <3>1. plan[a].amount \in 0..Amount /\ plan[a].deduct \in Int
      OBVIOUS
    <3>2. refundSuccess' \in BOOLEAN
      BY ONLY <2>8, <3>1, StoredOK, AmountAssumption
         DEF AuditRefundSuccess, StoredOK, Detail
    <3>3. UNCHANGED <<status, refundAmount, balance, debit, provider, rollbackFailed,
           pendingDetail>>
      BY ONLY <2>8 DEF AuditRefundSuccess
    <3> QED
      BY <3>2, <3>3
  <2>9. CASE RollbackRefund(a)
    <3>1. plan[a].amount \in 0..Amount /\ plan[a].deduct \in Int
      OBVIOUS
    <3>2. status' \in Status /\ refundAmount' \in 0..Amount
      BY <2>9, <3>1 DEF RollbackRefund
    <3>3. balance' \in Int /\ debit' \in Int
      BY <2>9, <3>1 DEF RollbackRefund, Charge, NoCharge
    <3> QED
      BY <2>9, <3>2, <3>3 DEF RollbackRefund
  <2>10. CASE AuditRollbackFailed(a)
    <3>1. plan[a].amount \in 0..Amount /\ plan[a].deduct \in Int
      OBVIOUS
    <3>2. rollbackFailed' \in BOOLEAN
      BY ONLY <2>10, <3>1, StoredOK, AmountAssumption
         DEF AuditRollbackFailed, StoredOK, Detail
    <3>3. UNCHANGED <<status, refundAmount, balance, debit, provider, refundSuccess,
           pendingDetail>>
      BY ONLY <2>10 DEF AuditRollbackFailed
    <3> QED
      BY <3>2, <3>3
  <2>11. CASE MarkRefundPending(a)
    <3>1. plan[a].amount \in 0..Amount /\ plan[a].deduct \in Int
      OBVIOUS
    <3>2. status' \in Status /\ refundAmount' \in 0..Amount
      BY <2>11, <3>1 DEF MarkRefundPending
    <3>3. balance' \in Int /\ debit' \in Int
      BY <2>11, <3>1 DEF MarkRefundPending, Charge, NoCharge
    <3> QED
      BY <2>11, <3>2, <3>3 DEF MarkRefundPending
  <2>12. CASE AuditRefundPending(a)
    <3>1. plan[a].amount \in 0..Amount /\ plan[a].deduct \in Int
      OBVIOUS
    <3>2. pendingDetail' \in Detail
      <4> DEFINE first == [refundID |-> plan[a].amount, rollbackOK |-> plan[a].deduct <= 0]
      <4>1. pendingDetail' = pendingDetail \/ pendingDetail' = first
        BY ONLY <2>12, Zenon DEF AuditRefundPending
      <4>2. (plan[a].deduct <= 0) \in BOOLEAN
        BY ONLY <3>1
      <4>3. first \in Detail
        BY ONLY <3>1, <4>2, Zenon DEF Detail
      <4> QED
        BY ONLY <4>1, <4>3, StoredOK DEF StoredOK
    <3>3. UNCHANGED <<status, refundAmount, balance, debit, provider, rollbackFailed,
           refundSuccess>>
      BY ONLY <2>12 DEF AuditRefundPending
    <3> QED
      BY <3>2, <3>3
  <2>13. CASE RestoreStatus(a)
    BY <2>13, SMTT(30) DEF RestoreStatus
  <2>14. CASE MarkRefundFailed(a)
    BY <2>14, SMTT(30) DEF MarkRefundFailed
  <2>15. CASE QueryAndFinalizeRefund(a)
    BY <2>15, SMTT(30) DEF QueryAndFinalizeRefund
  <2>16. CASE LatestRefundPendingDetail(a)
    BY <2>16, SMTT(30) DEF LatestRefundPendingDetail
  <2>17. CASE QueryRefund(a)
    BY <2>17, SMTT(30) DEF QueryRefund
  <2>18. CASE CheckRefundSuccess(a)
    BY <2>18, SMTT(30) DEF CheckRefundSuccess
  <2>19. CASE FinalDeduction(a)
    BY <2>19, SMTT(30) DEF FinalDeduction, Charge, NoCharge
  <2>20. CASE Crash(a)
    BY <2>20, SMTT(30) DEF Crash
  <2> QED
    BY <1>4, <2>1, <2>2, <2>3, <2>4, <2>5, <2>6, <2>7, <2>8, <2>9, <2>10, <2>11, <2>12,
       <2>13, <2>14, <2>15, <2>16, <2>17, <2>18, <2>19, <2>20 DEF Step
<1>5. CASE UNCHANGED vars
  BY <1>5 DEF vars
<1> QED
  BY <1>1, <1>2, <1>3, <1>4, <1>5 DEF Next

(* Together: every step keeps the types.                                     *)
LEMMA TypeStep ==
    ASSUME TypeOK, [Next]_vars
    PROVE  TypeOK'
  BY ControlStep, HistoryStep, StoredStep DEF TypeOK, StoredOK

(* Every step keeps the lock.                                                *)
LEMMA LockStep ==
    ASSUME TypeOK, LockInv, [Next]_vars
    PROVE  LockInv'
<1> USE
    DEF TypeOK, LockInv, Label, Locked, Finalizing, Goto, Done, GotoWith, FaultWith,
        Fault, Blemish, NoFault, bounds, history, audit, provider, vars
<1>1. CASE RequestRefund
  BY <1>1, SMTT(30) DEF RequestRefund
<1>2. CASE UserSpends
  BY <1>2, SMTT(30) DEF UserSpends
<1>3. CASE GatewaySettles
  BY <1>3, SMTT(30) DEF GatewaySettles, GatewayAnswer
<1>4. ASSUME NEW a \in Admin, Step(a)
      PROVE  LockInv'
  <2>1. CASE PrepareRefund(a)
    <3>1. PICK label \in {"prepDeduct", "lock"} : pc' = [pc EXCEPT ![a] = label]
      BY <2>1 DEF PrepareRefund
    <3>2. overlapped' \/ (~overlapped /\ \A b \in Admin : pc[b] \notin Finalizing)
      BY <2>1 DEF PrepareRefund, Begin
    <3> QED
      BY <2>1, <3>1, <3>2 DEF PrepareRefund
  <2>2. CASE PrepDeduct(a)
    BY <2>2, SMTT(30) DEF PrepDeduct, Lesser
  <2>3. CASE LockOrder(a)
    BY <2>3, SMTT(30) DEF LockOrder, Refundable
  <2>4. CASE CheckRollbackFailed(a)
    BY <2>4, SMTT(30) DEF CheckRollbackFailed, HasAuditLog
  <2>5. CASE DeductBalance(a)
    BY <2>5, SMTT(30) DEF DeductBalance, Charge, NoCharge
  <2>6. CASE GatewayRefund(a)
    BY <2>6, SMTT(30) DEF GatewayRefund, GatewayAnswer
  <2>7. CASE MarkRefundOk(a)
    BY <2>7, SMTT(30) DEF MarkRefundOk
  <2>8. CASE AuditRefundSuccess(a)
    BY <2>8, SMTT(30) DEF AuditRefundSuccess
  <2>9. CASE RollbackRefund(a)
    BY <2>9, SMTT(30) DEF RollbackRefund, Charge, NoCharge
  <2>10. CASE AuditRollbackFailed(a)
    BY <2>10, SMTT(30) DEF AuditRollbackFailed
  <2>11. CASE MarkRefundPending(a)
    BY <2>11, SMTT(30) DEF MarkRefundPending
  <2>12. CASE AuditRefundPending(a)
    BY <2>12, SMTT(30) DEF AuditRefundPending
  <2>13. CASE RestoreStatus(a)
    BY <2>13, SMTT(30) DEF RestoreStatus
  <2>14. CASE MarkRefundFailed(a)
    BY <2>14, SMTT(30) DEF MarkRefundFailed
  <2>15. CASE QueryAndFinalizeRefund(a)
    <3>1. pc' = [pc EXCEPT ![a] = "detail"] /\ status' = status /\ status = "REFUND_PENDING"
            /\ pc[a] = "idle"
      BY <2>15 DEF QueryAndFinalizeRefund
    <3>2. overlapped' \/ (~overlapped /\ \A b \in Admin \ {a} : pc[b] = "idle")
      BY <2>15 DEF QueryAndFinalizeRefund, Begin
    <3> QED
      BY <3>1, <3>2
  <2>16. CASE LatestRefundPendingDetail(a)
    BY <2>16, SMTT(30) DEF LatestRefundPendingDetail
  <2>17. CASE QueryRefund(a)
    BY <2>17, SMTT(30) DEF QueryRefund
  <2>18. CASE CheckRefundSuccess(a)
    BY <2>18, SMTT(30) DEF CheckRefundSuccess, HasAuditLog
  <2>19. CASE FinalDeduction(a)
    BY <2>19, SMTT(30) DEF FinalDeduction, Charge, NoCharge
  <2>20. CASE Crash(a)
    BY <2>20, SMTT(30) DEF Crash
  <2> QED
    BY <1>4, <2>1, <2>2, <2>3, <2>4, <2>5, <2>6, <2>7, <2>8, <2>9, <2>10, <2>11, <2>12,
       <2>13, <2>14, <2>15, <2>16, <2>17, <2>18, <2>19, <2>20 DEF Step
<1>5. CASE UNCHANGED vars
  BY <1>5
<1> QED
  BY <1>1, <1>2, <1>3, <1>4, <1>5 DEF Next

(* Without overlap, whoever holds the lock or finalizes is the only one.     *)
LEMMA Alone ==
    ASSUME TypeOK, LockInv, ~overlapped, NEW a \in Admin, pc[a] \in Locked \union Finalizing
    PROVE  \A b \in Admin \ {a} : pc[b] \notin Locked \union Finalizing
  BY DEF TypeOK, LockInv, Locked, Finalizing

(* Lost audit rows, overlaps and failed rollbacks are not forgotten.         *)
LEMMA OrderlyStep ==
    ASSUME rollbackFailed \in BOOLEAN, blemished \in BOOLEAN, overlapped \in BOOLEAN,
           [Next]_vars
    PROVE  (Orderly' => Orderly) /\ (rollbackFailed => rollbackFailed')
<1> USE
    DEF Orderly, FaultWith, Fault, Blemish, NoFault, bounds, history, audit
<1>1. CASE RequestRefund
  BY <1>1, SMTT(30) DEF RequestRefund
<1>2. CASE UserSpends
  BY <1>2, SMTT(30) DEF UserSpends
<1>3. CASE GatewaySettles
  BY <1>3, SMTT(30) DEF GatewaySettles
<1>4. ASSUME NEW a \in Admin, Step(a)
      PROVE  (Orderly' => Orderly) /\ (rollbackFailed => rollbackFailed')
  <2>1. CASE PrepareRefund(a)
    BY <2>1, SMTT(30) DEF PrepareRefund, Begin
  <2>2. CASE PrepDeduct(a)
    BY <2>2, SMTT(30) DEF PrepDeduct
  <2>3. CASE LockOrder(a)
    BY <2>3, SMTT(30) DEF LockOrder
  <2>4. CASE CheckRollbackFailed(a)
    BY <2>4, SMTT(30) DEF CheckRollbackFailed, HasAuditLog
  <2>5. CASE DeductBalance(a)
    BY <2>5, SMTT(30) DEF DeductBalance
  <2>6. CASE GatewayRefund(a)
    BY <2>6, SMTT(30) DEF GatewayRefund
  <2>7. CASE MarkRefundOk(a)
    BY <2>7, SMTT(30) DEF MarkRefundOk
  <2>8. CASE AuditRefundSuccess(a)
    BY <2>8, SMTT(30) DEF AuditRefundSuccess
  <2>9. CASE RollbackRefund(a)
    BY <2>9, SMTT(30) DEF RollbackRefund
  <2>10. CASE AuditRollbackFailed(a)
    BY <2>10, SMTT(30) DEF AuditRollbackFailed
  <2>11. CASE MarkRefundPending(a)
    BY <2>11, SMTT(30) DEF MarkRefundPending
  <2>12. CASE AuditRefundPending(a)
    BY <2>12, SMTT(30) DEF AuditRefundPending
  <2>13. CASE RestoreStatus(a)
    BY <2>13, SMTT(30) DEF RestoreStatus
  <2>14. CASE MarkRefundFailed(a)
    BY <2>14, SMTT(30) DEF MarkRefundFailed
  <2>15. CASE QueryAndFinalizeRefund(a)
    BY <2>15, SMTT(30) DEF QueryAndFinalizeRefund, Begin
  <2>16. CASE LatestRefundPendingDetail(a)
    BY <2>16, SMTT(30) DEF LatestRefundPendingDetail
  <2>17. CASE QueryRefund(a)
    BY <2>17, SMTT(30) DEF QueryRefund
  <2>18. CASE CheckRefundSuccess(a)
    BY <2>18, SMTT(30) DEF CheckRefundSuccess, HasAuditLog
  <2>19. CASE FinalDeduction(a)
    BY <2>19, SMTT(30) DEF FinalDeduction
  <2>20. CASE Crash(a)
    BY <2>20, SMTT(30) DEF Crash
  <2> QED
    BY <1>4, <2>1, <2>2, <2>3, <2>4, <2>5, <2>6, <2>7, <2>8, <2>9, <2>10, <2>11, <2>12,
       <2>13, <2>14, <2>15, <2>16, <2>17, <2>18, <2>19, <2>20 DEF Step
<1>5. CASE UNCHANGED vars
  BY <1>5 DEF vars
<1> QED
  BY <1>1, <1>2, <1>3, <1>4, <1>5 DEF Next

(* Every step keeps the plans in their bounds.                               *)
LEMMA PlanStep ==
    ASSUME TypeOK, PlanInv, [Next]_vars
    PROVE  PlanInv'
<1> USE AmountAssumption, RefundBoundAssumption, OpsAssumption, DeductAssumption
    DEF TypeOK, PlanInv, Plan, NoPlan, Detail, NoDetail, Attempting, Locked, Goto,
        Done, GotoWith, audit
<1>1. CASE RequestRefund
  BY <1>1, SMTT(30) DEF RequestRefund
<1>2. CASE UserSpends
  BY <1>2, SMTT(30) DEF UserSpends
<1>3. CASE GatewaySettles
  BY <1>3, SMTT(30) DEF GatewaySettles
<1>4. ASSUME NEW a \in Admin, Step(a)
      PROVE  PlanInv'
  <2>1. CASE PrepareRefund(a)
    BY <2>1, SMTT(30) DEF PrepareRefund
  <2>2. CASE PrepDeduct(a)
    <3>1. plan[a].amount \in 0..Amount /\ plan[a].deduct \in Int /\ balance \in Int
      OBVIOUS
    <3>2. PICK n \in Int : n <= Amount /\ (GotoWith(a, "lock",
           [plan[a] EXCEPT !.deduct = n]) \/ Done(a))
      BY ONLY <2>2, <3>1, TypeOK, PlanInv, AmountAssumption
         DEF PrepDeduct, Lesser, PlanInv, Goto, GotoWith, TypeOK, Plan
    <3>3. pendingDetail' = pendingDetail
      BY <2>2 DEF PrepDeduct
    <3> QED
      <4>1. CASE Done(a)
        BY <4>1, <3>3
      <4>2. CASE GotoWith(a, "lock", [plan[a] EXCEPT !.deduct = n])
        <5>1. \A b \in Admin : plan'[b].deduct <= Amount
          BY <4>2, <3>1, <3>2
        <5>2. \A b \in Admin : b # a => pc'[b] = pc[b] /\ plan'[b] = plan[b]
          BY <4>2
        <5>3. pc'[a] = "lock" /\ plan'[a].amount = plan[a].amount /\ pc[a] = "prepDeduct"
          BY <2>2, <4>2 DEF PrepDeduct
        <5>4. plan[a].amount \in 1..Amount
          BY <5>3
        <5> QED
          BY ONLY <5>1, <5>2, <5>3, <5>4, <3>3, PlanInv DEF PlanInv, Attempting, Locked
      <4> QED
        BY <3>2, <4>1, <4>2
  <2>3. CASE LockOrder(a)
    <3>1. Goto(a, "rollbackCheck") \/ Done(a)
      BY ONLY <2>3 DEF LockOrder
    <3>2. pc[a] = "lock" /\ pendingDetail' = pendingDetail
      BY <2>3 DEF LockOrder
    <3> QED
      BY <3>1, <3>2
  <2>4. CASE CheckRollbackFailed(a)
    BY <2>4, SMTT(30) DEF CheckRollbackFailed
  <2>5. CASE DeductBalance(a)
    BY <2>5, SMTT(30) DEF DeductBalance
  <2>6. CASE GatewayRefund(a)
    BY <2>6, SMTT(30) DEF GatewayRefund
  <2>7. CASE MarkRefundOk(a)
    BY <2>7, SMTT(30) DEF MarkRefundOk
  <2>8. CASE AuditRefundSuccess(a)
    BY <2>8, SMTT(30) DEF AuditRefundSuccess
  <2>9. CASE RollbackRefund(a)
    BY <2>9, SMTT(30) DEF RollbackRefund
  <2>10. CASE AuditRollbackFailed(a)
    BY <2>10, SMTT(30) DEF AuditRollbackFailed
  <2>11. CASE MarkRefundPending(a)
    BY <2>11, SMTT(30) DEF MarkRefundPending
  <2>12. CASE AuditRefundPending(a)
    BY <2>12, SMTT(30) DEF AuditRefundPending
  <2>13. CASE RestoreStatus(a)
    BY <2>13, SMTT(30) DEF RestoreStatus
  <2>14. CASE MarkRefundFailed(a)
    BY <2>14, SMTT(30) DEF MarkRefundFailed
  <2>15. CASE QueryAndFinalizeRefund(a)
    <3>1. GotoWith(a, "detail", [read |-> status, amount |-> refundAmount, deduct |-> 0])
            /\ pendingDetail' = pendingDetail
      BY <2>15 DEF QueryAndFinalizeRefund
    <3> QED
      BY <3>1
  <2>16. CASE LatestRefundPendingDetail(a)
    <3>1. PICK n \in 0..Amount, label \in {"query", "queryBlind"} :
               GotoWith(a, label, [plan[a] EXCEPT !.deduct = n])
      <4>1. plan[a].amount \in 0..Amount /\ 0 \in 0..Amount
        OBVIOUS
      <4> QED
        BY ONLY <2>16, <4>1 DEF LatestRefundPendingDetail
    <3>2. pendingDetail' = pendingDetail
      BY <2>16 DEF LatestRefundPendingDetail
    <3> QED
      BY <3>1, <3>2
  <2>17. CASE QueryRefund(a)
    BY <2>17, SMTT(30) DEF QueryRefund
  <2>18. CASE CheckRefundSuccess(a)
    BY <2>18, SMTT(30) DEF CheckRefundSuccess
  <2>19. CASE FinalDeduction(a)
    BY <2>19, SMTT(30) DEF FinalDeduction
  <2>20. CASE Crash(a)
    BY <2>20, SMTT(30) DEF Crash
  <2> QED
    BY <1>4, <2>1, <2>2, <2>3, <2>4, <2>5, <2>6, <2>7, <2>8, <2>9, <2>10, <2>11, <2>12,
       <2>13, <2>14, <2>15, <2>16, <2>17, <2>18, <2>19, <2>20 DEF Step
<1>5. CASE UNCHANGED vars
  BY <1>5 DEF vars, audit
<1> QED
  BY <1>1, <1>2, <1>3, <1>4, <1>5 DEF Next

(* Every step keeps the link between the order and its audit row.            *)
LEMMA RowStep ==
    ASSUME TypeOK, LockInv, PlanInv, RowInv, Orderly, Orderly', [Next]_vars
    PROVE  RowInv'
<1> USE AmountAssumption, RefundBoundAssumption, OpsAssumption, DeductAssumption
    DEF TypeOK, LockInv, PlanInv, RowInv, Orderly, Answered, Attempting, Locked,
        Finalizing, Plan, NoPlan, Detail, NoDetail, Goto, Done, GotoWith, FaultWith,
        Fault, Blemish, NoFault, bounds, history, audit, provider, vars
<1>1. CASE RequestRefund
  BY <1>1, SMTT(30) DEF RequestRefund
<1>2. CASE UserSpends
  BY <1>2, SMTT(30) DEF UserSpends
<1>3. CASE GatewaySettles
  BY <1>3, SMTT(30) DEF GatewaySettles, GatewayAnswer
<1>4. ASSUME NEW a \in Admin, Step(a)
      PROVE  RowInv'
  <2>1. CASE PrepareRefund(a)
    BY <2>1, SMTT(30) DEF PrepareRefund, Begin, Refundable
  <2>2. CASE PrepDeduct(a)
    BY <2>2, SMTT(30) DEF PrepDeduct, Lesser
  <2>3. CASE LockOrder(a)
    BY <2>3, SMTT(30), Alone DEF LockOrder, Refundable
  <2>4. CASE CheckRollbackFailed(a)
    BY <2>4, SMTT(30), Alone DEF CheckRollbackFailed, HasAuditLog
  <2>5. CASE DeductBalance(a)
    BY <2>5, SMTT(30), Alone DEF DeductBalance, Charge, NoCharge
  <2>6. CASE GatewayRefund(a)
    BY <2>6, SMTT(30), Alone DEF GatewayRefund, GatewayAnswer
  <2>7. CASE MarkRefundOk(a)
    BY <2>7, SMTT(30), Alone DEF MarkRefundOk
  <2>8. CASE AuditRefundSuccess(a)
    BY <2>8, SMTT(30), Alone DEF AuditRefundSuccess
  <2>9. CASE RollbackRefund(a)
    BY <2>9, SMTT(30), Alone DEF RollbackRefund, Charge, NoCharge
  <2>10. CASE AuditRollbackFailed(a)
    BY <2>10, SMTT(30), Alone DEF AuditRollbackFailed
  <2>11. CASE MarkRefundPending(a)
    BY <2>11, SMTT(30), Alone DEF MarkRefundPending
  <2>12. CASE AuditRefundPending(a)
    BY <2>12, SMTT(30), Alone DEF AuditRefundPending
  <2>13. CASE RestoreStatus(a)
    BY <2>13, SMTT(30), Alone DEF RestoreStatus
  <2>14. CASE MarkRefundFailed(a)
    BY <2>14, SMTT(30), Alone DEF MarkRefundFailed
  <2>15. CASE QueryAndFinalizeRefund(a)
    BY <2>15, SMTT(30), Alone DEF QueryAndFinalizeRefund, Begin
  <2>16. CASE LatestRefundPendingDetail(a)
    <3>1. pc[a] = "detail" /\ UNCHANGED <<status, pendingDetail>>
      BY ONLY <2>16 DEF LatestRefundPendingDetail, audit
    <3>2. status = "REFUND_PENDING" /\ \A b \in Admin \ {a} : pc[b] = "idle"
      BY <3>1
    <3>3. pendingDetail # NoDetail
      BY <3>1, <3>2
    <3>4. ~Blemish
      BY DEF Blemish
    <3>5. GotoWith(a, "query", [plan[a] EXCEPT !.deduct =
                                   IF pendingDetail.rollbackOK THEN plan[a].amount ELSE 0])
      BY ONLY <2>16, <3>3, <3>4 DEF LatestRefundPendingDetail
    <3>6. pc' = [pc EXCEPT ![a] = "query"] /\ plan'[a].deduct =
                                   IF pendingDetail.rollbackOK THEN plan[a].amount ELSE 0
      BY <3>5
    <3>7. \A b \in Admin : b # a => pc'[b] = "idle"
      BY <3>2, <3>6
    <3> QED
      BY ONLY <3>1, <3>3, <3>6, <3>7, TypeOK DEF RowInv, Answered, TypeOK
  <2>17. CASE QueryRefund(a)
    BY <2>17, SMTT(30), Alone DEF QueryRefund
  <2>18. CASE CheckRefundSuccess(a)
    BY <2>18, SMTT(30), Alone DEF CheckRefundSuccess, HasAuditLog
  <2>19. CASE FinalDeduction(a)
    BY <2>19, SMTT(30), Alone DEF FinalDeduction, Charge, NoCharge
  <2>20. CASE Crash(a)
    BY <2>20, SMTT(30), Alone DEF Crash
  <2> QED
    BY <1>4, <2>1, <2>2, <2>3, <2>4, <2>5, <2>6, <2>7, <2>8, <2>9, <2>10, <2>11, <2>12,
       <2>13, <2>14, <2>15, <2>16, <2>17, <2>18, <2>19, <2>20 DEF Step
<1>5. CASE UNCHANGED vars
  BY <1>5
<1> QED
  BY <1>1, <1>2, <1>3, <1>4, <1>5 DEF Next

(* The gateway's word is kept while the order is not marked refunded, nobody *)
(* new is about to, and the first pending row stays the first.               *)
LEMMA PaidOutKept ==
    ASSUME TypeOK, PaidOutInv, Orderly' => Orderly, tradeNo' = tradeNo,
           pendingDetail' = pendingDetail \/ pendingDetail.refundID = 0,
           \A n \in 1..Amount : gateway[n] = "success" => gateway'[n] = "success",
           status' \in {"REFUNDED", "PARTIALLY_REFUNDED"} =>
              status' = status /\ refundAmount' = refundAmount,
           \A b \in Admin :
              \/ pc'[b] \notin {"ok", "finalCheck", "finalDeduct", "finalOk"}
              \/ pc'[b] = pc[b] /\ plan'[b].amount = plan[b].amount
              \/ pc'[b] = "ok" /\ (tradeNo => gateway'[plan'[b].amount] = "success"),
           \A b \in Admin : pc[b] = "ok" => plan[b].amount \in 1..Amount
    PROVE  PaidOutInv'
<1>1. ASSUME NEW S, NEW T, PaidOut(S), S \intersect 1..Amount \subseteq T
      PROVE  PaidOut(T)'
  BY <1>1 DEF PaidOut
<1>2. {refundAmount, pendingDetail.refundID} \intersect 1..Amount
         \subseteq {refundAmount, pendingDetail'.refundID}
  BY AmountAssumption DEF TypeOK
<1>3. RefundedWasPaidOut'
  BY <1>1, <1>2, Zenon DEF PaidOutInv, RefundedWasPaidOut, Orderly
<1>4. ASSUME tradeNo', NEW b \in Admin
      PROVE  /\ pc'[b] = "ok" => gateway'[plan'[b].amount] = "success"
             /\ pc'[b] \in {"finalCheck", "finalDeduct", "finalOk"} =>
                   PaidOut(IF Orderly THEN {pendingDetail.refundID} ELSE 1..Amount)'
  <2>1. pc'[b] = "ok" => gateway'[plan'[b].amount] = "success"
    BY <1>4 DEF PaidOutInv
  <2>2. ASSUME pc'[b] \in {"finalCheck", "finalDeduct", "finalOk"}
        PROVE  PaidOut(IF Orderly THEN {pendingDetail.refundID} ELSE 1..Amount)'
    <3>1. PaidOut(IF Orderly THEN {pendingDetail.refundID} ELSE 1..Amount)
      BY <1>4, <2>2 DEF PaidOutInv
    <3>2. CASE Orderly'
      <4>1. PaidOut({pendingDetail.refundID})
        BY <3>1, <3>2
      <4>2. pendingDetail' = pendingDetail
        BY <4>1, AmountAssumption DEF PaidOut
      <4> QED
        BY <3>2, <4>1, <4>2, <1>1
    <3>3. CASE ~Orderly'
      BY <3>1, <3>3, <1>1
    <3> QED
      BY <3>2, <3>3
  <2> QED
    BY <2>1, <2>2
<1> QED
  BY <1>3, <1>4 DEF PaidOutInv

(* Every step keeps the link between the order and the gateway.              *)
LEMMA PaidOutStep ==
    ASSUME TypeOK, PlanInv, RowInv, PaidOutInv, Orderly' => Orderly, [Next]_vars
    PROVE  PaidOutInv'
<1> USE AmountAssumption, RefundBoundAssumption, OpsAssumption, DeductAssumption
    DEF TypeOK, PlanInv, RowInv, PaidOutInv, RefundedWasPaidOut, PaidOut, Orderly,
        Answered, Attempting, Locked, Plan, Detail, NoDetail, Goto, Done, GotoWith,
        FaultWith, Fault, Blemish, NoFault, bounds, history, audit, provider, vars
<1>1. CASE RequestRefund
  BY <1>1, SMTT(30) DEF RequestRefund
<1>2. CASE UserSpends
  BY <1>2, SMTT(30) DEF UserSpends
<1>3. CASE GatewaySettles
  BY <1>3, SMTT(30) DEF GatewaySettles, GatewayAnswer
<1>4. ASSUME NEW a \in Admin, Step(a)
      PROVE  PaidOutInv'
  <2>1. CASE PrepareRefund(a)
    BY <2>1, SMTT(30) DEF PrepareRefund, Begin, Refundable
  <2>2. CASE PrepDeduct(a)
    BY <2>2, SMTT(30) DEF PrepDeduct, Lesser
  <2>3. CASE LockOrder(a)
    <3>1. UNCHANGED <<provider, pendingDetail>>
      BY ONLY <2>3 DEF LockOrder, audit
    <3>2. status' \in {"REFUNDED", "PARTIALLY_REFUNDED"} =>
             status' = status /\ refundAmount' = refundAmount
      BY ONLY <2>3 DEF LockOrder
    <3>3. \A b \in Admin : pc'[b] \in {"ok", "finalCheck", "finalDeduct", "finalOk"} =>
                             pc'[b] = pc[b] /\ plan'[b].amount = plan[b].amount
      BY ONLY <2>3, TypeOK DEF LockOrder, TypeOK, Plan, NoPlan, Goto, GotoWith, Done
    <3>4. \A b \in Admin : pc[b] = "ok" => plan[b].amount \in 1..Amount
      BY ONLY PlanInv DEF PlanInv, Attempting, Locked
    <3> QED
      BY ONLY <3>1, <3>2, <3>3, <3>4, PaidOutKept, TypeOK, PaidOutInv, Orderly' => Orderly
         DEF provider
  <2>4. CASE CheckRollbackFailed(a)
    BY <2>4, SMTT(30) DEF CheckRollbackFailed, HasAuditLog
  <2>5. CASE DeductBalance(a)
    BY <2>5, SMTT(30) DEF DeductBalance, Charge, NoCharge
  <2>6. CASE GatewayRefund(a)
    <3>1. UNCHANGED <<tradeNo, pendingDetail, status, refundAmount, plan>>
      BY ONLY <2>6 DEF GatewayRefund, audit, provider, GatewayAnswer, Goto
    <3>2. plan[a].amount \in 1..Amount
      BY ONLY <2>6, PlanInv DEF GatewayRefund, PlanInv, Attempting, Locked
    <3>3. \A n \in 1..Amount : gateway[n] = "success" => gateway'[n] = "success"
      BY ONLY <2>6, TypeOK DEF GatewayRefund, provider, GatewayAnswer, TypeOK
    <3>4. \A b \in Admin : b # a => pc'[b] = pc[b]
      BY ONLY <2>6, TypeOK DEF GatewayRefund, Goto, TypeOK
    <3>5. pc'[a] \in {"ok", "pendingRollback", "failRollback"}
      BY ONLY <2>6, TypeOK DEF GatewayRefund, Goto, TypeOK
    <3>6. pc'[a] = "ok" /\ tradeNo => gateway'[plan[a].amount] = "success"
      BY ONLY <2>6, <3>2, TypeOK DEF GatewayRefund, GatewayAnswer, Goto, TypeOK
    <3>7. \A b \in Admin : pc[b] = "ok" => plan[b].amount \in 1..Amount
      BY ONLY PlanInv DEF PlanInv, Attempting, Locked
    <3> QED
      BY ONLY <3>1, <3>3, <3>4, <3>5, <3>6, <3>7, PaidOutKept, TypeOK, PaidOutInv,
              Orderly' => Orderly
  <2>7. CASE MarkRefundOk(a)
    BY <2>7, SMTT(30) DEF MarkRefundOk
  <2>8. CASE AuditRefundSuccess(a)
    BY <2>8, SMTT(30) DEF AuditRefundSuccess
  <2>9. CASE RollbackRefund(a)
    <3>1. UNCHANGED <<provider, pendingDetail>>
      BY ONLY <2>9 DEF RollbackRefund, audit
    <3>2. status' \in {"REFUNDED", "PARTIALLY_REFUNDED"} =>
             status' = status /\ refundAmount' = refundAmount
      BY ONLY <2>9 DEF RollbackRefund
    <3>3. \A b \in Admin : pc'[b] \in {"ok", "finalCheck", "finalDeduct", "finalOk"} =>
                             pc'[b] = pc[b] /\ plan'[b].amount = plan[b].amount
      BY ONLY <2>9, TypeOK DEF RollbackRefund, TypeOK, Plan, NoPlan, Goto, GotoWith, Done
    <3>4. \A b \in Admin : pc[b] = "ok" => plan[b].amount \in 1..Amount
      BY ONLY PlanInv DEF PlanInv, Attempting, Locked
    <3> QED
      BY ONLY <3>1, <3>2, <3>3, <3>4, PaidOutKept, TypeOK, PaidOutInv, Orderly' => Orderly
         DEF provider
  <2>10. CASE AuditRollbackFailed(a)
    BY <2>10, SMTT(30) DEF AuditRollbackFailed
  <2>11. CASE MarkRefundPending(a)
    BY <2>11, SMTT(30) DEF MarkRefundPending
  <2>12. CASE AuditRefundPending(a)
    <3>1. UNCHANGED provider /\ (pendingDetail' = pendingDetail \/ pendingDetail = NoDetail)
      BY ONLY <2>12 DEF AuditRefundPending, audit
    <3>2. status' \in {"REFUNDED", "PARTIALLY_REFUNDED"} =>
             status' = status /\ refundAmount' = refundAmount
      BY ONLY <2>12 DEF AuditRefundPending
    <3>3. \A b \in Admin : pc'[b] \in {"ok", "finalCheck", "finalDeduct", "finalOk"} =>
                             pc'[b] = pc[b] /\ plan'[b].amount = plan[b].amount
      BY ONLY <2>12, TypeOK
         DEF AuditRefundPending, TypeOK, Plan, NoPlan, Goto, GotoWith, Done
    <3>4. \A b \in Admin : pc[b] = "ok" => plan[b].amount \in 1..Amount
      BY ONLY PlanInv DEF PlanInv, Attempting, Locked
    <3> QED
      BY ONLY <3>1, <3>2, <3>3, <3>4, PaidOutKept, TypeOK, PaidOutInv, Orderly' => Orderly
         DEF provider, NoDetail
  <2>13. CASE RestoreStatus(a)
    BY <2>13, SMTT(30) DEF RestoreStatus
  <2>14. CASE MarkRefundFailed(a)
    BY <2>14, SMTT(30) DEF MarkRefundFailed
  <2>15. CASE QueryAndFinalizeRefund(a)
    BY <2>15, SMTT(30) DEF QueryAndFinalizeRefund, Begin
  <2>16. CASE LatestRefundPendingDetail(a)
    <3>1. UNCHANGED <<provider, pendingDetail>>
      BY ONLY <2>16 DEF LatestRefundPendingDetail, audit
    <3>2. status' \in {"REFUNDED", "PARTIALLY_REFUNDED"} =>
             status' = status /\ refundAmount' = refundAmount
      BY ONLY <2>16 DEF LatestRefundPendingDetail
    <3>3. \A b \in Admin : pc'[b] \in {"ok", "finalCheck", "finalDeduct", "finalOk"} =>
                             pc'[b] = pc[b] /\ plan'[b].amount = plan[b].amount
      BY ONLY <2>16, TypeOK
         DEF LatestRefundPendingDetail, TypeOK, Plan, NoPlan, Goto, GotoWith, Done
    <3>4. \A b \in Admin : pc[b] = "ok" => plan[b].amount \in 1..Amount
      BY ONLY PlanInv DEF PlanInv, Attempting, Locked
    <3> QED
      BY ONLY <3>1, <3>2, <3>3, <3>4, PaidOutKept, TypeOK, PaidOutInv, Orderly' => Orderly
         DEF provider
  <2>17. CASE QueryRefund(a)
    BY <2>17, SMTT(30) DEF QueryRefund
  <2>18. CASE CheckRefundSuccess(a)
    BY <2>18, SMTT(30) DEF CheckRefundSuccess, HasAuditLog
  <2>19. CASE FinalDeduction(a)
    BY <2>19, SMTT(30) DEF FinalDeduction, Charge, NoCharge
  <2>20. CASE Crash(a)
    BY <2>20, SMTT(30) DEF Crash
  <2> QED
    BY <1>4, <2>1, <2>2, <2>3, <2>4, <2>5, <2>6, <2>7, <2>8, <2>9, <2>10, <2>11, <2>12,
       <2>13, <2>14, <2>15, <2>16, <2>17, <2>18, <2>19, <2>20 DEF Step
<1>5. CASE UNCHANGED vars
  BY <1>5
<1> QED
  BY <1>1, <1>2, <1>3, <1>4, <1>5 DEF Next

(* A goroutine that ends, or waits for the lock, leaves the account as it is.*)
LEMMA AccountKept ==
    ASSUME TypeOK, AccountInv, status' = status, debit' = debit, NEW a \in Admin,
           pc[a] # "finalOk", NEW label \in {"idle", "lock"},
           pc' = [pc EXCEPT ![a] = label],
           \A b \in Admin : b # a => plan'[b] = plan[b]
    PROVE  AccountInv'
  BY DEF TypeOK, AccountInv, BeforeDeduction, AfterDeduction

(* Every step keeps the account of the deductions.                           *)
LEMMA AccountStep ==
    ASSUME IInv, Clean, Clean', [Next]_vars
    PROVE  AccountInv'
<1> USE AmountAssumption, RefundBoundAssumption, OpsAssumption, DeductAssumption
    DEF IInv, TypeOK, LockInv, DebitInv, PlanInv, AccountInv, Clean, Orderly,
        BeforeDeduction, AfterDeduction, Locked, Finalizing, Plan, Goto, Done,
        GotoWith, FaultWith, Fault, Blemish, NoFault, bounds, history, audit, provider,
        vars
<1>1. CASE RequestRefund
  BY <1>1, SMTT(30) DEF RequestRefund
<1>2. CASE UserSpends
  BY <1>2, SMTT(30) DEF UserSpends
<1>3. CASE GatewaySettles
  BY <1>3, SMTT(30) DEF GatewaySettles, GatewayAnswer
<1>4. ASSUME NEW a \in Admin, Step(a)
      PROVE  AccountInv'
  <2>1. CASE PrepareRefund(a)
    BY <2>1, SMTT(30) DEF PrepareRefund, Begin, Refundable
  <2>2. CASE PrepDeduct(a)
    <3>1. PICK label \in {"idle", "lock"} : pc' = [pc EXCEPT ![a] = label]
      BY ONLY <2>2 DEF PrepDeduct, Goto, GotoWith, Done
    <3>2. status' = status /\ debit' = debit /\ pc[a] # "finalOk"
      BY ONLY <2>2 DEF PrepDeduct
    <3>3. \A b \in Admin : b # a => plan'[b] = plan[b]
      BY ONLY <2>2, TypeOK DEF PrepDeduct, Goto, GotoWith, Done, TypeOK
    <3> QED
      BY <3>1, <3>2, <3>3, AccountKept
  <2>3. CASE LockOrder(a)
    <3>1. debit' = debit /\ pc[a] = "lock"
      BY ONLY <2>3 DEF LockOrder
    <3>2. \A b \in Admin : b # a => plan'[b] = plan[b]
      BY ONLY <2>3, TypeOK DEF LockOrder, Goto, Done, TypeOK
    <3>3. CASE Done(a) /\ status' = status
      BY <3>1, <3>2, <3>3, AccountKept
    <3>4. CASE status \in Refundable /\ status' = "REFUNDING" /\ pc' = [pc EXCEPT ![a] =
           "rollbackCheck"]
      <4>1. \A b \in Admin : pc[b] # "finalOk"
        BY <3>1
      <4>2. debit = 0
        BY <3>4, <4>1 DEF Refundable
      <4>3. debit' = 0
        BY <3>1, <4>2
      <4>4. \A b \in Admin : b # a => pc'[b] \notin Locked
        BY <3>4, <3>1 DEF Refundable
      <4> QED
        BY ONLY <3>4, <4>3, <4>4, TypeOK, AmountAssumption
           DEF AccountInv, TypeOK, BeforeDeduction, AfterDeduction, Locked
    <3> QED
      BY ONLY <2>3, <3>3, <3>4 DEF LockOrder, Goto
  <2>4. CASE CheckRollbackFailed(a)
    BY <2>4, SMTT(30), Alone DEF CheckRollbackFailed, HasAuditLog
  <2>5. CASE DeductBalance(a)
    BY <2>5, SMTT(30), Alone DEF DeductBalance, Charge, NoCharge
  <2>6. CASE GatewayRefund(a)
    BY <2>6, SMTT(30), Alone DEF GatewayRefund, GatewayAnswer
  <2>7. CASE MarkRefundOk(a)
    <3>1. debit' = debit /\ pc[a] \in {"ok", "finalOk"}
      BY ONLY <2>7 DEF MarkRefundOk
    <3>2. \A b \in Admin : b # a => pc[b] \notin Locked \union Finalizing
      BY <3>1, Alone
    <3>3. PICK label \in {"successRow", "idle"} : pc' = [pc EXCEPT ![a] = label]
      BY ONLY <2>7 DEF MarkRefundOk, Goto, Done
    <3>4. status' \notin {"COMPLETED", "REFUND_REQUESTED", "REFUND_PENDING",
           "REFUND_FAILED"}
      <4>1. CASE pc[a] = "ok"
        <5>1. status = "REFUNDING"
          BY <4>1
        <5> QED
          BY ONLY <2>7, <5>1 DEF MarkRefundOk
      <4>2. CASE pc[a] = "finalOk"
        <5>1. ~FaultWith(TRUE)
          OBVIOUS
        <5> QED
          BY ONLY <2>7, <4>2, <5>1 DEF MarkRefundOk
      <4> QED
        BY <3>1, <4>1, <4>2
    <3>5. \A b \in Admin : pc'[b] \notin Locked
      BY <3>2, <3>3
    <3> QED
      BY ONLY <3>1, <3>4, <3>5, AccountInv
         DEF AccountInv, BeforeDeduction, AfterDeduction, Locked
  <2>8. CASE AuditRefundSuccess(a)
    BY <2>8, SMTT(30), Alone DEF AuditRefundSuccess
  <2>9. CASE RollbackRefund(a)
    BY <2>9, SMTT(30), Alone DEF RollbackRefund, Charge, NoCharge
  <2>10. CASE AuditRollbackFailed(a)
    <3>1. rollbackFailed' \/ Blemish
      BY ONLY <2>10 DEF AuditRollbackFailed
    <3> QED
      BY <3>1
  <2>11. CASE MarkRefundPending(a)
    BY <2>11, SMTT(30), Alone DEF MarkRefundPending
  <2>12. CASE AuditRefundPending(a)
    BY <2>12, SMTT(30), Alone DEF AuditRefundPending
  <2>13. CASE RestoreStatus(a)
    BY <2>13, SMTT(30), Alone DEF RestoreStatus
  <2>14. CASE MarkRefundFailed(a)
    BY <2>14, SMTT(30), Alone DEF MarkRefundFailed
  <2>15. CASE QueryAndFinalizeRefund(a)
    BY <2>15, SMTT(30), Alone DEF QueryAndFinalizeRefund, Begin
  <2>16. CASE LatestRefundPendingDetail(a)
    BY <2>16, SMTT(30), Alone DEF LatestRefundPendingDetail
  <2>17. CASE QueryRefund(a)
    BY <2>17, SMTT(30), Alone DEF QueryRefund
  <2>18. CASE CheckRefundSuccess(a)
    BY <2>18, SMTT(30), Alone DEF CheckRefundSuccess, HasAuditLog
  <2>19. CASE FinalDeduction(a)
    BY <2>19, SMTT(30), Alone DEF FinalDeduction, Charge, NoCharge
  <2>20. CASE Crash(a)
    <3>1. pc' = [pc EXCEPT ![a] = "idle"] /\ status' = status /\ debit' = debit
      BY ONLY <2>20 DEF Crash, Done
    <3>2. pc[a] # "finalOk"
      BY ONLY <2>20, ~blemished' DEF Crash
    <3>3. \A b \in Admin : b # a => plan'[b] = plan[b]
      BY ONLY <2>20, TypeOK DEF Crash, Done, TypeOK
    <3> QED
      BY <3>1, <3>2, <3>3, AccountKept
  <2> QED
    BY <1>4, <2>1, <2>2, <2>3, <2>4, <2>5, <2>6, <2>7, <2>8, <2>9, <2>10, <2>11, <2>12,
       <2>13, <2>14, <2>15, <2>16, <2>17, <2>18, <2>19, <2>20 DEF Step
<1>5. CASE UNCHANGED vars
  BY <1>5
<1> QED
  BY <1>1, <1>2, <1>3, <1>4, <1>5 DEF Next

(* Every step keeps what a failed rollback has left taken.                   *)
LEMMA KeptStep ==
    ASSUME IInv, Orderly, Orderly', rollbackFailed => rollbackFailed', [Next]_vars
    PROVE  KeptInv'
<1> USE AmountAssumption, RefundBoundAssumption, OpsAssumption, DeductAssumption
    DEF IInv, TypeOK, LockInv, DebitInv, PlanInv, RowInv, AccountInv, KeptInv,
        DeductionIsForgotten, Clean, Orderly, Answered, AfterDeduction, Attempting,
        Locked, Finalizing, Plan, NoPlan, Detail, NoDetail, Goto, Done, GotoWith,
        FaultWith, Fault, Blemish, NoFault, bounds, history, audit, provider, vars
<1>1. CASE RequestRefund
  BY <1>1, SMTT(30) DEF RequestRefund
<1>2. CASE UserSpends
  BY <1>2, SMTT(30) DEF UserSpends
<1>3. CASE GatewaySettles
  BY <1>3, SMTT(30) DEF GatewaySettles, GatewayAnswer
<1>4. ASSUME NEW a \in Admin, Step(a)
      PROVE  KeptInv'
  <2>1. CASE PrepareRefund(a)
    BY <2>1, SMTT(30) DEF PrepareRefund, Begin, Refundable
  <2>2. CASE PrepDeduct(a)
    BY <2>2, SMTT(30) DEF PrepDeduct, Lesser
  <2>3. CASE LockOrder(a)
    BY <2>3, SMTT(30), Alone DEF LockOrder, Refundable
  <2>4. CASE CheckRollbackFailed(a)
    <3>1. UNCHANGED <<rollbackFailed, pendingDetail, debit>>
      BY ONLY <2>4 DEF CheckRollbackFailed, audit
    <3>2. ~Blemish
      BY DEF Blemish
    <3>3. \A b \in Admin : b # a => pc'[b] = pc[b] /\ plan'[b] = plan[b]
      BY ONLY <2>4, TypeOK DEF CheckRollbackFailed, Goto, GotoWith, TypeOK
    <3>4. rollbackFailed => pc'[a] = "gateway" /\ plan'[a].deduct <= 0
      <4> SUFFICES ASSUME rollbackFailed
                   PROVE  pc'[a] = "gateway" /\ plan'[a].deduct <= 0
        OBVIOUS
      <4>1. ASSUME NEW found \in BOOLEAN, HasAuditLog(rollbackFailed, found)
            PROVE  found
        BY ONLY <4>1, <3>2, rollbackFailed, Zenon DEF HasAuditLog
      <4>2. \/ plan[a].deduct <= 0 /\ Goto(a, "gateway")
            \/ GotoWith(a, "gateway", [plan[a] EXCEPT !.deduct = 0])
        BY ONLY <2>4, <4>1 DEF CheckRollbackFailed
      <4> QED
        BY ONLY <4>2, TypeOK DEF Goto, GotoWith, TypeOK, Plan
    <3> QED
      BY ONLY <3>1, <3>3, <3>4, KeptInv, Orderly
         DEF KeptInv, DeductionIsForgotten, AfterDeduction, NoDetail
  <2>5. CASE DeductBalance(a)
    BY <2>5, SMTT(30), Alone DEF DeductBalance, Charge, NoCharge
  <2>6. CASE GatewayRefund(a)
    BY <2>6, SMTT(30), Alone DEF GatewayRefund, GatewayAnswer
  <2>7. CASE MarkRefundOk(a)
    BY <2>7, SMTT(30), Alone DEF MarkRefundOk
  <2>8. CASE AuditRefundSuccess(a)
    BY <2>8, SMTT(30), Alone DEF AuditRefundSuccess
  <2>9. CASE RollbackRefund(a)
    BY <2>9, SMTT(30), Alone DEF RollbackRefund, Charge, NoCharge
  <2>10. CASE AuditRollbackFailed(a)
    BY <2>10, SMTT(30), Alone DEF AuditRollbackFailed
  <2>11. CASE MarkRefundPending(a)
    BY <2>11, SMTT(30), Alone DEF MarkRefundPending
  <2>12. CASE AuditRefundPending(a)
    BY <2>12, SMTT(30), Alone DEF AuditRefundPending
  <2>13. CASE RestoreStatus(a)
    BY <2>13, SMTT(30), Alone DEF RestoreStatus
  <2>14. CASE MarkRefundFailed(a)
    BY <2>14, SMTT(30), Alone DEF MarkRefundFailed
  <2>15. CASE QueryAndFinalizeRefund(a)
    BY <2>15, SMTT(30), Alone DEF QueryAndFinalizeRefund, Begin
  <2>16. CASE LatestRefundPendingDetail(a)
    BY <2>16, SMTT(30), Alone DEF LatestRefundPendingDetail
  <2>17. CASE QueryRefund(a)
    BY <2>17, SMTT(30), Alone DEF QueryRefund
  <2>18. CASE CheckRefundSuccess(a)
    BY <2>18, SMTT(30), Alone DEF CheckRefundSuccess, HasAuditLog
  <2>19. CASE FinalDeduction(a)
    BY <2>19, SMTT(30), Alone DEF FinalDeduction, Charge, NoCharge
  <2>20. CASE Crash(a)
    BY <2>20, SMTT(30), Alone DEF Crash
  <2> QED
    BY <1>4, <2>1, <2>2, <2>3, <2>4, <2>5, <2>6, <2>7, <2>8, <2>9, <2>10, <2>11, <2>12,
       <2>13, <2>14, <2>15, <2>16, <2>17, <2>18, <2>19, <2>20 DEF Step
<1>5. CASE UNCHANGED vars
  BY <1>5
<1> QED
  BY <1>1, <1>2, <1>3, <1>4, <1>5 DEF Next

-----------------------------------------------------------------------------
(* Every behaviour keeps the lock, the link to the gateway and the account of*)
(* the deductions.                                                           *)
THEOREM InductiveInvariant == Spec => []IInv
<1>1. Init => IInv
  <2> SUFFICES ASSUME Init
               PROVE  IInv
    OBVIOUS
  <2>1. TypeOK
    <3>1. pc \in [Admin -> Label] /\ plan \in [Admin -> Plan]
      BY AmountAssumption DEF Init, Label, Plan, NoPlan, Status
    <3>3. gateway \in [1..Amount -> {"none", "pending",
           "success"}] /\ pendingDetail \in Detail
      BY AmountAssumption DEF Init, Detail, NoDetail
    <3>2. rollbackFailed \in BOOLEAN /\ refundSuccess \in BOOLEAN
          /\ blemished \in BOOLEAN /\ overlapped \in BOOLEAN /\ tradeNo \in BOOLEAN
      BY DEF Init
    <3> QED
      BY <3>1, <3>2, <3>3, AmountAssumption, RefundBoundAssumption DEF Init, TypeOK, Status
  <2>2. LockInv /\ RowInv /\ PaidOutInv
    BY
       DEF Init, LockInv, RowInv, PaidOutInv, RefundedWasPaidOut, Locked, Finalizing,
           Answered
  <2>3. PlanInv /\ DebitInv
    BY AmountAssumption
       DEF Init, DebitInv, PlanInv, AccountInv, KeptInv, NoPlan, BeforeDeduction,
           AfterDeduction, Attempting, Locked
  <2> QED
    BY <2>1, <2>2, <2>3 DEF IInv
<1>2. IInv /\ [Next]_vars => IInv'
  <2> SUFFICES ASSUME IInv, [Next]_vars
               PROVE  IInv'
    OBVIOUS
  <2>1. TypeOK' /\ LockInv' /\ PlanInv'
    BY TypeStep, LockStep, PlanStep DEF IInv
  <2>2. (Orderly' => Orderly) /\ (rollbackFailed => rollbackFailed')
    BY ONLY IInv, [Next]_vars, OrderlyStep DEF IInv, TypeOK
  <2>3. RowInv'
    <3>1. CASE Orderly'
      BY <2>2, <3>1, RowStep DEF IInv
    <3>2. CASE ~Orderly'
      BY <3>2 DEF RowInv
    <3> QED
      BY <3>1, <3>2
  <2>4. PaidOutInv'
    BY ONLY IInv, [Next]_vars, <2>2, PaidOutStep DEF IInv
  <2>5. Clean' => AccountInv'
    BY <2>2, AccountStep DEF IInv, Clean
  <2>6. KeptInv'
    <3>1. CASE Orderly'
      BY <2>2, <3>1, KeptStep
    <3>2. CASE ~Orderly'
      BY <3>2 DEF KeptInv
    <3> QED
      BY <3>1, <3>2
  <2> QED
    BY <2>1, <2>3, <2>4, <2>5, <2>6 DEF IInv, DebitInv
<1> QED
  BY <1>1, <1>2, PTL DEF Spec

(* The variables of PaymentRefund keep their types.                          *)
THEOREM TypeCorrect == Spec => []TypeOK
  BY InductiveInvariant, PTL DEF IInv

(* The move to REFUNDING in ExecuteRefund is a lock: as long as no           *)
(* QueryAndFinalizeRefund runs beside another call, at most one goroutine is *)
(* between it and the status that ends the refund.                           *)
THEOREM RefundsExclude == Spec => []OneRefundAtATime
<1>1. IInv => OneRefundAtATime
  <2> SUFFICES ASSUME IInv, ~overlapped
               PROVE  Cardinality({a \in Admin : pc[a] \in Locked}) <= 1
    BY DEF OneRefundAtATime
  <2> DEFINE Holders == {a \in Admin : pc[a] \in Locked}
  <2>1. \A a, b \in Holders : a = b
    BY DEF IInv, LockInv
  <2>2. CASE Holders = {}
    BY <2>2, FS_EmptySet
  <2>3. ASSUME NEW a \in Holders
        PROVE  Cardinality(Holders) <= 1
    <3>1. Holders = {a}
      BY <2>1
    <3>2. Cardinality({a}) = 1
      BY FS_Singleton
    <3> QED
      BY <3>1, <3>2
  <2> QED
    BY <2>2, <2>3
<1> QED
  BY <1>1, InductiveInvariant, PTL

(* For an order with a trade number markRefundOk never claims a refund while *)
(* the gateway has paid out none, however calls interleave, fail or die; and *)
(* it is the refund of the order's amount or of its REFUND_PENDING row unless*)
(* a row was lost or a finalization overlapped with another call.            *)
THEOREM RefundIsPaidOut == Spec => []RefundedWasPaidOut
  BY InductiveInvariant, PTL DEF IInv, PaidOutInv

(* An attempt that leaves the order refundable has given the deduction back: *)
(* what RollbackRefund returns is what DeductBalance took.                   *)
THEOREM FailedRefundLeavesUserWhole == Spec => []UserIsWhole
<1>1. IInv => UserIsWhole
  BY DEF IInv, DebitInv, AccountInv, Clean, Orderly, UserIsWhole
<1> QED
  BY <1>1, InductiveInvariant, PTL

(* As long as calls follow each other and no audit row is lost, the user     *)
(* never gives back more than the order's amount, also after a rollback that *)
(* failed, until a later pending row has forgotten the deduction.            *)
THEOREM DeductsOnce == Spec => []SequentialDeductsOnce
<1>1. IInv => SequentialDeductsOnce
  BY DEF IInv, DebitInv, AccountInv, KeptInv, Clean, Orderly, SequentialDeductsOnce,
         DeductedAtMostOnce
<1> QED
  BY <1>1, InductiveInvariant, PTL

(* No later call takes an order out of REFUNDED or PARTIALLY_REFUNDED, unless*)
(* a finalization overlapped with another call.                              *)
THEOREM RefundedStays == Spec => RefundedIsFinal
<1> DEFINE Final == status \in {"REFUNDED", "PARTIALLY_REFUNDED"} /\ ~overlapped
<1>1. IInv /\ [Next]_vars => [Final => status' = status]_vars
  <2> SUFFICES ASSUME IInv, Next, Final
               PROVE  status' = status
    BY DEF vars
  <2>1. \A a \in Admin : pc[a] \notin Locked \union Finalizing
    BY DEF IInv, LockInv
  <2>2. ASSUME NEW a \in Admin, Step(a)
        PROVE  status' = status
    BY <2>1, <2>2
       DEF Step, PrepareRefund, PrepDeduct, LockOrder, CheckRollbackFailed, DeductBalance,
           GatewayRefund, MarkRefundOk, AuditRefundSuccess, RollbackRefund,
           AuditRollbackFailed, MarkRefundPending, AuditRefundPending, RestoreStatus,
           MarkRefundFailed, QueryAndFinalizeRefund, LatestRefundPendingDetail,
           QueryRefund, CheckRefundSuccess, FinalDeduction, Crash, Refundable, Locked,
           Finalizing
  <2> QED
    BY <2>2 DEF Next, RequestRefund, UserSpends, GatewaySettles
<1> QED
  BY <1>1, InductiveInvariant, PTL DEF Spec, RefundedIsFinal

=============================================================================
