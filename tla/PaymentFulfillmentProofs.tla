--------------------- MODULE PaymentFulfillmentProofs ---------------------
(* Theorems about PaymentFulfillment for every set of workers, every mix of  *)
(* handlers, every value of the timeouts and every number of faults and      *)
(* crashes.                                                                  *)
EXTENDS PaymentFulfillment, TLAPS

(* A worker at one of these steps fulfils the order.                         *)
Fulfilling == {"exec", "acquire", "missed", "reload", "lookup", "createCode", "redeem",
               "assign", "assignTx", "rebate", "complete", "recheck", "fail"}

(* What the user was given is recorded where the next attempt looks for it.  *)
Granted == IF OrderType = "balance" THEN code = "used" ELSE assigned

GrantInv ==
    /\ grants = IF Granted THEN 1 ELSE 0
    /\ OrderType = "balance" => ~assigned
    /\ OrderType = "subscription" => code = "none"
    /\ \A w \in Worker :
          /\ pc[w] \in {"lookup", "createCode", "redeem"} => OrderType = "balance"
          /\ pc[w] \in {"assign", "assignTx"} => OrderType = "subscription"

(* paid_at is set by a payment of the right amount or by an administrator,   *)
(* and nobody starts to fulfil an order without it.                          *)
PaidInv ==
    /\ paidAt => provider = "paid" \/ manual
    /\ creating = "call" => provider = "none"
    /\ status = "PAID" => paidAt
    /\ code # "none" => paidAt
    /\ assigned => paidAt
    /\ \A w \in Worker :
          /\ pc[w] \in Fulfilling => paidAt
          /\ seen[w] = "PAID" => paidAt

(* The grant comes before the rebate, the rebate before completion.          *)
SettledInv ==
    /\ status = "COMPLETED" => Granted /\ rebate
    /\ \A w \in Worker :
          /\ pc[w] = "rebate" => Granted
          /\ pc[w] = "complete" => Granted /\ rebate

(* AdminManualFulfillOrder never goes on with an order it read as COMPLETED. *)
SeenInv == \A w \in Worker : seen[w] # "COMPLETED"

IInv == TypeOK /\ GrantInv /\ PaidInv /\ SettledInv /\ SeenInv

-----------------------------------------------------------------------------
(* The part of TypeOK that Goto and Return touch.                            *)
ProcType ==
    /\ pc \in [Worker -> Label]
    /\ job \in [Worker -> AllJobs \union {"none"}]
    /\ seen \in [Worker -> Status \union {"none"}]
    /\ notice \in BOOLEAN

Moves(w) == \/ \E label \in Label : Goto(w, label)
            \/ \E ok \in BOOLEAN : Return(w, ok)

(* A handler that goes on or returns keeps the types of the processes.       *)
LEMMA MoveType ==
    ASSUME ProcType, NEW w \in Worker, Moves(w)
    PROVE  ProcType'
<1>1. CASE \E label \in Label : Goto(w, label)
  BY <1>1 DEF Goto, ProcType
<1>2. CASE \E ok \in BOOLEAN : Return(w, ok)
  BY <1>2 DEF Return, ProcType, Label
<1> QED
  BY <1>1, <1>2 DEF Moves

(* The clocks saturate at natural numbers.                                   *)
LEMMA CapsType == AgeCap \in Nat /\ ClockCap \in Nat
  BY TimeAssumption DEF AgeCap, ClockCap, RechargingTimeout

(* Every step keeps the types.                                               *)
LEMMA TypeStep ==
    ASSUME TypeOK, [Next]_vars
    PROVE  TypeOK'
<1> USE OrderTypeAssumption, JobsAssumption, BoundAssumption, CapsType
    DEF SetStatus, Touch, RowUnchanged, Fault, NoFault, vars, row, book, bounds, TypeOK,
        Status, Label, AllJobs
<1>1. CASE CreatePayment
  BY <1>1 DEF CreatePayment
<1>2. CASE SaveProviderOrder
  BY <1>2 DEF SaveProviderOrder
<1>3. CASE CreateFailed
  BY <1>3 DEF CreateFailed
<1>4. CASE UserPays
  BY <1>4 DEF UserPays
<1>5. CASE UserRedeem
  BY <1>5 DEF UserRedeem, UsableCode
<1>6. CASE Tick
  BY <1>6 DEF Tick
<1>7. CASE FailStaleRecharging
  BY <1>7 DEF FailStaleRecharging
<1>8. ASSUME NEW w \in Worker, Invoke(w)
      PROVE  TypeOK'
  <2>1. CASE HandleNotify(w)
    BY <2>1 DEF HandleNotify, Start
  <2>2. CASE CancelOrder(w)
    BY <2>2 DEF CancelOrder, Start
  <2>3. CASE ExpireTimedOutOrder(w)
    BY <2>3 DEF ExpireTimedOutOrder, Start
  <2>4. CASE VerifyOrder(w)
    BY <2>4 DEF VerifyOrder, Start
  <2>5. CASE RetryFulfillment(w)
    BY <2>5 DEF RetryFulfillment, Start, Retryable
  <2>6. CASE AdminManualFulfillOrder(w)
    BY <2>6 DEF AdminManualFulfillOrder, Start
  <2> QED
    BY <1>8, <2>1, <2>2, <2>3, <2>4, <2>5, <2>6 DEF Invoke
<1>9. ASSUME NEW w \in Worker, Proceed(w) \/ Disturb(w)
      PROVE  TypeOK'
  <2>a. ASSUME Moves(w)
        PROVE  ProcType'
    BY <2>a, MoveType DEF ProcType
  <2>1. CASE ManualUpdate(w)
    <3>1. Moves(w)
      BY <2>1 DEF ManualUpdate, Moves
    <3>2. ProcType'
      BY <3>1, <2>a
    <3>3. paidAt' \in BOOLEAN
      BY <2>1 DEF ManualUpdate
    <3>4. status' \in Status
      BY <2>1 DEF ManualUpdate
    <3>8. age' = 0 \/ age' = age
      BY <2>1 DEF ManualUpdate
    <3>5. lease' \subseteq Worker
      BY <2>1 DEF ManualUpdate
    <3>6. rebate' \in BOOLEAN /\ assigned' \in BOOLEAN /\ manual' \in BOOLEAN
      BY <2>1 DEF ManualUpdate
    <3>7. faults' \in 0..MaxFaults /\ crashes' \in 0..MaxCrashes /\ grants' \in Nat
      BY <2>1 DEF ManualUpdate
    <3> QED
      BY <2>1, <3>2, <3>3, <3>4, <3>5, <3>6, <3>7, <3>8
         DEF ManualUpdate, ProcType
  <2>2. CASE QueryOrder(w)
    <3>1. Moves(w)
      BY <2>2 DEF QueryOrder, Moves
    <3> QED
      BY <2>2, <3>1, <2>a DEF QueryOrder, ProcType
  <2>3. CASE PersistTradeNo(w)
    <3>1. Moves(w)
      BY <2>3 DEF PersistTradeNo, Moves
    <3> QED
      BY <2>3, <3>1, <2>a DEF PersistTradeNo, ProcType
  <2>4. CASE CancelPayment(w)
    <3>1. Moves(w)
      BY <2>4 DEF CancelPayment, Moves
    <3> QED
      BY <2>4, <3>1, <2>a DEF CancelPayment, ProcType
  <2>5. CASE CancelCore(w)
    <3>1. Moves(w)
      BY <2>5 DEF CancelCore, Moves
    <3> QED
      BY <2>5, <3>1, <2>a DEF CancelCore, ProcType
  <2>6. CASE ConfirmPayment(w)
    <3>1. Moves(w)
      BY <2>6 DEF ConfirmPayment, Moves
    <3>2. ProcType'
      BY <3>1, <2>a
    <3>3. paidAt' \in BOOLEAN
      BY <2>6 DEF ConfirmPayment
    <3>4. status' \in Status
      BY <2>6 DEF ConfirmPayment
    <3>8. age' = 0 \/ age' = age
      BY <2>6 DEF ConfirmPayment
    <3>5. lease' \subseteq Worker
      BY <2>6 DEF ConfirmPayment
    <3>6. rebate' \in BOOLEAN /\ assigned' \in BOOLEAN /\ manual' \in BOOLEAN
      BY <2>6 DEF ConfirmPayment
    <3>7. faults' \in 0..MaxFaults /\ crashes' \in 0..MaxCrashes /\ grants' \in Nat
      BY <2>6 DEF ConfirmPayment
    <3> QED
      BY <2>6, <3>2, <3>3, <3>4, <3>5, <3>6, <3>7, <3>8
         DEF ConfirmPayment, ProcType
  <2>7. CASE AlreadyProcessed(w)
    <3>1. Moves(w)
      BY <2>7 DEF AlreadyProcessed, Moves
    <3> QED
      BY <2>7, <3>1, <2>a DEF AlreadyProcessed, ProcType
  <2>8. CASE ExecuteFulfillment(w)
    <3>1. Moves(w)
      BY <2>8 DEF ExecuteFulfillment, Moves
    <3> QED
      BY <2>8, <3>1, <2>a DEF ExecuteFulfillment, ProcType
  <2>9. CASE AcquireLease(w)
    <3>1. Moves(w)
      BY <2>9 DEF AcquireLease, Moves
    <3> QED
      BY <2>9, <3>1, <2>a DEF AcquireLease, Leasable, ProcType
  <2>10. CASE LeaseMissed(w)
    <3>1. Moves(w)
      BY <2>10 DEF LeaseMissed, Moves
    <3> QED
      BY <2>10, <3>1, <2>a DEF LeaseMissed, ProcType
  <2>11. CASE ReloadLease(w)
    <3>1. Moves(w)
      BY <2>11 DEF ReloadLease, Moves
    <3>2. ProcType'
      BY <3>1, <2>a
    <3>3. paidAt' \in BOOLEAN
      BY <2>11 DEF ReloadLease
    <3>4. status' \in Status
      BY <2>11 DEF ReloadLease
    <3>8. age' = 0 \/ age' = age
      BY <2>11 DEF ReloadLease
    <3>5. lease' \subseteq Worker
      BY <2>11 DEF ReloadLease
    <3>6. rebate' \in BOOLEAN /\ assigned' \in BOOLEAN /\ manual' \in BOOLEAN
      BY <2>11 DEF ReloadLease
    <3>7. faults' \in 0..MaxFaults /\ crashes' \in 0..MaxCrashes /\ grants' \in Nat
      BY <2>11 DEF ReloadLease
    <3> QED
      BY <2>11, <3>2, <3>3, <3>4, <3>5, <3>6, <3>7, <3>8
         DEF ReloadLease, ProcType
  <2>12. CASE LookupCode(w)
    <3>1. Moves(w)
      BY <2>12 DEF LookupCode, Moves
    <3> QED
      BY <2>12, <3>1, <2>a DEF LookupCode, ProcType
  <2>13. CASE CreateCode(w)
    <3>1. Moves(w)
      BY <2>13 DEF CreateCode, Moves
    <3> QED
      BY <2>13, <3>1, <2>a DEF CreateCode, ProcType
  <2>14. CASE Redeem(w)
    <3>1. Moves(w)
      BY <2>14 DEF Redeem, Moves
    <3> QED
      BY <2>14, <3>1, <2>a DEF Redeem, UsableCode, ProcType
  <2>15. CASE CheckAssigned(w)
    <3>1. Moves(w)
      BY <2>15 DEF CheckAssigned, Moves
    <3> QED
      BY <2>15, <3>1, <2>a DEF CheckAssigned, ProcType
  <2>16. CASE AssignSubscription(w)
    <3>1. Moves(w)
      BY <2>16 DEF AssignSubscription, Moves
    <3>2. ProcType'
      BY <3>1, <2>a
    <3>3. paidAt' \in BOOLEAN
      BY <2>16 DEF AssignSubscription
    <3>4. status' \in Status
      BY <2>16 DEF AssignSubscription
    <3>8. age' = 0 \/ age' = age
      BY <2>16 DEF AssignSubscription
    <3>5. lease' \subseteq Worker
      BY <2>16 DEF AssignSubscription
    <3>6. rebate' \in BOOLEAN /\ assigned' \in BOOLEAN /\ manual' \in BOOLEAN
      BY <2>16 DEF AssignSubscription
    <3>7. faults' \in 0..MaxFaults /\ crashes' \in 0..MaxCrashes /\ grants' \in Nat
      BY <2>16 DEF AssignSubscription
    <3> QED
      BY <2>16, <3>2, <3>3, <3>4, <3>5, <3>6, <3>7, <3>8
         DEF AssignSubscription, ProcType
  <2>17. CASE ApplyRebate(w)
    <3>1. Moves(w)
      BY <2>17 DEF ApplyRebate, Moves
    <3> QED
      BY <2>17, <3>1, <2>a DEF ApplyRebate, ProcType
  <2>18. CASE MarkCompleted(w)
    <3>1. Moves(w)
      BY <2>18 DEF MarkCompleted, Moves
    <3>2. ProcType'
      BY <3>1, <2>a
    <3>3. paidAt' \in BOOLEAN
      BY <2>18 DEF MarkCompleted
    <3>4. status' \in Status
      BY <2>18 DEF MarkCompleted
    <3>8. age' = 0 \/ age' = age
      BY <2>18 DEF MarkCompleted
    <3>5. lease' \subseteq Worker
      BY <2>18 DEF MarkCompleted
    <3>6. rebate' \in BOOLEAN /\ assigned' \in BOOLEAN /\ manual' \in BOOLEAN
      BY <2>18 DEF MarkCompleted
    <3>7. faults' \in 0..MaxFaults /\ crashes' \in 0..MaxCrashes /\ grants' \in Nat
      BY <2>18 DEF MarkCompleted
    <3> QED
      BY <2>18, <3>2, <3>3, <3>4, <3>5, <3>6, <3>7, <3>8
         DEF MarkCompleted, ProcType
  <2>19. CASE RecheckCompleted(w)
    <3>1. Moves(w)
      BY <2>19 DEF RecheckCompleted, Moves
    <3> QED
      BY <2>19, <3>1, <2>a DEF RecheckCompleted, ProcType
  <2>20. CASE MarkFailed(w)
    <3>1. Moves(w)
      BY <2>20 DEF MarkFailed, Moves
    <3> QED
      BY <2>20, <3>1, <2>a DEF MarkFailed, HoldsLease, ProcType
  <2>21. CASE QueryFailed(w)
    <3>1. Moves(w)
      BY <2>21 DEF QueryFailed, Moves
    <3> QED
      BY <2>21, <3>1, <2>a DEF QueryFailed, ProcType
  <2>22. CASE StepFails(w)
    <3>1. Moves(w)
      BY <2>22 DEF StepFails, Moves
    <3> QED
      BY <2>22, <3>1, <2>a DEF StepFails, ProcType
  <2>23. CASE Crash(w)
    <3>1. Moves(w)
      BY <2>23 DEF Crash, Moves
    <3> QED
      BY <2>23, <3>1, <2>a DEF Crash, ProcType
  <2> QED
    BY <1>9, <2>1, <2>2, <2>3, <2>4, <2>5, <2>6, <2>7, <2>8, <2>9, <2>10, <2>11, <2>12, <2>13, <2>14, <2>15, <2>16, <2>17, <2>18, <2>19, <2>20, <2>21, <2>22, <2>23 DEF Proceed, Disturb
<1>10. CASE UNCHANGED vars
  BY <1>10
<1> QED
  BY <1>1, <1>2, <1>3, <1>4, <1>5, <1>6, <1>7, <1>8, <1>9, <1>10 DEF Next, Create

(* Every step keeps the grant tied to its record.                            *)
LEMMA GrantStep ==
    ASSUME TypeOK, GrantInv, [Next]_vars
    PROVE  GrantInv'
<1> USE OrderTypeAssumption
    DEF SetStatus, Touch, RowUnchanged, NoFault, vars, row, book, TypeOK, GrantInv, Granted
<1>1. CASE CreatePayment
  BY <1>1 DEF CreatePayment
<1>2. CASE SaveProviderOrder
  BY <1>2 DEF SaveProviderOrder
<1>3. CASE CreateFailed
  BY <1>3 DEF CreateFailed
<1>4. CASE UserPays
  BY <1>4 DEF UserPays
<1>5. CASE UserRedeem
  BY <1>5 DEF UserRedeem, UsableCode
<1>6. CASE Tick
  BY <1>6 DEF Tick
<1>7. CASE FailStaleRecharging
  BY <1>7 DEF FailStaleRecharging
<1>8. ASSUME NEW w \in Worker, Invoke(w) \/ Proceed(w) \/ Disturb(w)
      PROVE  GrantInv'
  <2> USE DEF Goto, Return, Start
  <2>1. CASE HandleNotify(w)
    BY <2>1 DEF HandleNotify
  <2>2. CASE CancelOrder(w)
    BY <2>2 DEF CancelOrder
  <2>3. CASE ExpireTimedOutOrder(w)
    BY <2>3 DEF ExpireTimedOutOrder
  <2>4. CASE VerifyOrder(w)
    BY <2>4 DEF VerifyOrder
  <2>5. CASE RetryFulfillment(w)
    BY <2>5 DEF RetryFulfillment, Retryable
  <2>6. CASE AdminManualFulfillOrder(w)
    BY <2>6 DEF AdminManualFulfillOrder
  <2>7. CASE ManualUpdate(w)
    BY <2>7 DEF ManualUpdate
  <2>8. CASE QueryOrder(w)
    BY <2>8 DEF QueryOrder
  <2>9. CASE PersistTradeNo(w)
    BY <2>9 DEF PersistTradeNo
  <2>10. CASE CancelPayment(w)
    BY <2>10 DEF CancelPayment
  <2>11. CASE CancelCore(w)
    BY <2>11 DEF CancelCore
  <2>12. CASE ConfirmPayment(w)
    BY <2>12 DEF ConfirmPayment, Payable
  <2>13. CASE AlreadyProcessed(w)
    BY <2>13 DEF AlreadyProcessed
  <2>14. CASE ExecuteFulfillment(w)
    BY <2>14 DEF ExecuteFulfillment
  <2>15. CASE AcquireLease(w)
    BY <2>15 DEF AcquireLease, Leasable
  <2>16. CASE LeaseMissed(w)
    BY <2>16 DEF LeaseMissed
  <2>17. CASE ReloadLease(w)
    BY <2>17 DEF ReloadLease
  <2>18. CASE LookupCode(w)
    BY <2>18 DEF LookupCode
  <2>19. CASE CreateCode(w)
    BY <2>19 DEF CreateCode
  <2>20. CASE Redeem(w)
    BY <2>20 DEF Redeem, UsableCode
  <2>21. CASE CheckAssigned(w)
    BY <2>21 DEF CheckAssigned
  <2>22. CASE AssignSubscription(w)
    BY <2>22 DEF AssignSubscription
  <2>23. CASE ApplyRebate(w)
    BY <2>23 DEF ApplyRebate
  <2>24. CASE MarkCompleted(w)
    BY <2>24 DEF MarkCompleted, HoldsLease
  <2>25. CASE RecheckCompleted(w)
    BY <2>25 DEF RecheckCompleted
  <2>26. CASE MarkFailed(w)
    BY <2>26 DEF MarkFailed, HoldsLease
  <2>27. CASE QueryFailed(w)
    BY <2>27 DEF QueryFailed
  <2>28. CASE StepFails(w)
    BY <2>28 DEF StepFails
  <2>29. CASE Crash(w)
    BY <2>29 DEF Crash
  <2> QED
    BY <1>8, <2>1, <2>2, <2>3, <2>4, <2>5, <2>6, <2>7, <2>8, <2>9, <2>10, <2>11, <2>12, <2>13, <2>14, <2>15, <2>16, <2>17, <2>18, <2>19, <2>20, <2>21, <2>22, <2>23, <2>24, <2>25, <2>26, <2>27, <2>28, <2>29
       DEF Invoke, Proceed, Disturb
<1>9. CASE UNCHANGED vars
  BY <1>9
<1> QED
  BY <1>1, <1>2, <1>3, <1>4, <1>5, <1>6, <1>7, <1>8, <1>9 DEF Next, Create

(* Every step keeps fulfilment behind payment.                               *)
LEMMA PaidStep ==
    ASSUME TypeOK, PaidInv, [Next]_vars
    PROVE  PaidInv'
<1> USE OrderTypeAssumption
    DEF SetStatus, Touch, RowUnchanged, NoFault, vars, row, book, TypeOK, PaidInv, Fulfilling
<1>1. CASE CreatePayment
  BY <1>1 DEF CreatePayment
<1>2. CASE SaveProviderOrder
  BY <1>2 DEF SaveProviderOrder
<1>3. CASE CreateFailed
  BY <1>3 DEF CreateFailed
<1>4. CASE UserPays
  BY <1>4 DEF UserPays
<1>5. CASE UserRedeem
  BY <1>5 DEF UserRedeem, UsableCode
<1>6. CASE Tick
  BY <1>6 DEF Tick
<1>7. CASE FailStaleRecharging
  BY <1>7 DEF FailStaleRecharging
<1>8. ASSUME NEW w \in Worker, Invoke(w) \/ Proceed(w) \/ Disturb(w)
      PROVE  PaidInv'
  <2> USE DEF Goto, Return, Start
  <2>1. CASE HandleNotify(w)
    BY <2>1 DEF HandleNotify
  <2>2. CASE CancelOrder(w)
    BY <2>2 DEF CancelOrder
  <2>3. CASE ExpireTimedOutOrder(w)
    BY <2>3 DEF ExpireTimedOutOrder
  <2>4. CASE VerifyOrder(w)
    BY <2>4 DEF VerifyOrder
  <2>5. CASE RetryFulfillment(w)
    BY <2>5 DEF RetryFulfillment, Retryable
  <2>6. CASE AdminManualFulfillOrder(w)
    BY <2>6 DEF AdminManualFulfillOrder
  <2>7. CASE ManualUpdate(w)
    BY <2>7 DEF ManualUpdate
  <2>8. CASE QueryOrder(w)
    BY <2>8 DEF QueryOrder
  <2>9. CASE PersistTradeNo(w)
    BY <2>9 DEF PersistTradeNo
  <2>10. CASE CancelPayment(w)
    BY <2>10 DEF CancelPayment
  <2>11. CASE CancelCore(w)
    BY <2>11 DEF CancelCore
  <2>12. CASE ConfirmPayment(w)
    BY <2>12 DEF ConfirmPayment, Payable
  <2>13. CASE AlreadyProcessed(w)
    BY <2>13 DEF AlreadyProcessed
  <2>14. CASE ExecuteFulfillment(w)
    BY <2>14 DEF ExecuteFulfillment
  <2>15. CASE AcquireLease(w)
    BY <2>15 DEF AcquireLease, Leasable
  <2>16. CASE LeaseMissed(w)
    BY <2>16 DEF LeaseMissed
  <2>17. CASE ReloadLease(w)
    BY <2>17 DEF ReloadLease
  <2>18. CASE LookupCode(w)
    BY <2>18 DEF LookupCode
  <2>19. CASE CreateCode(w)
    BY <2>19 DEF CreateCode
  <2>20. CASE Redeem(w)
    BY <2>20 DEF Redeem, UsableCode
  <2>21. CASE CheckAssigned(w)
    BY <2>21 DEF CheckAssigned
  <2>22. CASE AssignSubscription(w)
    BY <2>22 DEF AssignSubscription
  <2>23. CASE ApplyRebate(w)
    BY <2>23 DEF ApplyRebate
  <2>24. CASE MarkCompleted(w)
    BY <2>24 DEF MarkCompleted, HoldsLease
  <2>25. CASE RecheckCompleted(w)
    BY <2>25 DEF RecheckCompleted
  <2>26. CASE MarkFailed(w)
    BY <2>26 DEF MarkFailed, HoldsLease
  <2>27. CASE QueryFailed(w)
    BY <2>27 DEF QueryFailed
  <2>28. CASE StepFails(w)
    BY <2>28 DEF StepFails
  <2>29. CASE Crash(w)
    BY <2>29 DEF Crash
  <2> QED
    BY <1>8, <2>1, <2>2, <2>3, <2>4, <2>5, <2>6, <2>7, <2>8, <2>9, <2>10, <2>11, <2>12, <2>13, <2>14, <2>15, <2>16, <2>17, <2>18, <2>19, <2>20, <2>21, <2>22, <2>23, <2>24, <2>25, <2>26, <2>27, <2>28, <2>29
       DEF Invoke, Proceed, Disturb
<1>9. CASE UNCHANGED vars
  BY <1>9
<1> QED
  BY <1>1, <1>2, <1>3, <1>4, <1>5, <1>6, <1>7, <1>8, <1>9 DEF Next, Create

(* Every step keeps the order grant, rebate, completion.                     *)
LEMMA SettledStep ==
    ASSUME TypeOK, GrantInv, SettledInv, [Next]_vars
    PROVE  SettledInv'
<1> USE OrderTypeAssumption
    DEF SetStatus, Touch, RowUnchanged, NoFault, vars, row, book, TypeOK, SettledInv, Granted
<1>1. CASE CreatePayment
  BY <1>1 DEF CreatePayment
<1>2. CASE SaveProviderOrder
  BY <1>2 DEF SaveProviderOrder
<1>3. CASE CreateFailed
  BY <1>3 DEF CreateFailed
<1>4. CASE UserPays
  BY <1>4 DEF UserPays
<1>5. CASE UserRedeem
  BY <1>5 DEF UserRedeem, UsableCode
<1>6. CASE Tick
  BY <1>6 DEF Tick
<1>7. CASE FailStaleRecharging
  BY <1>7 DEF FailStaleRecharging
<1>8. ASSUME NEW w \in Worker, Invoke(w) \/ Proceed(w) \/ Disturb(w)
      PROVE  SettledInv'
  <2> USE DEF Goto, Return, Start
  <2>1. CASE HandleNotify(w)
    BY <2>1 DEF HandleNotify
  <2>2. CASE CancelOrder(w)
    BY <2>2 DEF CancelOrder
  <2>3. CASE ExpireTimedOutOrder(w)
    BY <2>3 DEF ExpireTimedOutOrder
  <2>4. CASE VerifyOrder(w)
    BY <2>4 DEF VerifyOrder
  <2>5. CASE RetryFulfillment(w)
    BY <2>5 DEF RetryFulfillment, Retryable
  <2>6. CASE AdminManualFulfillOrder(w)
    BY <2>6 DEF AdminManualFulfillOrder
  <2>7. CASE ManualUpdate(w)
    BY <2>7 DEF ManualUpdate
  <2>8. CASE QueryOrder(w)
    BY <2>8 DEF QueryOrder
  <2>9. CASE PersistTradeNo(w)
    BY <2>9 DEF PersistTradeNo
  <2>10. CASE CancelPayment(w)
    BY <2>10 DEF CancelPayment
  <2>11. CASE CancelCore(w)
    BY <2>11 DEF CancelCore
  <2>12. CASE ConfirmPayment(w)
    BY <2>12 DEF ConfirmPayment, Payable
  <2>13. CASE AlreadyProcessed(w)
    BY <2>13 DEF AlreadyProcessed
  <2>14. CASE ExecuteFulfillment(w)
    BY <2>14 DEF ExecuteFulfillment
  <2>15. CASE AcquireLease(w)
    BY <2>15 DEF AcquireLease, Leasable
  <2>16. CASE LeaseMissed(w)
    BY <2>16 DEF LeaseMissed
  <2>17. CASE ReloadLease(w)
    BY <2>17 DEF ReloadLease
  <2>18. CASE LookupCode(w)
    BY <2>18 DEF LookupCode, GrantInv
  <2>19. CASE CreateCode(w)
    BY <2>19 DEF CreateCode
  <2>20. CASE Redeem(w)
    BY <2>20 DEF Redeem, UsableCode, GrantInv
  <2>21. CASE CheckAssigned(w)
    BY <2>21 DEF CheckAssigned, GrantInv
  <2>22. CASE AssignSubscription(w)
    BY <2>22 DEF AssignSubscription, GrantInv
  <2>23. CASE ApplyRebate(w)
    BY <2>23 DEF ApplyRebate
  <2>24. CASE MarkCompleted(w)
    BY <2>24 DEF MarkCompleted, HoldsLease
  <2>25. CASE RecheckCompleted(w)
    BY <2>25 DEF RecheckCompleted
  <2>26. CASE MarkFailed(w)
    BY <2>26 DEF MarkFailed, HoldsLease
  <2>27. CASE QueryFailed(w)
    BY <2>27 DEF QueryFailed
  <2>28. CASE StepFails(w)
    BY <2>28 DEF StepFails
  <2>29. CASE Crash(w)
    BY <2>29 DEF Crash
  <2> QED
    BY <1>8, <2>1, <2>2, <2>3, <2>4, <2>5, <2>6, <2>7, <2>8, <2>9, <2>10, <2>11, <2>12, <2>13, <2>14, <2>15, <2>16, <2>17, <2>18, <2>19, <2>20, <2>21, <2>22, <2>23, <2>24, <2>25, <2>26, <2>27, <2>28, <2>29
       DEF Invoke, Proceed, Disturb
<1>9. CASE UNCHANGED vars
  BY <1>9
<1> QED
  BY <1>1, <1>2, <1>3, <1>4, <1>5, <1>6, <1>7, <1>8, <1>9 DEF Next, Create

(* No step remembers COMPLETED.                                              *)
LEMMA SeenStep ==
    ASSUME TypeOK, SeenInv, [Next]_vars
    PROVE  SeenInv'
<1> USE OrderTypeAssumption
    DEF SetStatus, Touch, RowUnchanged, NoFault, vars, row, book, TypeOK, SeenInv
<1>1. CASE CreatePayment
  BY <1>1 DEF CreatePayment
<1>2. CASE SaveProviderOrder
  BY <1>2 DEF SaveProviderOrder
<1>3. CASE CreateFailed
  BY <1>3 DEF CreateFailed
<1>4. CASE UserPays
  BY <1>4 DEF UserPays
<1>5. CASE UserRedeem
  BY <1>5 DEF UserRedeem, UsableCode
<1>6. CASE Tick
  BY <1>6 DEF Tick
<1>7. CASE FailStaleRecharging
  BY <1>7 DEF FailStaleRecharging
<1>8. ASSUME NEW w \in Worker, Invoke(w) \/ Proceed(w) \/ Disturb(w)
      PROVE  SeenInv'
  <2> USE DEF Goto, Return, Start
  <2>1. CASE HandleNotify(w)
    BY <2>1 DEF HandleNotify
  <2>2. CASE CancelOrder(w)
    BY <2>2 DEF CancelOrder
  <2>3. CASE ExpireTimedOutOrder(w)
    BY <2>3 DEF ExpireTimedOutOrder
  <2>4. CASE VerifyOrder(w)
    BY <2>4 DEF VerifyOrder
  <2>5. CASE RetryFulfillment(w)
    BY <2>5 DEF RetryFulfillment, Retryable
  <2>6. CASE AdminManualFulfillOrder(w)
    BY <2>6 DEF AdminManualFulfillOrder
  <2>7. CASE ManualUpdate(w)
    BY <2>7 DEF ManualUpdate
  <2>8. CASE QueryOrder(w)
    BY <2>8 DEF QueryOrder
  <2>9. CASE PersistTradeNo(w)
    BY <2>9 DEF PersistTradeNo
  <2>10. CASE CancelPayment(w)
    BY <2>10 DEF CancelPayment
  <2>11. CASE CancelCore(w)
    BY <2>11 DEF CancelCore
  <2>12. CASE ConfirmPayment(w)
    BY <2>12 DEF ConfirmPayment, Payable
  <2>13. CASE AlreadyProcessed(w)
    BY <2>13 DEF AlreadyProcessed
  <2>14. CASE ExecuteFulfillment(w)
    BY <2>14 DEF ExecuteFulfillment
  <2>15. CASE AcquireLease(w)
    BY <2>15 DEF AcquireLease, Leasable
  <2>16. CASE LeaseMissed(w)
    BY <2>16 DEF LeaseMissed
  <2>17. CASE ReloadLease(w)
    BY <2>17 DEF ReloadLease
  <2>18. CASE LookupCode(w)
    BY <2>18 DEF LookupCode
  <2>19. CASE CreateCode(w)
    BY <2>19 DEF CreateCode
  <2>20. CASE Redeem(w)
    BY <2>20 DEF Redeem, UsableCode
  <2>21. CASE CheckAssigned(w)
    BY <2>21 DEF CheckAssigned
  <2>22. CASE AssignSubscription(w)
    BY <2>22 DEF AssignSubscription
  <2>23. CASE ApplyRebate(w)
    BY <2>23 DEF ApplyRebate
  <2>24. CASE MarkCompleted(w)
    BY <2>24 DEF MarkCompleted, HoldsLease
  <2>25. CASE RecheckCompleted(w)
    BY <2>25 DEF RecheckCompleted
  <2>26. CASE MarkFailed(w)
    BY <2>26 DEF MarkFailed, HoldsLease
  <2>27. CASE QueryFailed(w)
    BY <2>27 DEF QueryFailed
  <2>28. CASE StepFails(w)
    BY <2>28 DEF StepFails
  <2>29. CASE Crash(w)
    BY <2>29 DEF Crash
  <2> QED
    BY <1>8, <2>1, <2>2, <2>3, <2>4, <2>5, <2>6, <2>7, <2>8, <2>9, <2>10, <2>11, <2>12, <2>13, <2>14, <2>15, <2>16, <2>17, <2>18, <2>19, <2>20, <2>21, <2>22, <2>23, <2>24, <2>25, <2>26, <2>27, <2>28, <2>29
       DEF Invoke, Proceed, Disturb
<1>9. CASE UNCHANGED vars
  BY <1>9
<1> QED
  BY <1>1, <1>2, <1>3, <1>4, <1>5, <1>6, <1>7, <1>8, <1>9 DEF Next, Create

-----------------------------------------------------------------------------
(* The inductive invariant holds in every reachable state.                   *)
THEOREM InductiveInvariant == Spec => []IInv
<1>1. Init => IInv
  <2> SUFFICES ASSUME Init PROVE IInv
    OBVIOUS
  <2>1. TypeOK
    <3>1. ProcType
      BY DEF Init, ProcType, Status, Label, AllJobs
    <3>2. age \in 0..AgeCap /\ clock \in 0..ClockCap
      BY CapsType DEF Init
    <3>3. faults \in 0..MaxFaults /\ crashes \in 0..MaxCrashes /\ grants \in Nat
      BY BoundAssumption DEF Init
    <3> QED
      BY <3>1, <3>2, <3>3 DEF Init, TypeOK, ProcType, Status
  <2>2. GrantInv /\ PaidInv
    BY OrderTypeAssumption DEF Init, GrantInv, PaidInv, Granted, Fulfilling
  <2>3. SettledInv /\ SeenInv
    BY DEF Init, SettledInv, SeenInv
  <2> QED
    BY <2>1, <2>2, <2>3 DEF IInv
<1>2. IInv /\ [Next]_vars => IInv'
  BY TypeStep, GrantStep, PaidStep, SettledStep, SeenStep DEF IInv
<1> QED
  BY <1>1, <1>2, PTL DEF Spec

(* All fields of the row, of the records and of the processes keep their     *)
(* types: no handler writes a status outside the enumeration.                *)
THEOREM TypeCorrect == Spec => []TypeOK
  BY InductiveInvariant, PTL DEF IInv

(* An order is fulfilled at most once: however many workers, duplicates,     *)
(* retries, takeovers, faults and crashes there are.                         *)
THEOREM AtMostOneGrant == Spec => []GrantedAtMostOnce
<1>1. IInv => GrantedAtMostOnce
  BY DEF IInv, GrantInv, GrantedAtMostOnce
<1> QED
  BY <1>1, InductiveInvariant, PTL

(* Nothing is granted without the right payment or an administrator.         *)
THEOREM NoFreeGrant == Spec => []GrantOnlyIfPaid
<1>1. IInv => GrantOnlyIfPaid
  BY OrderTypeAssumption DEF IInv, GrantInv, PaidInv, Granted, GrantOnlyIfPaid
<1> QED
  BY <1>1, InductiveInvariant, PTL

(* COMPLETED means that grant and rebate are done.                           *)
THEOREM CompletionIsTruthful == Spec => []CompletedIsSettled
<1>1. IInv => CompletedIsSettled
  BY DEF IInv, GrantInv, SettledInv, CompletedIsSettled
<1> QED
  BY <1>1, InductiveInvariant, PTL

-----------------------------------------------------------------------------
(* The steps that can write payment_orders.status.                           *)
StatusWrite(w) ==
    \/ ManualUpdate(w) \/ CancelCore(w) \/ ConfirmPayment(w) \/ AcquireLease(w)
    \/ MarkCompleted(w) \/ MarkFailed(w)

(* No other step changes the status.                                         *)
LEMMA StatusWriters ==
    ASSUME [Next]_vars, status' # status
    PROVE  CreateFailed \/ FailStaleRecharging \/ \E w \in Worker : StatusWrite(w)
<1> USE DEF row, RowUnchanged
<1>1. CASE CreatePayment \/ SaveProviderOrder \/ UserPays \/ UserRedeem \/ Tick \/ UNCHANGED vars
  BY <1>1 DEF CreatePayment, SaveProviderOrder, UserPays, UserRedeem, Tick, vars
<1>2. ASSUME NEW w \in Worker, Invoke(w) \/ Disturb(w)
      PROVE  FALSE
  BY <1>2 DEF Invoke, Disturb, HandleNotify, CancelOrder, ExpireTimedOutOrder, VerifyOrder,
       RetryFulfillment, AdminManualFulfillOrder, QueryFailed, StepFails, Crash
<1>3. ASSUME NEW w \in Worker, Proceed(w)
      PROVE  StatusWrite(w)
  BY <1>3 DEF Proceed, StatusWrite, QueryOrder, PersistTradeNo, CancelPayment,
       AlreadyProcessed, ExecuteFulfillment, LeaseMissed, ReloadLease, LookupCode, CreateCode,
       Redeem, CheckAssigned, AssignSubscription, ApplyRebate, RecheckCompleted
<1> QED
  BY <1>1, <1>2, <1>3 DEF Next, Create

(* A completed order stays completed, for every number of late deliveries,   *)
(* retries and stale workers.                                                *)
THEOREM CompletedStays == Spec => CompletedIsFinal
<1>1. ASSUME IInv, [Next]_vars, status = "COMPLETED", creating # "fail"
      PROVE  status' = "COMPLETED"
  <2> SUFFICES ASSUME status' # status PROVE FALSE
    BY <1>1
  <2> USE <1>1
  <2>1. CASE CreateFailed \/ FailStaleRecharging
    BY <2>1 DEF CreateFailed, FailStaleRecharging
  <2>2. ASSUME NEW w \in Worker, StatusWrite(w) PROVE FALSE
    BY <2>2 DEF StatusWrite, ManualUpdate, CancelCore, ConfirmPayment, AcquireLease,
         MarkCompleted, MarkFailed, HoldsLease, Leasable, Payable, RowUnchanged, row,
         IInv, SeenInv
  <2> QED
    BY <2>1, <2>2, StatusWriters
<1>2. ASSUME IInv, UNCHANGED vars, status = "COMPLETED" PROVE status' = "COMPLETED"
  BY <1>2 DEF vars, row
<1> QED
  BY <1>1, <1>2, InductiveInvariant, PTL DEF Spec, CompletedIsFinal

(* A worker with a fresh lease is left alone, because the expiry job waits at*)
(* least as long as a lease lasts and every other guard rules RECHARGING out.*)
THEOREM FreshLeaseIsRespected == Spec => LeaseIsRespected
<1> DEFINE P == (status = "RECHARGING" /\ status' # "RECHARGING" /\ lease # {} /\ age < LeaseDuration)
        => \/ \E w \in lease : pc'[w] # pc[w]
           \/ \E w \in Worker : pc[w] = "manual" /\ pc'[w] # "manual"
           \/ creating = "fail"
<1>1. ASSUME IInv, [Next]_vars PROVE P
  <2> SUFFICES ASSUME status = "RECHARGING", status' # status, age < LeaseDuration PROVE P
    OBVIOUS
  <2> USE <1>1 DEF IInv, TypeOK
  <2>1. CASE CreateFailed
    BY <2>1 DEF CreateFailed
  <2>2. CASE FailStaleRecharging
    BY <2>2, TimeAssumption DEF FailStaleRecharging, RechargingTimeout
  <2>3. ASSUME NEW w \in Worker, StatusWrite(w) PROVE P
    <3>1. CASE ManualUpdate(w)
      BY <3>1 DEF ManualUpdate, Goto, Return
    <3>2. CASE MarkCompleted(w) \/ MarkFailed(w)
      BY <3>2 DEF MarkCompleted, MarkFailed, HoldsLease, Return, RowUnchanged, row
    <3>3. CASE CancelCore(w) \/ ConfirmPayment(w)
      BY <3>3 DEF CancelCore, ConfirmPayment, Payable, RowUnchanged, row
    <3>4. CASE AcquireLease(w)
      BY <3>4 DEF AcquireLease, SetStatus, RowUnchanged, row
    <3> QED
      BY <2>3, <3>1, <3>2, <3>3, <3>4 DEF StatusWrite
  <2> QED
    BY <2>1, <2>2, <2>3, StatusWriters
<1>2. ASSUME UNCHANGED vars PROVE P
  BY <1>2 DEF vars, row
<1> QED
  BY <1>1, <1>2, InductiveInvariant, PTL DEF Spec, LeaseIsRespected

=============================================================================
