------------------------ MODULE BatchImageJobProofs ------------------------
(* Theorems about BatchImageJob for every set of workers, every hold, cost   *)
(* and balance, and every number of retries, faults, crashes and lost leases.*)
EXTENDS BatchImageJob, TLAPS

(* The steps of Submit before the provider's job is recorded.                *)
BeforeName == {"new", "reserve", "items", "uploading", "provider", "name"}
Failing == {"release", "releaseOnly", "record", "recordRetry"}
Submitted == {"submitted", "running", "indexing", "settling", "completed"}
PastIndexing == {"settling", "completed", "failed"}

(* The steps of a worker: with the lock, at the provider, in the settlement. *)
ProviderSteps == {"get", "running", "indexing", "failing", "cancelling", "index", "settling"}
SettleSteps == {"capture", "mark", "record", "exhaust", "recordRelease", "fail"}
Holding == ProviderSteps \union SettleSteps
             \union {"read", "load", "release", "settle", "check", "ack"}

(* provider_job_name is written once, by a Submit that has reserved the hold,*)
(* and no job leaves uploading for submitted without it.                     *)
NameInv ==
    /\ named => provider # "none" /\ Claimed(bill, "hold")
    /\ sub = "new" <=> status = "none"
    /\ sub = "name" => provider # "none"
    /\ sub \in BeforeName \union Failing => ~named
    /\ sub \in {"new", "reserve"} => ~Claimed(bill, "hold")
    /\ sub \in {"items", "uploading", "provider", "name"} => Claimed(bill, "hold")
    /\ status \in Submitted => named
    /\ \A w \in Worker : pc[w] \in {"get"} \union SettleSteps => named

(* Whoever is about to release on behalf of an ended job sees it ended.      *)
DeadInv ==
    /\ can = "release" => status \in Dead
    /\ rec = "release" => status \in Dead
    /\ \A w \in Worker : pc[w] = "release" => status \in Dead

(* The ledger is exact, and the hold that is captured covers the cost.       *)
BillInv ==
    /\ Balanced(bill, cost)
    /\ bill.returned => Claimed(bill, "hold") /\ Claimed(bill, "release")
    /\ Captured(bill) => cost <= Hold /\ named /\ status \in PastIndexing

(* The settlement comes after the index, the capture before completion.      *)
SettleInv ==
    /\ status \notin PastIndexing => retry = 0
    /\ status = "completed" => Captured(bill)
    /\ \A w \in Worker :
          /\ pc[w] \in SettleSteps => status \in PastIndexing
          /\ pc[w] = "mark" => Captured(bill)
          /\ pc[w] \in {"exhaust", "recordRelease", "fail"} => retry >= MaxRetries

(* A hold goes back when the job is dead, when Submit has given up, or out   *)
(* of the settlement.                                                        *)
ReturnInv ==
    bill.returned => \/ status \in Dead \union {"settling", "completed"}
                     \/ status \in Unsubmitted /\ sub \notin BeforeName

(* As long as no worker outlives its lease the job lock excludes: what a     *)
(* worker has read of the settlement still holds when it acts.               *)
ExclusionInv ==
    ~outlived =>
        /\ lost = {}
        /\ \A w \in Worker :
              /\ pc[w] \in Holding => lock = w
              /\ pc[w] \in SettleSteps => status = "settling"
              /\ pc[w] \in ProviderSteps => status \notin {"settling", "completed"}

(* In an orderly system a settlement whose cost the hold covers fails only   *)
(* by faults, so that it is never exhausted.                                 *)
RetryInv ==
    Orderly /\ cost <= Hold =>
        /\ retry <= trouble
        /\ \A w \in Worker : pc[w] = "record" => retry < trouble

(* So the settlement gives a hold back only when it cannot be captured, and  *)
(* what is captured does not fail.                                           *)
MoneyInv ==
    Orderly =>
        /\ bill.returned /\ status \in {"settling", "completed"} => cost > Hold
        /\ Captured(bill) => status \in {"settling", "completed"}

IInv ==
    /\ TypeOK /\ NameInv /\ DeadInv /\ BillInv /\ SettleInv /\ ReturnInv
    /\ ExclusionInv /\ RetryInv /\ MoneyInv /\ QueuedIsNotLost

-----------------------------------------------------------------------------
(* What the transactions of the billing repository do to the claims.         *)
SameClaims(b, c) == \A r \in RequestId : Claimed(c, r) <=> Claimed(b, r)

(* Reserve claims the hold, or changes nothing.                              *)
LEMMA ReserveEffect ==
    ASSUME NEW b \in Ledger, NEW n \in Nat, Balanced(b, n)
    PROVE  /\ Reserve(b) \in Ledger /\ Balanced(Reserve(b), n)
           /\ Claimed(Reserve(b), "capture") <=> Claimed(b, "capture")
           /\ Claimed(Reserve(b), "release") <=> Claimed(b, "release")
           /\ Claimed(b, "hold") => Reserve(b) = b
           /\ ReserveOK(b) => Claimed(Reserve(b), "hold")
           /\ Reserve(b).returned = b.returned
<1> USE HoldAssumption DEF Ledger, RequestId, Place, Claimed, ReserveOK, Reserve, Apply
<1>1. CASE Claimed(b, "hold") \/ b.balance < Hold
  BY <1>1
<1>2. CASE ~Claimed(b, "hold") /\ b.balance >= Hold
  <2> DEFINE c == Reserve(b)
  <2>1. /\ c.claim = [b.claim EXCEPT !["hold"] = "dedup"]
        /\ c.balance = b.balance - Hold /\ c.frozen = b.frozen + Hold
        /\ c.returned = b.returned
    BY <1>2
  <2>2. c \in Ledger
    BY <1>2
  <2>3. Balanced(c, n)
    BY <1>2, <2>1 DEF Balanced, Captured, Amount
  <2> QED
    BY <1>2, <2>1, <2>2, <2>3
<1> QED
  BY <1>1, <1>2

(* Capture claims the cost, which the hold covers, or changes nothing.       *)
LEMMA CaptureEffect ==
    ASSUME NEW b \in Ledger, NEW n \in Nat, Balanced(b, n)
    PROVE  /\ Capture(b, n) \in Ledger /\ Balanced(Capture(b, n), n)
           /\ Claimed(Capture(b, n), "hold") <=> Claimed(b, "hold")
           /\ Claimed(Capture(b, n), "release") <=> Claimed(b, "release")
           /\ Captured(b) => Capture(b, n) = b
           /\ CaptureOK(b, n) => Captured(Capture(b, n))
           /\ Captured(Capture(b, n)) => Captured(b) \/ n <= Hold
           /\ Capture(b, n).returned = b.returned
<1> USE HoldAssumption
    DEF Ledger, RequestId, Place, Claimed, Captured, CaptureOK, Capture, Apply
<1>1. CASE Claimed(b, "capture") \/ ~CaptureOK(b, n)
  BY <1>1
<1>2. CASE ~Claimed(b, "capture") /\ n <= Hold /\ b.frozen >= Hold
  <2> DEFINE c == Capture(b, n)
  <2>1. /\ c.claim = [b.claim EXCEPT !["capture"] = "dedup"]
        /\ c.balance = b.balance + (Hold - n) /\ c.frozen = b.frozen - Hold
        /\ c.returned = b.returned
    BY <1>2
  <2>2. c \in Ledger
    BY <1>2
  <2>3. Balanced(c, n)
    BY <1>2, <2>1 DEF Balanced, Amount
  <2> QED
    BY <1>2, <2>1, <2>2, <2>3
<1> QED
  BY <1>1, <1>2

(* Release gives the hold back if there is one, and then never again.        *)
LEMMA ReleaseEffect ==
    ASSUME NEW b \in Ledger, NEW n \in Nat, Balanced(b, n),
           b.returned => Claimed(b, "hold") /\ Claimed(b, "release")
    PROVE  /\ Release(b) \in Ledger /\ Balanced(Release(b), n)
           /\ Claimed(Release(b), "hold") <=> Claimed(b, "hold")
           /\ Captured(Release(b)) <=> Captured(b)
           /\ Release(b).returned => Claimed(b, "hold") /\ Claimed(Release(b), "release")
           /\ b.returned => Release(b).returned
<1> USE HoldAssumption
    DEF Ledger, RequestId, Place, Claimed, Captured, ReleaseOK, Release, Apply
<1>1. CASE Claimed(b, "release") \/ ~ReleaseOK(b)
  BY <1>1
<1>2. CASE ~Claimed(b, "release") /\ ~Claimed(b, "hold")
  <2> DEFINE c == Release(b)
  <2>1. /\ c.claim = [b.claim EXCEPT !["release"] = "dedup"]
        /\ c.balance = b.balance /\ c.frozen = b.frozen /\ c.returned = b.returned
    BY <1>2
  <2>2. c \in Ledger
    BY <1>2
  <2>3. Balanced(c, n)
    BY <1>2, <2>1 DEF Balanced, Amount
  <2> QED
    BY <1>2, <2>1, <2>2, <2>3
<1>3. CASE ~Claimed(b, "release") /\ Claimed(b, "hold") /\ b.frozen >= Hold
  <2> DEFINE c == Release(b)
  <2>1. /\ c.claim = [b.claim EXCEPT !["release"] = "dedup"]
        /\ c.balance = b.balance + Hold /\ c.frozen = b.frozen - Hold /\ c.returned = TRUE
    BY <1>3
  <2>2. c \in Ledger
    BY <1>3
  <2>3. Balanced(c, n)
    BY <1>3, <2>1 DEF Balanced, Amount
  <2> QED
    BY <1>3, <2>1, <2>2, <2>3
<1> QED
  BY <1>1, <1>2, <1>3

(* The archive keeps every claim.                                            *)
LEMMA ArchiveEffect ==
    ASSUME NEW b \in Ledger, NEW n \in Nat, Balanced(b, n)
    PROVE  /\ ArchiveClaims(b) \in Ledger /\ Balanced(ArchiveClaims(b), n)
           /\ SameClaims(b, ArchiveClaims(b))
           /\ ArchiveClaims(b).returned = b.returned
<1> DEFINE c == ArchiveClaims(b)
<1>1. /\ c.claim = [r \in RequestId |-> IF b.claim[r] = "none" THEN "none" ELSE "archive"]
      /\ c.balance = b.balance /\ c.frozen = b.frozen /\ c.returned = b.returned
  BY DEF ArchiveClaims, Ledger
<1>2. c \in Ledger
  BY DEF ArchiveClaims, Ledger, Place
<1>3. SameClaims(b, c)
  BY <1>1 DEF SameClaims, Claimed
<1>4. Balanced(c, n)
  BY <1>1, <1>3 DEF SameClaims, Balanced, Captured, Amount, RequestId
<1> QED
  BY <1>1, <1>2, <1>3, <1>4

(* A hold that has neither been captured nor given back still is frozen.     *)
LEMMA HoldIsFrozen ==
    ASSUME NEW b \in Ledger, NEW n \in Nat, Balanced(b, n),
           Claimed(b, "hold"), ~Captured(b), ~b.returned
    PROVE  b.frozen >= Hold
  BY HoldAssumption DEF Ledger, Balanced, Amount

(* Until the cost is captured the ledger does not depend on it.              *)
LEMMA CostIsOpen ==
    ASSUME NEW b, NEW m, NEW n, Balanced(b, m), ~Captured(b)
    PROVE  Balanced(b, n)
  BY DEF Balanced, Amount

(* The cost of a job is a natural number.                                    *)
LEMMA CostType == ASSUME TypeOK PROVE cost \in Nat /\ output \in Nat
  BY JobAssumption DEF TypeOK

(* A queue that has lost nothing.                                            *)
Sound(q) == q \in Queue /\ (q.inflight => InQueue(q))

(* No operation of the queue loses the job.                                  *)
LEMMA QueueEffect ==
    ASSUME NEW q, Sound(q)
    PROVE  /\ Sound(Enqueue(q)) /\ Sound(RequeueAfter(q)) /\ Sound(Ack(q))
           /\ Sound(MoveDueDelayedToReady(q)) /\ Sound(RecoverStaleActive(q))
           /\ q.ready > 0 => Sound(ReserveJob(q))
<1> USE DEF Sound, Queue, InQueue
<1>1. Sound(Enqueue(q))
  <2>1. CASE q.inflight
    BY <2>1 DEF Enqueue
  <2>2. CASE ~q.inflight
    <3>1. Enqueue(q) = [ready |-> q.ready + 1, delayed |-> q.delayed, active |-> q.active,
                        inflight |-> TRUE]
      BY <2>2 DEF Enqueue
    <3> QED
      BY <3>1
  <2> QED
    BY <2>1, <2>2
<1>2. Sound(RequeueAfter(q))
  BY DEF RequeueAfter
<1>3. Sound(Ack(q))
  BY DEF Ack
<1>4. Sound(MoveDueDelayedToReady(q))
  <2>1. /\ MoveDueDelayedToReady(q).ready = q.ready + 1 /\ MoveDueDelayedToReady(q).delayed = FALSE
        /\ MoveDueDelayedToReady(q).active = q.active /\ MoveDueDelayedToReady(q).inflight = q.inflight
    BY DEF MoveDueDelayedToReady
  <2>2. q.ready + 1 \in Nat
    OBVIOUS
  <2>3. MoveDueDelayedToReady(q) \in Queue
    BY <2>2, Zenon DEF MoveDueDelayedToReady
  <2> QED
    BY <2>1, <2>3
<1>5. Sound(RecoverStaleActive(q))
  <2>1. /\ RecoverStaleActive(q).ready = q.ready + 1 /\ RecoverStaleActive(q).delayed = q.delayed
        /\ RecoverStaleActive(q).active = FALSE /\ RecoverStaleActive(q).inflight = q.inflight
    BY DEF RecoverStaleActive
  <2>2. q.ready + 1 \in Nat
    OBVIOUS
  <2>3. RecoverStaleActive(q) \in Queue
    BY <2>2, Zenon DEF RecoverStaleActive
  <2> QED
    BY <2>1, <2>3
<1>6. ASSUME q.ready > 0
      PROVE  Sound(ReserveJob(q))
  <2>1. /\ ReserveJob(q).ready = q.ready - 1 /\ ReserveJob(q).delayed = q.delayed
        /\ ReserveJob(q).active = TRUE /\ ReserveJob(q).inflight = q.inflight
    BY DEF ReserveJob
  <2>2. q.ready - 1 \in Nat
    BY <1>6
  <2>3. ReserveJob(q) \in Queue
    BY <2>2, Zenon DEF ReserveJob
  <2> QED
    BY <1>6, <2>1, <2>3
<1> QED
  BY <1>1, <1>2, <1>3, <1>4, <1>5, <1>6

-----------------------------------------------------------------------------
(* No step drops a queued job.                                               *)
LEMMA QueueStep ==
    ASSUME Sound(queue), [Next]_vars
    PROVE  Sound(queue)'
<1> USE DEF row, upstream, redis, callers, workers, bounds, vars, NoFault, Fault, Call
<1>1. CASE CreateJob
  BY <1>1 DEF CreateJob
<1>2. CASE SubmitReserve
  BY <1>2 DEF SubmitReserve
<1>3. CASE CreatePendingItems
  BY <1>3 DEF CreatePendingItems
<1>4. CASE SubmitUploading
  BY <1>4 DEF SubmitUploading, Transition, CanTransition, Allowed, Terminal, Dead
<1>5. CASE SubmitToProvider
  BY <1>5 DEF SubmitToProvider
<1>6. CASE UpdateProviderSubmit
  BY <1>6 DEF UpdateProviderSubmit, CanTransition, Allowed, Terminal, Dead
<1>7. CASE AbortOrphanProviderJob
  BY <1>7 DEF AbortOrphanProviderJob
<1>8. CASE SubmitEnqueue
  BY <1>8, QueueEffect DEF SubmitEnqueue, EnqueueJob
<1>9. CASE ReleaseFailedSubmitHold
  BY <1>9 DEF ReleaseFailedSubmitHold, ReleaseHold
<1>10. CASE RecordSubmitFailure
  BY <1>10 DEF RecordSubmitFailure
<1>11. CASE SubmitHeartbeat
  BY <1>11 DEF SubmitHeartbeat, Unsubmitted
<1>12. CASE Resubmit
  BY <1>12 DEF Resubmit
<1>13. CASE CancelRead
  BY <1>13 DEF CancelRead, Dead
<1>14. CASE CancelAtProvider
  BY <1>14 DEF CancelAtProvider
<1>15. CASE CancelTransition
  BY <1>15 DEF CancelTransition, Transition, CanTransition, Allowed, Terminal, Dead
<1>16. CASE CancelRelease
  BY <1>16 DEF CancelRelease, ReleaseHold
<1>17. CASE CancelEnqueue
  BY <1>17, QueueEffect DEF CancelEnqueue, EnqueueJob
<1>18. CASE GrowStale
  BY <1>18 DEF GrowStale, Unsubmitted
<1>19. CASE ListStaleUnsubmitted
  BY <1>19 DEF ListStaleUnsubmitted, StaleUnsubmitted, Unsubmitted
<1>20. CASE FailStaleUnsubmitted
  BY <1>20 DEF FailStaleUnsubmitted, StaleUnsubmitted, Unsubmitted
<1>21. CASE RecoveryRelease
  BY <1>21 DEF RecoveryRelease, ReleaseHold
<1>22. CASE RecoveryEnqueue
  BY <1>22, QueueEffect DEF RecoveryEnqueue, EnqueueJob
<1>23. CASE ProviderRuns
  BY <1>23 DEF ProviderRuns
<1>24. CASE ProviderEnds
  BY <1>24 DEF ProviderEnds, Unfinished
<1>25. CASE MoveDueDelayed
  BY <1>25, QueueEffect DEF MoveDueDelayed
<1>26. CASE RecoverActive
  BY <1>26, QueueEffect DEF RecoverActive
<1>27. CASE LockExpires
  BY <1>27 DEF LockExpires
<1>28. CASE Archive
  BY <1>28 DEF Archive, Terminal, Dead
<1>29. CASE Crash
  BY <1>29 DEF Crash, Idle
<1>30. ASSUME NEW w \in Worker, WorkerStep(w) \/ LoseLease(w)
       PROVE  Sound(queue)'
  <2>1. CASE WorkerReserve(w)
    BY <2>1, QueueEffect DEF WorkerReserve, Goto
  <2>2. CASE TryAcquireJobLock(w)
    BY <2>2 DEF TryAcquireJobLock, Goto
  <2>3. CASE PipelineRead(w)
    BY <2>3 DEF PipelineRead, Goto
  <2>4. CASE ProcessorLoad(w)
    BY <2>4 DEF ProcessorLoad, Dead, Goto
  <2>5. CASE ProviderGet(w)
    BY <2>5 DEF ProviderGet, Goto
  <2>6. CASE ProcessorTransition(w)
    BY <2>6 DEF ProcessorTransition, Transition, CanTransition, Allowed, Goto,
                Terminal, Dead
  <2>7. CASE Index(w)
    BY <2>7 DEF Index, Goto
  <2>8. CASE ReleaseTerminalHold(w)
    BY <2>8 DEF ReleaseTerminalHold, ReleaseHold, Goto
  <2>9. CASE Settle(w)
    BY <2>9 DEF Settle, Goto
  <2>10. CASE CaptureHold(w)
    BY <2>10 DEF CaptureHold, Goto
  <2>11. CASE MarkSettled(w)
    BY <2>11 DEF MarkSettled, Goto
  <2>12. CASE RecordSettlementFailure(w)
    BY <2>12 DEF RecordSettlementFailure, Goto
  <2>13. CASE ExhaustRelease(w)
    BY <2>13 DEF ExhaustRelease, ReleaseHold, Goto
  <2>14. CASE ExhaustFail(w)
    BY <2>14 DEF ExhaustFail, Transition, CanTransition, Allowed, Goto, Terminal, Dead
  <2>15. CASE ExhaustCheck(w)
    BY <2>15 DEF ExhaustCheck, Terminal, Dead, Goto
  <2>16. CASE FinishEntry(w)
    BY <2>16, QueueEffect DEF FinishEntry, Goto
  <2>17. CASE ReleaseJobLock(w)
    BY <2>17 DEF ReleaseJobLock, Idle
  <2>18. CASE LoseLease(w)
    BY <2>18 DEF LoseLease
  <2> QED
    BY <1>30, <2>1, <2>2, <2>3, <2>4, <2>5, <2>6, <2>7, <2>8, <2>9, <2>10, <2>11,
       <2>12, <2>13, <2>14, <2>15, <2>16, <2>17, <2>18 DEF WorkerStep
<1>31. CASE UNCHANGED vars
  BY <1>31
<1> QED
  BY <1>1, <1>2, <1>3, <1>4, <1>5, <1>6, <1>7, <1>8, <1>9, <1>10, <1>11, <1>12, <1>13,
     <1>14, <1>15, <1>16, <1>17, <1>18, <1>19, <1>20, <1>21, <1>22, <1>23, <1>24,
     <1>25, <1>26, <1>27, <1>28, <1>29, <1>30, <1>31
     DEF Next, SubmitStep, CancelStep, RecoveryStep, Environment

(* Every step keeps the types.                                               *)
LEMMA TypeStep ==
    ASSUME TypeOK, NameInv, BillInv, queue' \in Queue, [Next]_vars
    PROVE  TypeOK'
<1> USE CostType, JobAssumption
    DEF TypeOK, NameInv, BillInv, SettleSteps, Status, SubmitLabel, CancelLabel,
        RecoveryLabel, WorkerLabel, ProviderState, row, upstream, redis, callers,
        workers, bounds, vars, NoFault, Fault, Call
<1>1. CASE CreateJob
  BY <1>1 DEF CreateJob
<1>2. CASE SubmitReserve
  BY <1>2, ReserveEffect DEF SubmitReserve
<1>3. CASE CreatePendingItems
  BY <1>3 DEF CreatePendingItems
<1>4. CASE SubmitUploading
  <2>1. named' \in BOOLEAN /\ stale' \in BOOLEAN /\ asked' \in BOOLEAN
    BY <1>4 DEF SubmitUploading, Transition, CanTransition, Allowed,
      Terminal, Dead
  <2> QED
    BY <1>4, <2>1 DEF SubmitUploading, Transition, CanTransition, Allowed,
      Terminal, Dead
<1>5. CASE SubmitToProvider
  BY <1>5 DEF SubmitToProvider
<1>6. CASE UpdateProviderSubmit
  <2>1. named' \in BOOLEAN /\ stale' \in BOOLEAN /\ asked' \in BOOLEAN
    BY <1>6 DEF UpdateProviderSubmit, CanTransition, Allowed,
      Terminal, Dead
  <2> QED
    BY <1>6, <2>1 DEF UpdateProviderSubmit, CanTransition, Allowed,
      Terminal, Dead
<1>7. CASE AbortOrphanProviderJob
  <2>1. named' \in BOOLEAN /\ stale' \in BOOLEAN /\ asked' \in BOOLEAN
    BY <1>7 DEF AbortOrphanProviderJob
  <2> QED
    BY <1>7, <2>1 DEF AbortOrphanProviderJob
<1>8. CASE SubmitEnqueue
  BY <1>8 DEF SubmitEnqueue, EnqueueJob
<1>9. CASE ReleaseFailedSubmitHold
  BY <1>9, ReleaseEffect DEF ReleaseFailedSubmitHold, ReleaseHold
<1>10. CASE RecordSubmitFailure
  BY <1>10 DEF RecordSubmitFailure
<1>11. CASE SubmitHeartbeat
  <2>1. named' \in BOOLEAN /\ stale' \in BOOLEAN /\ asked' \in BOOLEAN
    BY <1>11 DEF SubmitHeartbeat, Unsubmitted
  <2> QED
    BY <1>11, <2>1 DEF SubmitHeartbeat, Unsubmitted
<1>12. CASE Resubmit
  BY <1>12 DEF Resubmit
<1>13. CASE CancelRead
  BY <1>13 DEF CancelRead, Dead
<1>14. CASE CancelAtProvider
  <2>1. asked' \in BOOLEAN /\ can' \in CancelLabel
    BY <1>14 DEF CancelAtProvider
  <2>a. NoFault \/ Fault
    BY <1>14 DEF CancelAtProvider
  <2>2. outlived' \in BOOLEAN /\ trouble' \in 0..MaxTrouble
    BY <2>a
  <2>3. UNCHANGED <<row, bill, redis, provider, output, sub, rec, workers>>
    BY <1>14 DEF CancelAtProvider
  <2> QED
    BY <2>1, <2>2, <2>3
<1>15. CASE CancelTransition
  <2>1. named' \in BOOLEAN /\ stale' \in BOOLEAN /\ asked' \in BOOLEAN
    BY <1>15 DEF CancelTransition, Transition, CanTransition, Allowed,
      Terminal, Dead
  <2> QED
    BY <1>15, <2>1 DEF CancelTransition, Transition, CanTransition, Allowed,
      Terminal, Dead
<1>16. CASE CancelRelease
  BY <1>16, ReleaseEffect DEF CancelRelease, ReleaseHold
<1>17. CASE CancelEnqueue
  BY <1>17 DEF CancelEnqueue, EnqueueJob
<1>18. CASE GrowStale
  BY <1>18 DEF GrowStale, Unsubmitted
<1>19. CASE ListStaleUnsubmitted
  BY <1>19 DEF ListStaleUnsubmitted, StaleUnsubmitted, Unsubmitted
<1>20. CASE FailStaleUnsubmitted
  <2>1. named' \in BOOLEAN /\ stale' \in BOOLEAN /\ asked' \in BOOLEAN
    BY <1>20 DEF FailStaleUnsubmitted, StaleUnsubmitted, Unsubmitted
  <2> QED
    BY <1>20, <2>1 DEF FailStaleUnsubmitted, StaleUnsubmitted, Unsubmitted
<1>21. CASE RecoveryRelease
  BY <1>21, ReleaseEffect DEF RecoveryRelease, ReleaseHold
<1>22. CASE RecoveryEnqueue
  BY <1>22 DEF RecoveryEnqueue, EnqueueJob
<1>23. CASE ProviderRuns
  BY <1>23 DEF ProviderRuns
<1>24. CASE ProviderEnds
  BY <1>24 DEF ProviderEnds, Unfinished
<1>25. CASE MoveDueDelayed
  BY <1>25 DEF MoveDueDelayed
<1>26. CASE RecoverActive
  BY <1>26 DEF RecoverActive
<1>27. CASE LockExpires
  BY <1>27 DEF LockExpires
<1>28. CASE Archive
  BY <1>28, ArchiveEffect DEF Archive, Terminal, Dead
<1>29. CASE Crash
  BY <1>29 DEF Crash, Idle
<1>30. ASSUME NEW w \in Worker, WorkerStep(w) \/ LoseLease(w)
       PROVE  TypeOK'
  <2>1. CASE WorkerReserve(w)
    BY <2>1 DEF WorkerReserve, Goto
  <2>2. CASE TryAcquireJobLock(w)
    BY <2>2 DEF TryAcquireJobLock, Goto
  <2>3. CASE PipelineRead(w)
    BY <2>3 DEF PipelineRead, Goto
  <2>4. CASE ProcessorLoad(w)
    BY <2>4 DEF ProcessorLoad, Dead, Goto
  <2>5. CASE ProviderGet(w)
    BY <2>5 DEF ProviderGet, Goto
  <2>6. CASE ProcessorTransition(w)
    <3>1. named' \in BOOLEAN /\ stale' \in BOOLEAN /\ asked' \in BOOLEAN
      BY <2>6 DEF ProcessorTransition, Transition, CanTransition, Allowed, Goto,
        Terminal, Dead
    <3> QED
      BY <2>6, <3>1 DEF ProcessorTransition, Transition, CanTransition, Allowed, Goto,
        Terminal, Dead
  <2>7. CASE Index(w)
    BY <2>7 DEF Index, Goto
  <2>8. CASE ReleaseTerminalHold(w)
    BY <2>8, ReleaseEffect DEF ReleaseTerminalHold, ReleaseHold, Goto
  <2>9. CASE Settle(w)
    BY <2>9 DEF Settle, Goto
  <2>10. CASE CaptureHold(w)
    BY <2>10, CaptureEffect DEF CaptureHold, Goto
  <2>11. CASE MarkSettled(w)
    <3>1. named' \in BOOLEAN /\ stale' \in BOOLEAN /\ asked' \in BOOLEAN
      BY <2>11 DEF MarkSettled, Goto
    <3> QED
      BY <2>11, <3>1 DEF MarkSettled, Goto
  <2>12. CASE RecordSettlementFailure(w)
    BY <2>12 DEF RecordSettlementFailure, Goto
  <2>13. CASE ExhaustRelease(w)
    BY <2>13, ReleaseEffect DEF ExhaustRelease, ReleaseHold, Goto
  <2>14. CASE ExhaustFail(w)
    <3>1. named' \in BOOLEAN /\ stale' \in BOOLEAN /\ asked' \in BOOLEAN
      BY <2>14 DEF ExhaustFail, Transition, CanTransition, Allowed, Goto,
        Terminal, Dead
    <3> QED
      BY <2>14, <3>1 DEF ExhaustFail, Transition, CanTransition, Allowed, Goto,
        Terminal, Dead
  <2>15. CASE ExhaustCheck(w)
    BY <2>15 DEF ExhaustCheck, Terminal, Dead, Goto
  <2>16. CASE FinishEntry(w)
    BY <2>16 DEF FinishEntry, Goto
  <2>17. CASE ReleaseJobLock(w)
    BY <2>17 DEF ReleaseJobLock, Idle
  <2>18. CASE LoseLease(w)
    BY <2>18 DEF LoseLease
  <2> QED
    BY <1>30, <2>1, <2>2, <2>3, <2>4, <2>5, <2>6, <2>7, <2>8, <2>9, <2>10, <2>11,
       <2>12, <2>13, <2>14, <2>15, <2>16, <2>17, <2>18 DEF WorkerStep
<1>31. CASE UNCHANGED vars
  BY <1>31
<1> QED
  BY <1>1, <1>2, <1>3, <1>4, <1>5, <1>6, <1>7, <1>8, <1>9, <1>10, <1>11, <1>12, <1>13,
     <1>14, <1>15, <1>16, <1>17, <1>18, <1>19, <1>20, <1>21, <1>22, <1>23, <1>24,
     <1>25, <1>26, <1>27, <1>28, <1>29, <1>30, <1>31
     DEF Next, SubmitStep, CancelStep, RecoveryStep, Environment

(* Every step keeps the link between the row, Submit and the hold.           *)
LEMMA NameStep ==
    ASSUME TypeOK, NameInv, BillInv, [Next]_vars
    PROVE  NameInv'
<1> USE CostType
    DEF TypeOK, NameInv, BillInv, BeforeName, Failing, Submitted, SettleSteps, Status,
        SubmitLabel, WorkerLabel, row, upstream, redis, callers, workers, bounds, vars,
        NoFault, Fault, Call
<1>1. CASE CreateJob
  BY <1>1 DEF CreateJob
<1>2. CASE SubmitReserve
  BY <1>2, ReserveEffect DEF SubmitReserve
<1>3. CASE CreatePendingItems
  BY <1>3 DEF CreatePendingItems
<1>4. CASE SubmitUploading
  BY <1>4 DEF SubmitUploading, Transition, CanTransition, Allowed, Terminal, Dead
<1>5. CASE SubmitToProvider
  BY <1>5 DEF SubmitToProvider
<1>6. CASE UpdateProviderSubmit
  BY <1>6 DEF UpdateProviderSubmit, CanTransition, Allowed, Terminal, Dead
<1>7. CASE AbortOrphanProviderJob
  BY <1>7 DEF AbortOrphanProviderJob
<1>8. CASE SubmitEnqueue
  BY <1>8 DEF SubmitEnqueue, EnqueueJob
<1>9. CASE ReleaseFailedSubmitHold
  BY <1>9, ReleaseEffect DEF ReleaseFailedSubmitHold, ReleaseHold
<1>10. CASE RecordSubmitFailure
  BY <1>10 DEF RecordSubmitFailure
<1>11. CASE SubmitHeartbeat
  BY <1>11 DEF SubmitHeartbeat, Unsubmitted
<1>12. CASE Resubmit
  BY <1>12 DEF Resubmit
<1>13. CASE CancelRead
  BY <1>13 DEF CancelRead, Dead
<1>14. CASE CancelAtProvider
  BY <1>14 DEF CancelAtProvider
<1>15. CASE CancelTransition
  BY <1>15 DEF CancelTransition, Transition, CanTransition, Allowed, Terminal, Dead
<1>16. CASE CancelRelease
  BY <1>16, ReleaseEffect DEF CancelRelease, ReleaseHold
<1>17. CASE CancelEnqueue
  BY <1>17 DEF CancelEnqueue, EnqueueJob
<1>18. CASE GrowStale
  BY <1>18 DEF GrowStale, Unsubmitted
<1>19. CASE ListStaleUnsubmitted
  BY <1>19 DEF ListStaleUnsubmitted, StaleUnsubmitted, Unsubmitted
<1>20. CASE FailStaleUnsubmitted
  BY <1>20 DEF FailStaleUnsubmitted, StaleUnsubmitted, Unsubmitted
<1>21. CASE RecoveryRelease
  BY <1>21, ReleaseEffect DEF RecoveryRelease, ReleaseHold
<1>22. CASE RecoveryEnqueue
  BY <1>22 DEF RecoveryEnqueue, EnqueueJob
<1>23. CASE ProviderRuns
  BY <1>23 DEF ProviderRuns
<1>24. CASE ProviderEnds
  BY <1>24 DEF ProviderEnds, Unfinished
<1>25. CASE MoveDueDelayed
  BY <1>25 DEF MoveDueDelayed
<1>26. CASE RecoverActive
  BY <1>26 DEF RecoverActive
<1>27. CASE LockExpires
  BY <1>27 DEF LockExpires
<1>28. CASE Archive
  BY <1>28, ArchiveEffect DEF Archive, Terminal, Dead, SameClaims, RequestId
<1>29. CASE Crash
  BY <1>29 DEF Crash, Idle
<1>30. ASSUME NEW w \in Worker, WorkerStep(w) \/ LoseLease(w)
       PROVE  NameInv'
  <2>1. CASE WorkerReserve(w)
    BY <2>1 DEF WorkerReserve, Goto
  <2>2. CASE TryAcquireJobLock(w)
    BY <2>2 DEF TryAcquireJobLock, Goto
  <2>3. CASE PipelineRead(w)
    BY <2>3 DEF PipelineRead, Goto
  <2>4. CASE ProcessorLoad(w)
    BY <2>4 DEF ProcessorLoad, Dead, Goto
  <2>5. CASE ProviderGet(w)
    BY <2>5 DEF ProviderGet, Goto
  <2>6. CASE ProcessorTransition(w)
    BY <2>6 DEF ProcessorTransition, Transition, CanTransition, Allowed, Goto,
                Terminal, Dead
  <2>7. CASE Index(w)
    BY <2>7 DEF Index, Goto
  <2>8. CASE ReleaseTerminalHold(w)
    BY <2>8, ReleaseEffect DEF ReleaseTerminalHold, ReleaseHold, Goto
  <2>9. CASE Settle(w)
    BY <2>9 DEF Settle, Goto
  <2>10. CASE CaptureHold(w)
    BY <2>10, CaptureEffect DEF CaptureHold, Goto
  <2>11. CASE MarkSettled(w)
    BY <2>11 DEF MarkSettled, Goto
  <2>12. CASE RecordSettlementFailure(w)
    BY <2>12 DEF RecordSettlementFailure, Goto
  <2>13. CASE ExhaustRelease(w)
    BY <2>13, ReleaseEffect DEF ExhaustRelease, ReleaseHold, Goto
  <2>14. CASE ExhaustFail(w)
    BY <2>14 DEF ExhaustFail, Transition, CanTransition, Allowed, Goto, Terminal, Dead
  <2>15. CASE ExhaustCheck(w)
    BY <2>15 DEF ExhaustCheck, Terminal, Dead, Goto
  <2>16. CASE FinishEntry(w)
    BY <2>16 DEF FinishEntry, Goto
  <2>17. CASE ReleaseJobLock(w)
    BY <2>17 DEF ReleaseJobLock, Idle
  <2>18. CASE LoseLease(w)
    BY <2>18 DEF LoseLease
  <2> QED
    BY <1>30, <2>1, <2>2, <2>3, <2>4, <2>5, <2>6, <2>7, <2>8, <2>9, <2>10, <2>11,
       <2>12, <2>13, <2>14, <2>15, <2>16, <2>17, <2>18 DEF WorkerStep
<1>31. CASE UNCHANGED vars
  BY <1>31
<1> QED
  BY <1>1, <1>2, <1>3, <1>4, <1>5, <1>6, <1>7, <1>8, <1>9, <1>10, <1>11, <1>12, <1>13,
     <1>14, <1>15, <1>16, <1>17, <1>18, <1>19, <1>20, <1>21, <1>22, <1>23, <1>24,
     <1>25, <1>26, <1>27, <1>28, <1>29, <1>30, <1>31
     DEF Next, SubmitStep, CancelStep, RecoveryStep, Environment

(* An ended job stays ended for those who release its hold.                  *)
LEMMA DeadStep ==
    ASSUME TypeOK, NameInv, DeadInv, [Next]_vars
    PROVE  DeadInv'
<1> USE DEF TypeOK, NameInv, DeadInv, Dead, Status, ProviderState, CancelLabel,
            RecoveryLabel, WorkerLabel, row, upstream, redis, callers, workers, bounds,
            vars, NoFault, Fault, Call
<1>1. CASE CreateJob
  BY <1>1 DEF CreateJob
<1>2. CASE SubmitReserve
  BY <1>2 DEF SubmitReserve
<1>3. CASE CreatePendingItems
  BY <1>3 DEF CreatePendingItems
<1>4. CASE SubmitUploading
  BY <1>4 DEF SubmitUploading, Transition, CanTransition, Allowed, Terminal
<1>5. CASE SubmitToProvider
  BY <1>5 DEF SubmitToProvider
<1>6. CASE UpdateProviderSubmit
  BY <1>6 DEF UpdateProviderSubmit, CanTransition, Allowed, Terminal
<1>7. CASE AbortOrphanProviderJob
  BY <1>7 DEF AbortOrphanProviderJob
<1>8. CASE SubmitEnqueue
  BY <1>8 DEF SubmitEnqueue, EnqueueJob
<1>9. CASE ReleaseFailedSubmitHold
  BY <1>9 DEF ReleaseFailedSubmitHold, ReleaseHold
<1>10. CASE RecordSubmitFailure
  BY <1>10 DEF RecordSubmitFailure
<1>11. CASE SubmitHeartbeat
  BY <1>11 DEF SubmitHeartbeat, Unsubmitted
<1>12. CASE Resubmit
  BY <1>12 DEF Resubmit
<1>13. CASE CancelRead
  BY <1>13 DEF CancelRead
<1>14. CASE CancelAtProvider
  BY <1>14 DEF CancelAtProvider
<1>15. CASE CancelTransition
  BY <1>15 DEF CancelTransition, Transition, CanTransition, Allowed, Terminal
<1>16. CASE CancelRelease
  BY <1>16 DEF CancelRelease, ReleaseHold
<1>17. CASE CancelEnqueue
  BY <1>17 DEF CancelEnqueue, EnqueueJob
<1>18. CASE GrowStale
  BY <1>18 DEF GrowStale, Unsubmitted
<1>19. CASE ListStaleUnsubmitted
  BY <1>19 DEF ListStaleUnsubmitted, StaleUnsubmitted, Unsubmitted
<1>20. CASE FailStaleUnsubmitted
  BY <1>20 DEF FailStaleUnsubmitted, StaleUnsubmitted, Unsubmitted
<1>21. CASE RecoveryRelease
  BY <1>21 DEF RecoveryRelease, ReleaseHold
<1>22. CASE RecoveryEnqueue
  BY <1>22 DEF RecoveryEnqueue, EnqueueJob
<1>23. CASE ProviderRuns
  BY <1>23 DEF ProviderRuns
<1>24. CASE ProviderEnds
  BY <1>24 DEF ProviderEnds, Unfinished
<1>25. CASE MoveDueDelayed
  BY <1>25 DEF MoveDueDelayed
<1>26. CASE RecoverActive
  BY <1>26 DEF RecoverActive
<1>27. CASE LockExpires
  BY <1>27 DEF LockExpires
<1>28. CASE Archive
  BY <1>28 DEF Archive, Terminal
<1>29. CASE Crash
  BY <1>29 DEF Crash, Idle
<1>30. ASSUME NEW w \in Worker, WorkerStep(w) \/ LoseLease(w)
       PROVE  DeadInv'
  <2>1. CASE WorkerReserve(w)
    BY <2>1 DEF WorkerReserve, Goto
  <2>2. CASE TryAcquireJobLock(w)
    BY <2>2 DEF TryAcquireJobLock, Goto
  <2>3. CASE PipelineRead(w)
    BY <2>3 DEF PipelineRead, Goto
  <2>4. CASE ProcessorLoad(w)
    BY <2>4 DEF ProcessorLoad, Goto
  <2>5. CASE ProviderGet(w)
    BY <2>5 DEF ProviderGet, Goto
  <2>6. CASE ProcessorTransition(w)
    BY <2>6 DEF ProcessorTransition, Transition, CanTransition, Allowed, Goto, Terminal
  <2>7. CASE Index(w)
    BY <2>7 DEF Index, Goto
  <2>8. CASE ReleaseTerminalHold(w)
    BY <2>8 DEF ReleaseTerminalHold, ReleaseHold, Goto
  <2>9. CASE Settle(w)
    BY <2>9 DEF Settle, Goto
  <2>10. CASE CaptureHold(w)
    BY <2>10 DEF CaptureHold, Goto
  <2>11. CASE MarkSettled(w)
    BY <2>11 DEF MarkSettled, Goto
  <2>12. CASE RecordSettlementFailure(w)
    BY <2>12 DEF RecordSettlementFailure, Goto
  <2>13. CASE ExhaustRelease(w)
    BY <2>13 DEF ExhaustRelease, ReleaseHold, Goto
  <2>14. CASE ExhaustFail(w)
    BY <2>14 DEF ExhaustFail, Transition, CanTransition, Allowed, Goto, Terminal
  <2>15. CASE ExhaustCheck(w)
    BY <2>15 DEF ExhaustCheck, Terminal, Goto
  <2>16. CASE FinishEntry(w)
    BY <2>16 DEF FinishEntry, Goto
  <2>17. CASE ReleaseJobLock(w)
    BY <2>17 DEF ReleaseJobLock, Idle
  <2>18. CASE LoseLease(w)
    BY <2>18 DEF LoseLease
  <2> QED
    BY <1>30, <2>1, <2>2, <2>3, <2>4, <2>5, <2>6, <2>7, <2>8, <2>9, <2>10, <2>11,
       <2>12, <2>13, <2>14, <2>15, <2>16, <2>17, <2>18 DEF WorkerStep
<1>31. CASE UNCHANGED vars
  BY <1>31
<1> QED
  BY <1>1, <1>2, <1>3, <1>4, <1>5, <1>6, <1>7, <1>8, <1>9, <1>10, <1>11, <1>12, <1>13,
     <1>14, <1>15, <1>16, <1>17, <1>18, <1>19, <1>20, <1>21, <1>22, <1>23, <1>24,
     <1>25, <1>26, <1>27, <1>28, <1>29, <1>30, <1>31
     DEF Next, SubmitStep, CancelStep, RecoveryStep, Environment

(* Every step keeps the ledger exact.                                        *)
LEMMA BillStep ==
    ASSUME TypeOK, NameInv, BillInv, SettleInv, [Next]_vars
    PROVE  BillInv'
<1> USE CostType
    DEF TypeOK, NameInv, BillInv, SettleInv, BeforeName, Failing, Submitted,
        PastIndexing, SettleSteps, Status, SubmitLabel, row, upstream, redis, callers,
        workers, bounds, vars, NoFault, Fault, Call
<1>1. CASE CreateJob
  BY <1>1 DEF CreateJob
<1>2. CASE SubmitReserve
  BY <1>2, ReserveEffect DEF SubmitReserve, Captured
<1>3. CASE CreatePendingItems
  BY <1>3 DEF CreatePendingItems
<1>4. CASE SubmitUploading
  BY <1>4 DEF SubmitUploading, Transition, CanTransition, Allowed, Terminal, Dead
<1>5. CASE SubmitToProvider
  BY <1>5 DEF SubmitToProvider
<1>6. CASE UpdateProviderSubmit
  BY <1>6 DEF UpdateProviderSubmit, CanTransition, Allowed, Terminal, Dead
<1>7. CASE AbortOrphanProviderJob
  BY <1>7 DEF AbortOrphanProviderJob
<1>8. CASE SubmitEnqueue
  BY <1>8 DEF SubmitEnqueue, EnqueueJob
<1>9. CASE ReleaseFailedSubmitHold
  BY <1>9, ReleaseEffect DEF ReleaseFailedSubmitHold, ReleaseHold
<1>10. CASE RecordSubmitFailure
  BY <1>10 DEF RecordSubmitFailure
<1>11. CASE SubmitHeartbeat
  BY <1>11 DEF SubmitHeartbeat, Unsubmitted
<1>12. CASE Resubmit
  BY <1>12 DEF Resubmit
<1>13. CASE CancelRead
  BY <1>13 DEF CancelRead, Dead
<1>14. CASE CancelAtProvider
  BY <1>14 DEF CancelAtProvider
<1>15. CASE CancelTransition
  BY <1>15 DEF CancelTransition, Transition, CanTransition, Allowed, Terminal, Dead
<1>16. CASE CancelRelease
  BY <1>16, ReleaseEffect DEF CancelRelease, ReleaseHold
<1>17. CASE CancelEnqueue
  BY <1>17 DEF CancelEnqueue, EnqueueJob
<1>18. CASE GrowStale
  BY <1>18 DEF GrowStale, Unsubmitted
<1>19. CASE ListStaleUnsubmitted
  BY <1>19 DEF ListStaleUnsubmitted, StaleUnsubmitted, Unsubmitted
<1>20. CASE FailStaleUnsubmitted
  BY <1>20 DEF FailStaleUnsubmitted, StaleUnsubmitted, Unsubmitted
<1>21. CASE RecoveryRelease
  BY <1>21, ReleaseEffect DEF RecoveryRelease, ReleaseHold
<1>22. CASE RecoveryEnqueue
  BY <1>22 DEF RecoveryEnqueue, EnqueueJob
<1>23. CASE ProviderRuns
  BY <1>23 DEF ProviderRuns
<1>24. CASE ProviderEnds
  BY <1>24 DEF ProviderEnds, Unfinished
<1>25. CASE MoveDueDelayed
  BY <1>25 DEF MoveDueDelayed
<1>26. CASE RecoverActive
  BY <1>26 DEF RecoverActive
<1>27. CASE LockExpires
  BY <1>27 DEF LockExpires
<1>28. CASE Archive
  BY <1>28, ArchiveEffect DEF Archive, Terminal, Dead, SameClaims, RequestId, Captured
<1>29. CASE Crash
  BY <1>29 DEF Crash, Idle
<1>30. ASSUME NEW w \in Worker, WorkerStep(w) \/ LoseLease(w)
       PROVE  BillInv'
  <2>1. CASE WorkerReserve(w)
    BY <2>1 DEF WorkerReserve, Goto
  <2>2. CASE TryAcquireJobLock(w)
    BY <2>2 DEF TryAcquireJobLock, Goto
  <2>3. CASE PipelineRead(w)
    BY <2>3 DEF PipelineRead, Goto
  <2>4. CASE ProcessorLoad(w)
    BY <2>4 DEF ProcessorLoad, Dead, Goto
  <2>5. CASE ProviderGet(w)
    BY <2>5 DEF ProviderGet, Goto
  <2>6. CASE ProcessorTransition(w)
    BY <2>6 DEF ProcessorTransition, Transition, CanTransition, Allowed, Goto,
                Terminal, Dead
  <2>7. CASE Index(w)
    BY <2>7, CostIsOpen DEF Index, Goto
  <2>8. CASE ReleaseTerminalHold(w)
    BY <2>8, ReleaseEffect DEF ReleaseTerminalHold, ReleaseHold, Goto
  <2>9. CASE Settle(w)
    BY <2>9 DEF Settle, Goto
  <2>10. CASE CaptureHold(w)
    BY <2>10, CaptureEffect DEF CaptureHold, Goto
  <2>11. CASE MarkSettled(w)
    BY <2>11 DEF MarkSettled, Goto
  <2>12. CASE RecordSettlementFailure(w)
    BY <2>12 DEF RecordSettlementFailure, Goto
  <2>13. CASE ExhaustRelease(w)
    BY <2>13, ReleaseEffect DEF ExhaustRelease, ReleaseHold, Goto
  <2>14. CASE ExhaustFail(w)
    BY <2>14 DEF ExhaustFail, Transition, CanTransition, Allowed, Goto, Terminal, Dead
  <2>15. CASE ExhaustCheck(w)
    BY <2>15 DEF ExhaustCheck, Terminal, Dead, Goto
  <2>16. CASE FinishEntry(w)
    BY <2>16 DEF FinishEntry, Goto
  <2>17. CASE ReleaseJobLock(w)
    BY <2>17 DEF ReleaseJobLock, Idle
  <2>18. CASE LoseLease(w)
    BY <2>18 DEF LoseLease
  <2> QED
    BY <1>30, <2>1, <2>2, <2>3, <2>4, <2>5, <2>6, <2>7, <2>8, <2>9, <2>10, <2>11,
       <2>12, <2>13, <2>14, <2>15, <2>16, <2>17, <2>18 DEF WorkerStep
<1>31. CASE UNCHANGED vars
  BY <1>31
<1> QED
  BY <1>1, <1>2, <1>3, <1>4, <1>5, <1>6, <1>7, <1>8, <1>9, <1>10, <1>11, <1>12, <1>13,
     <1>14, <1>15, <1>16, <1>17, <1>18, <1>19, <1>20, <1>21, <1>22, <1>23, <1>24,
     <1>25, <1>26, <1>27, <1>28, <1>29, <1>30, <1>31
     DEF Next, SubmitStep, CancelStep, RecoveryStep, Environment

(* Every step keeps the order of the settlement.                             *)
LEMMA SettleStep ==
    ASSUME TypeOK, NameInv, BillInv, SettleInv, [Next]_vars
    PROVE  SettleInv'
<1> USE CostType, JobAssumption
    DEF TypeOK, NameInv, BillInv, SettleInv, BeforeName, Failing, Submitted,
        PastIndexing, SettleSteps, Status, SubmitLabel, WorkerLabel, ProviderState,
        row, upstream, redis, callers, workers, bounds, vars, NoFault, Fault, Call
<1>1. CASE CreateJob
  BY <1>1 DEF CreateJob
<1>2. CASE SubmitReserve
  BY <1>2, ReserveEffect DEF SubmitReserve, Captured
<1>3. CASE CreatePendingItems
  BY <1>3 DEF CreatePendingItems
<1>4. CASE SubmitUploading
  BY <1>4 DEF SubmitUploading, Transition, CanTransition, Allowed, Terminal, Dead
<1>5. CASE SubmitToProvider
  BY <1>5 DEF SubmitToProvider
<1>6. CASE UpdateProviderSubmit
  BY <1>6 DEF UpdateProviderSubmit, CanTransition, Allowed, Terminal, Dead
<1>7. CASE AbortOrphanProviderJob
  BY <1>7 DEF AbortOrphanProviderJob
<1>8. CASE SubmitEnqueue
  BY <1>8 DEF SubmitEnqueue, EnqueueJob
<1>9. CASE ReleaseFailedSubmitHold
  BY <1>9, ReleaseEffect DEF ReleaseFailedSubmitHold, ReleaseHold
<1>10. CASE RecordSubmitFailure
  BY <1>10 DEF RecordSubmitFailure
<1>11. CASE SubmitHeartbeat
  BY <1>11 DEF SubmitHeartbeat, Unsubmitted
<1>12. CASE Resubmit
  BY <1>12 DEF Resubmit
<1>13. CASE CancelRead
  BY <1>13 DEF CancelRead, Dead
<1>14. CASE CancelAtProvider
  BY <1>14 DEF CancelAtProvider
<1>15. CASE CancelTransition
  BY <1>15 DEF CancelTransition, Transition, CanTransition, Allowed, Terminal, Dead
<1>16. CASE CancelRelease
  BY <1>16, ReleaseEffect DEF CancelRelease, ReleaseHold
<1>17. CASE CancelEnqueue
  BY <1>17 DEF CancelEnqueue, EnqueueJob
<1>18. CASE GrowStale
  BY <1>18 DEF GrowStale, Unsubmitted
<1>19. CASE ListStaleUnsubmitted
  BY <1>19 DEF ListStaleUnsubmitted, StaleUnsubmitted, Unsubmitted
<1>20. CASE FailStaleUnsubmitted
  BY <1>20 DEF FailStaleUnsubmitted, StaleUnsubmitted, Unsubmitted
<1>21. CASE RecoveryRelease
  BY <1>21, ReleaseEffect DEF RecoveryRelease, ReleaseHold
<1>22. CASE RecoveryEnqueue
  BY <1>22 DEF RecoveryEnqueue, EnqueueJob
<1>23. CASE ProviderRuns
  BY <1>23 DEF ProviderRuns
<1>24. CASE ProviderEnds
  BY <1>24 DEF ProviderEnds, Unfinished
<1>25. CASE MoveDueDelayed
  BY <1>25 DEF MoveDueDelayed
<1>26. CASE RecoverActive
  BY <1>26 DEF RecoverActive
<1>27. CASE LockExpires
  BY <1>27 DEF LockExpires
<1>28. CASE Archive
  BY <1>28, ArchiveEffect DEF Archive, Terminal, Dead, SameClaims, RequestId, Captured
<1>29. CASE Crash
  BY <1>29 DEF Crash, Idle
<1>30. ASSUME NEW w \in Worker, WorkerStep(w) \/ LoseLease(w)
       PROVE  SettleInv'
  <2>1. CASE WorkerReserve(w)
    BY <2>1 DEF WorkerReserve, Goto
  <2>2. CASE TryAcquireJobLock(w)
    BY <2>2 DEF TryAcquireJobLock, Goto
  <2>3. CASE PipelineRead(w)
    BY <2>3 DEF PipelineRead, Goto
  <2>4. CASE ProcessorLoad(w)
    BY <2>4 DEF ProcessorLoad, Dead, Goto
  <2>5. CASE ProviderGet(w)
    BY <2>5 DEF ProviderGet, Goto
  <2>6. CASE ProcessorTransition(w)
    BY <2>6 DEF ProcessorTransition, Transition, CanTransition, Allowed, Goto,
                Terminal, Dead
  <2>7. CASE Index(w)
    BY <2>7 DEF Index, Goto
  <2>8. CASE ReleaseTerminalHold(w)
    BY <2>8, ReleaseEffect DEF ReleaseTerminalHold, ReleaseHold, Goto
  <2>9. CASE Settle(w)
    BY <2>9 DEF Settle, Goto
  <2>10. CASE CaptureHold(w)
    BY <2>10, CaptureEffect DEF CaptureHold, Goto
  <2>11. CASE MarkSettled(w)
    BY <2>11 DEF MarkSettled, Goto
  <2>12. CASE RecordSettlementFailure(w)
    BY <2>12 DEF RecordSettlementFailure, Goto
  <2>13. CASE ExhaustRelease(w)
    BY <2>13, ReleaseEffect DEF ExhaustRelease, ReleaseHold, Goto
  <2>14. CASE ExhaustFail(w)
    BY <2>14 DEF ExhaustFail, Transition, CanTransition, Allowed, Goto, Terminal, Dead
  <2>15. CASE ExhaustCheck(w)
    BY <2>15 DEF ExhaustCheck, Terminal, Dead, Goto
  <2>16. CASE FinishEntry(w)
    BY <2>16 DEF FinishEntry, Goto
  <2>17. CASE ReleaseJobLock(w)
    BY <2>17 DEF ReleaseJobLock, Idle
  <2>18. CASE LoseLease(w)
    BY <2>18 DEF LoseLease
  <2> QED
    BY <1>30, <2>1, <2>2, <2>3, <2>4, <2>5, <2>6, <2>7, <2>8, <2>9, <2>10, <2>11,
       <2>12, <2>13, <2>14, <2>15, <2>16, <2>17, <2>18 DEF WorkerStep
<1>31. CASE UNCHANGED vars
  BY <1>31
<1> QED
  BY <1>1, <1>2, <1>3, <1>4, <1>5, <1>6, <1>7, <1>8, <1>9, <1>10, <1>11, <1>12, <1>13,
     <1>14, <1>15, <1>16, <1>17, <1>18, <1>19, <1>20, <1>21, <1>22, <1>23, <1>24,
     <1>25, <1>26, <1>27, <1>28, <1>29, <1>30, <1>31
     DEF Next, SubmitStep, CancelStep, RecoveryStep, Environment

(* The hold goes back only on the ways ReturnInv names.                      *)
LEMMA ReturnStep ==
    ASSUME TypeOK, NameInv, DeadInv, BillInv, SettleInv, ReturnInv, [Next]_vars
    PROVE  ReturnInv'
<1> USE CostType
    DEF TypeOK, NameInv, DeadInv, BillInv, SettleInv, ReturnInv, BeforeName, Failing,
        Submitted, PastIndexing, SettleSteps, Dead, Unsubmitted, Status, SubmitLabel,
        row, upstream, redis, callers, workers, bounds, vars, NoFault, Fault, Call
<1>1. CASE CreateJob
  BY <1>1 DEF CreateJob
<1>2. CASE SubmitReserve
  BY <1>2, ReserveEffect DEF SubmitReserve, Captured
<1>3. CASE CreatePendingItems
  BY <1>3 DEF CreatePendingItems
<1>4. CASE SubmitUploading
  BY <1>4 DEF SubmitUploading, Transition, CanTransition, Allowed, Terminal
<1>5. CASE SubmitToProvider
  BY <1>5 DEF SubmitToProvider
<1>6. CASE UpdateProviderSubmit
  BY <1>6 DEF UpdateProviderSubmit, CanTransition, Allowed, Terminal
<1>7. CASE AbortOrphanProviderJob
  BY <1>7 DEF AbortOrphanProviderJob
<1>8. CASE SubmitEnqueue
  BY <1>8 DEF SubmitEnqueue, EnqueueJob
<1>9. CASE ReleaseFailedSubmitHold
  BY <1>9, ReleaseEffect DEF ReleaseFailedSubmitHold, ReleaseHold
<1>10. CASE RecordSubmitFailure
  BY <1>10 DEF RecordSubmitFailure
<1>11. CASE SubmitHeartbeat
  BY <1>11 DEF SubmitHeartbeat
<1>12. CASE Resubmit
  BY <1>12 DEF Resubmit
<1>13. CASE CancelRead
  BY <1>13 DEF CancelRead
<1>14. CASE CancelAtProvider
  BY <1>14 DEF CancelAtProvider
<1>15. CASE CancelTransition
  BY <1>15 DEF CancelTransition, Transition, CanTransition, Allowed, Terminal
<1>16. CASE CancelRelease
  BY <1>16, ReleaseEffect DEF CancelRelease, ReleaseHold
<1>17. CASE CancelEnqueue
  BY <1>17 DEF CancelEnqueue, EnqueueJob
<1>18. CASE GrowStale
  BY <1>18 DEF GrowStale
<1>19. CASE ListStaleUnsubmitted
  BY <1>19 DEF ListStaleUnsubmitted, StaleUnsubmitted
<1>20. CASE FailStaleUnsubmitted
  BY <1>20 DEF FailStaleUnsubmitted, StaleUnsubmitted
<1>21. CASE RecoveryRelease
  BY <1>21, ReleaseEffect DEF RecoveryRelease, ReleaseHold
<1>22. CASE RecoveryEnqueue
  BY <1>22 DEF RecoveryEnqueue, EnqueueJob
<1>23. CASE ProviderRuns
  BY <1>23 DEF ProviderRuns
<1>24. CASE ProviderEnds
  BY <1>24 DEF ProviderEnds, Unfinished
<1>25. CASE MoveDueDelayed
  BY <1>25 DEF MoveDueDelayed
<1>26. CASE RecoverActive
  BY <1>26 DEF RecoverActive
<1>27. CASE LockExpires
  BY <1>27 DEF LockExpires
<1>28. CASE Archive
  BY <1>28, ArchiveEffect DEF Archive, Terminal, SameClaims, RequestId, Captured
<1>29. CASE Crash
  BY <1>29 DEF Crash, Idle
<1>30. ASSUME NEW w \in Worker, WorkerStep(w) \/ LoseLease(w)
       PROVE  ReturnInv'
  <2>1. CASE WorkerReserve(w)
    BY <2>1 DEF WorkerReserve, Goto
  <2>2. CASE TryAcquireJobLock(w)
    BY <2>2 DEF TryAcquireJobLock, Goto
  <2>3. CASE PipelineRead(w)
    BY <2>3 DEF PipelineRead, Goto
  <2>4. CASE ProcessorLoad(w)
    BY <2>4 DEF ProcessorLoad, Goto
  <2>5. CASE ProviderGet(w)
    BY <2>5 DEF ProviderGet, Goto
  <2>6. CASE ProcessorTransition(w)
    BY <2>6 DEF ProcessorTransition, Transition, CanTransition, Allowed, Goto, Terminal
  <2>7. CASE Index(w)
    BY <2>7 DEF Index, Goto
  <2>8. CASE ReleaseTerminalHold(w)
    BY <2>8, ReleaseEffect DEF ReleaseTerminalHold, ReleaseHold, Goto
  <2>9. CASE Settle(w)
    BY <2>9 DEF Settle, Goto
  <2>10. CASE CaptureHold(w)
    BY <2>10, CaptureEffect DEF CaptureHold, Goto
  <2>11. CASE MarkSettled(w)
    BY <2>11 DEF MarkSettled, Goto
  <2>12. CASE RecordSettlementFailure(w)
    BY <2>12 DEF RecordSettlementFailure, Goto
  <2>13. CASE ExhaustRelease(w)
    BY <2>13, ReleaseEffect DEF ExhaustRelease, ReleaseHold, Goto
  <2>14. CASE ExhaustFail(w)
    BY <2>14 DEF ExhaustFail, Transition, CanTransition, Allowed, Goto, Terminal
  <2>15. CASE ExhaustCheck(w)
    BY <2>15 DEF ExhaustCheck, Terminal, Goto
  <2>16. CASE FinishEntry(w)
    BY <2>16 DEF FinishEntry, Goto
  <2>17. CASE ReleaseJobLock(w)
    BY <2>17 DEF ReleaseJobLock, Idle
  <2>18. CASE LoseLease(w)
    BY <2>18 DEF LoseLease
  <2> QED
    BY <1>30, <2>1, <2>2, <2>3, <2>4, <2>5, <2>6, <2>7, <2>8, <2>9, <2>10, <2>11,
       <2>12, <2>13, <2>14, <2>15, <2>16, <2>17, <2>18 DEF WorkerStep
<1>31. CASE UNCHANGED vars
  BY <1>31
<1> QED
  BY <1>1, <1>2, <1>3, <1>4, <1>5, <1>6, <1>7, <1>8, <1>9, <1>10, <1>11, <1>12, <1>13,
     <1>14, <1>15, <1>16, <1>17, <1>18, <1>19, <1>20, <1>21, <1>22, <1>23, <1>24,
     <1>25, <1>26, <1>27, <1>28, <1>29, <1>30, <1>31
     DEF Next, SubmitStep, CancelStep, RecoveryStep, Environment

(* The job lock excludes as long as every lease is kept.                     *)
LEMMA ExclusionStep ==
    ASSUME TypeOK, NameInv, ExclusionInv, [Next]_vars
    PROVE  ExclusionInv'
<1> USE JobAssumption
    DEF TypeOK, NameInv, ExclusionInv, BeforeName, Failing, Submitted, Holding,
        SettleSteps, ProviderSteps, Status, ProviderState, WorkerLabel, row, upstream,
        redis, callers, workers, bounds, vars, NoFault, Fault, Call
<1>1. CASE CreateJob
  BY <1>1 DEF CreateJob
<1>2. CASE SubmitReserve
  BY <1>2 DEF SubmitReserve
<1>3. CASE CreatePendingItems
  BY <1>3 DEF CreatePendingItems
<1>4. CASE SubmitUploading
  BY <1>4 DEF SubmitUploading, Transition, CanTransition, Allowed, Terminal, Dead
<1>5. CASE SubmitToProvider
  BY <1>5 DEF SubmitToProvider
<1>6. CASE UpdateProviderSubmit
  BY <1>6 DEF UpdateProviderSubmit, CanTransition, Allowed, Terminal, Dead
<1>7. CASE AbortOrphanProviderJob
  BY <1>7 DEF AbortOrphanProviderJob
<1>8. CASE SubmitEnqueue
  BY <1>8 DEF SubmitEnqueue, EnqueueJob
<1>9. CASE ReleaseFailedSubmitHold
  BY <1>9 DEF ReleaseFailedSubmitHold, ReleaseHold
<1>10. CASE RecordSubmitFailure
  BY <1>10 DEF RecordSubmitFailure
<1>11. CASE SubmitHeartbeat
  BY <1>11 DEF SubmitHeartbeat, Unsubmitted
<1>12. CASE Resubmit
  BY <1>12 DEF Resubmit
<1>13. CASE CancelRead
  BY <1>13 DEF CancelRead, Dead
<1>14. CASE CancelAtProvider
  BY <1>14 DEF CancelAtProvider
<1>15. CASE CancelTransition
  BY <1>15 DEF CancelTransition, Transition, CanTransition, Allowed, Terminal, Dead
<1>16. CASE CancelRelease
  BY <1>16 DEF CancelRelease, ReleaseHold
<1>17. CASE CancelEnqueue
  BY <1>17 DEF CancelEnqueue, EnqueueJob
<1>18. CASE GrowStale
  BY <1>18 DEF GrowStale, Unsubmitted
<1>19. CASE ListStaleUnsubmitted
  BY <1>19 DEF ListStaleUnsubmitted, StaleUnsubmitted, Unsubmitted
<1>20. CASE FailStaleUnsubmitted
  BY <1>20 DEF FailStaleUnsubmitted, StaleUnsubmitted, Unsubmitted
<1>21. CASE RecoveryRelease
  BY <1>21 DEF RecoveryRelease, ReleaseHold
<1>22. CASE RecoveryEnqueue
  BY <1>22 DEF RecoveryEnqueue, EnqueueJob
<1>23. CASE ProviderRuns
  BY <1>23 DEF ProviderRuns
<1>24. CASE ProviderEnds
  BY <1>24 DEF ProviderEnds, Unfinished
<1>25. CASE MoveDueDelayed
  BY <1>25 DEF MoveDueDelayed
<1>26. CASE RecoverActive
  BY <1>26 DEF RecoverActive
<1>27. CASE LockExpires
  BY <1>27 DEF LockExpires
<1>28. CASE Archive
  BY <1>28 DEF Archive, Terminal, Dead
<1>29. CASE Crash
  BY <1>29 DEF Crash, Idle
<1>30. ASSUME NEW w \in Worker, WorkerStep(w) \/ LoseLease(w)
       PROVE  ExclusionInv'
  <2>1. CASE WorkerReserve(w)
    BY <2>1 DEF WorkerReserve, Goto
  <2>2. CASE TryAcquireJobLock(w)
    BY <2>2 DEF TryAcquireJobLock, Goto
  <2>3. CASE PipelineRead(w)
    BY <2>3 DEF PipelineRead, Goto
  <2>4. CASE ProcessorLoad(w)
    BY <2>4 DEF ProcessorLoad, Dead, Goto
  <2>5. CASE ProviderGet(w)
    BY <2>5 DEF ProviderGet, Goto
  <2>6. CASE ProcessorTransition(w)
    BY <2>6 DEF ProcessorTransition, Transition, CanTransition, Allowed, Goto,
                Terminal, Dead
  <2>7. CASE Index(w)
    BY <2>7 DEF Index, Goto
  <2>8. CASE ReleaseTerminalHold(w)
    BY <2>8 DEF ReleaseTerminalHold, ReleaseHold, Goto
  <2>9. CASE Settle(w)
    BY <2>9 DEF Settle, Goto
  <2>10. CASE CaptureHold(w)
    BY <2>10 DEF CaptureHold, Goto
  <2>11. CASE MarkSettled(w)
    BY <2>11 DEF MarkSettled, Goto
  <2>12. CASE RecordSettlementFailure(w)
    BY <2>12 DEF RecordSettlementFailure, Goto
  <2>13. CASE ExhaustRelease(w)
    BY <2>13 DEF ExhaustRelease, ReleaseHold, Goto
  <2>14. CASE ExhaustFail(w)
    BY <2>14 DEF ExhaustFail, Transition, CanTransition, Allowed, Goto, Terminal, Dead
  <2>15. CASE ExhaustCheck(w)
    BY <2>15 DEF ExhaustCheck, Terminal, Dead, Goto
  <2>16. CASE FinishEntry(w)
    BY <2>16 DEF FinishEntry, Goto
  <2>17. CASE ReleaseJobLock(w)
    BY <2>17 DEF ReleaseJobLock, Idle
  <2>18. CASE LoseLease(w)
    BY <2>18 DEF LoseLease
  <2> QED
    BY <1>30, <2>1, <2>2, <2>3, <2>4, <2>5, <2>6, <2>7, <2>8, <2>9, <2>10, <2>11,
       <2>12, <2>13, <2>14, <2>15, <2>16, <2>17, <2>18 DEF WorkerStep
<1>31. CASE UNCHANGED vars
  BY <1>31
<1> QED
  BY <1>1, <1>2, <1>3, <1>4, <1>5, <1>6, <1>7, <1>8, <1>9, <1>10, <1>11, <1>12, <1>13,
     <1>14, <1>15, <1>16, <1>17, <1>18, <1>19, <1>20, <1>21, <1>22, <1>23, <1>24,
     <1>25, <1>26, <1>27, <1>28, <1>29, <1>30, <1>31
     DEF Next, SubmitStep, CancelStep, RecoveryStep, Environment

(* In an orderly system failures of a settlement are faults.                 *)
LEMMA RetryStep ==
    ASSUME IInv, [Next]_vars
    PROVE  RetryInv'
<1> USE CostType, HoldAssumption, JobAssumption
    DEF IInv, TypeOK, NameInv, BillInv, SettleInv, ExclusionInv, RetryInv, MoneyInv,
        Orderly, PastIndexing, SettleSteps, Status, ProviderState, WorkerLabel, row,
        upstream, redis, callers, workers, bounds, vars, NoFault, Fault, Call
<1>1. CASE CreateJob
  BY <1>1 DEF CreateJob
<1>2. CASE SubmitReserve
  BY <1>2 DEF SubmitReserve
<1>3. CASE CreatePendingItems
  BY <1>3 DEF CreatePendingItems
<1>4. CASE SubmitUploading
  BY <1>4 DEF SubmitUploading, Transition, CanTransition, Allowed, Terminal, Dead
<1>5. CASE SubmitToProvider
  BY <1>5 DEF SubmitToProvider
<1>6. CASE UpdateProviderSubmit
  BY <1>6 DEF UpdateProviderSubmit, CanTransition, Allowed, Terminal, Dead
<1>7. CASE AbortOrphanProviderJob
  BY <1>7 DEF AbortOrphanProviderJob
<1>8. CASE SubmitEnqueue
  BY <1>8 DEF SubmitEnqueue, EnqueueJob
<1>9. CASE ReleaseFailedSubmitHold
  BY <1>9 DEF ReleaseFailedSubmitHold, ReleaseHold
<1>10. CASE RecordSubmitFailure
  BY <1>10 DEF RecordSubmitFailure
<1>11. CASE SubmitHeartbeat
  BY <1>11 DEF SubmitHeartbeat, Unsubmitted
<1>12. CASE Resubmit
  BY <1>12 DEF Resubmit
<1>13. CASE CancelRead
  BY <1>13 DEF CancelRead, Dead
<1>14. CASE CancelAtProvider
  <2>1. outlived' = outlived /\ trouble' \in Nat /\ trouble' >= trouble
    <3>1. NoFault \/ Fault
      BY <1>14 DEF CancelAtProvider
    <3> QED
      BY <3>1
  <2>2. UNCHANGED <<row, bill, redis, provider, output, sub, rec, workers>>
    BY <1>14 DEF CancelAtProvider
  <2> QED
    BY <2>1, <2>2
<1>15. CASE CancelTransition
  BY <1>15 DEF CancelTransition, Transition, CanTransition, Allowed, Terminal, Dead
<1>16. CASE CancelRelease
  BY <1>16 DEF CancelRelease, ReleaseHold
<1>17. CASE CancelEnqueue
  BY <1>17 DEF CancelEnqueue, EnqueueJob
<1>18. CASE GrowStale
  BY <1>18 DEF GrowStale, Unsubmitted
<1>19. CASE ListStaleUnsubmitted
  BY <1>19 DEF ListStaleUnsubmitted, StaleUnsubmitted, Unsubmitted
<1>20. CASE FailStaleUnsubmitted
  BY <1>20 DEF FailStaleUnsubmitted, StaleUnsubmitted, Unsubmitted
<1>21. CASE RecoveryRelease
  BY <1>21 DEF RecoveryRelease, ReleaseHold
<1>22. CASE RecoveryEnqueue
  BY <1>22 DEF RecoveryEnqueue, EnqueueJob
<1>23. CASE ProviderRuns
  BY <1>23 DEF ProviderRuns
<1>24. CASE ProviderEnds
  BY <1>24 DEF ProviderEnds, Unfinished
<1>25. CASE MoveDueDelayed
  BY <1>25 DEF MoveDueDelayed
<1>26. CASE RecoverActive
  BY <1>26 DEF RecoverActive
<1>27. CASE LockExpires
  BY <1>27 DEF LockExpires
<1>28. CASE Archive
  BY <1>28 DEF Archive, Terminal, Dead
<1>29. CASE Crash
  BY <1>29 DEF Crash, Idle
<1>30. ASSUME NEW w \in Worker, WorkerStep(w) \/ LoseLease(w)
       PROVE  RetryInv'
  <2>1. CASE WorkerReserve(w)
    BY <2>1 DEF WorkerReserve, Goto
  <2>2. CASE TryAcquireJobLock(w)
    BY <2>2 DEF TryAcquireJobLock, Goto
  <2>3. CASE PipelineRead(w)
    BY <2>3 DEF PipelineRead, Goto
  <2>4. CASE ProcessorLoad(w)
    BY <2>4 DEF ProcessorLoad, Dead, Goto
  <2>5. CASE ProviderGet(w)
    BY <2>5 DEF ProviderGet, Goto
  <2>6. CASE ProcessorTransition(w)
    BY <2>6 DEF ProcessorTransition, Transition, CanTransition, Allowed, Goto,
                Terminal, Dead
  <2>7. CASE Index(w)
    BY <2>7 DEF Index, Goto
  <2>8. CASE ReleaseTerminalHold(w)
    BY <2>8 DEF ReleaseTerminalHold, ReleaseHold, Goto
  <2>9. CASE Settle(w)
    <3>1. cost <= Hold => pc'[w] # "record"
      BY <2>9 DEF Settle, Goto
    <3> QED
      BY <2>9, <3>1 DEF Settle, Goto
  <2>10. CASE CaptureHold(w)
    <3>1. Claimed(bill, "hold") /\ (~outlived => status = "settling")
      BY <2>10 DEF CaptureHold
    <3>2. ASSUME Orderly, cost <= Hold
          PROVE  CaptureOK(bill, cost)
      BY <3>1, <3>2, HoldIsFrozen DEF CaptureOK, Captured
    <3>3. CASE NoFault
      BY <2>10, <3>2, <3>3 DEF CaptureHold, Goto
    <3>4. CASE Fault
      BY <2>10, <3>4 DEF CaptureHold, Goto
    <3> QED
      BY <2>10, <3>3, <3>4 DEF CaptureHold
  <2>11. CASE MarkSettled(w)
    BY <2>11 DEF MarkSettled, Goto
  <2>12. CASE RecordSettlementFailure(w)
    <3> SUFFICES ASSUME Orderly', cost' <= Hold
                 PROVE  retry' <= trouble' /\ \A v \in Worker : pc'[v] = "record" => retry' < trouble'
      OBVIOUS
    <3>1. Orderly /\ cost <= Hold
      BY <2>12 DEF RecordSettlementFailure
    <3>2. pc[w] = "record" /\ retry < trouble
      BY <2>12, <3>1 DEF RecordSettlementFailure
    <3>3. \A v \in Worker : pc'[v] # "record"
      BY <2>12, <3>1, <3>2 DEF RecordSettlementFailure, Goto, Holding
    <3>4. retry' <= trouble'
      BY <2>12, <3>2 DEF RecordSettlementFailure
    <3> QED
      BY <3>3, <3>4
  <2>13. CASE ExhaustRelease(w)
    BY <2>13 DEF ExhaustRelease, ReleaseHold, Goto
  <2>14. CASE ExhaustFail(w)
    BY <2>14 DEF ExhaustFail, Transition, CanTransition, Allowed, Goto, Terminal, Dead
  <2>15. CASE ExhaustCheck(w)
    BY <2>15 DEF ExhaustCheck, Terminal, Dead, Goto
  <2>16. CASE FinishEntry(w)
    BY <2>16 DEF FinishEntry, Goto
  <2>17. CASE ReleaseJobLock(w)
    BY <2>17 DEF ReleaseJobLock, Idle
  <2>18. CASE LoseLease(w)
    BY <2>18 DEF LoseLease
  <2> QED
    BY <1>30, <2>1, <2>2, <2>3, <2>4, <2>5, <2>6, <2>7, <2>8, <2>9, <2>10, <2>11,
       <2>12, <2>13, <2>14, <2>15, <2>16, <2>17, <2>18 DEF WorkerStep
<1>31. CASE UNCHANGED vars
  BY <1>31
<1> QED
  BY <1>1, <1>2, <1>3, <1>4, <1>5, <1>6, <1>7, <1>8, <1>9, <1>10, <1>11, <1>12, <1>13,
     <1>14, <1>15, <1>16, <1>17, <1>18, <1>19, <1>20, <1>21, <1>22, <1>23, <1>24,
     <1>25, <1>26, <1>27, <1>28, <1>29, <1>30, <1>31
     DEF Next, SubmitStep, CancelStep, RecoveryStep, Environment

(* In an orderly system the hold is captured or goes back, not both.         *)
LEMMA MoneyStep ==
    ASSUME IInv, [Next]_vars
    PROVE  MoneyInv'
<1> USE CostType, HoldAssumption, JobAssumption
    DEF IInv, TypeOK, NameInv, DeadInv, BillInv, SettleInv, ReturnInv, ExclusionInv,
        RetryInv, MoneyInv, Orderly, BeforeName, Failing, Submitted, PastIndexing,
        SettleSteps, ProviderSteps, Status, Dead, Unsubmitted, row, upstream, redis,
        callers, workers, bounds, vars, NoFault, Fault, Call
<1>1. CASE CreateJob
  BY <1>1 DEF CreateJob
<1>2. CASE SubmitReserve
  BY <1>2, ReserveEffect DEF SubmitReserve, Captured
<1>3. CASE CreatePendingItems
  BY <1>3 DEF CreatePendingItems
<1>4. CASE SubmitUploading
  BY <1>4 DEF SubmitUploading, Transition, CanTransition, Allowed, Terminal
<1>5. CASE SubmitToProvider
  BY <1>5 DEF SubmitToProvider
<1>6. CASE UpdateProviderSubmit
  BY <1>6 DEF UpdateProviderSubmit, CanTransition, Allowed, Terminal
<1>7. CASE AbortOrphanProviderJob
  BY <1>7 DEF AbortOrphanProviderJob
<1>8. CASE SubmitEnqueue
  BY <1>8 DEF SubmitEnqueue, EnqueueJob
<1>9. CASE ReleaseFailedSubmitHold
  BY <1>9, ReleaseEffect DEF ReleaseFailedSubmitHold, ReleaseHold
<1>10. CASE RecordSubmitFailure
  BY <1>10 DEF RecordSubmitFailure
<1>11. CASE SubmitHeartbeat
  BY <1>11 DEF SubmitHeartbeat
<1>12. CASE Resubmit
  BY <1>12 DEF Resubmit
<1>13. CASE CancelRead
  BY <1>13 DEF CancelRead
<1>14. CASE CancelAtProvider
  <2>1. outlived' = outlived /\ trouble' \in Nat /\ trouble' >= trouble
    <3>1. NoFault \/ Fault
      BY <1>14 DEF CancelAtProvider
    <3> QED
      BY <3>1
  <2>2. UNCHANGED <<row, bill, redis, provider, output, sub, rec, workers>>
    BY <1>14 DEF CancelAtProvider
  <2> QED
    BY <2>1, <2>2
<1>15. CASE CancelTransition
  BY <1>15 DEF CancelTransition, Transition, CanTransition, Allowed, Terminal
<1>16. CASE CancelRelease
  BY <1>16, ReleaseEffect DEF CancelRelease, ReleaseHold
<1>17. CASE CancelEnqueue
  BY <1>17 DEF CancelEnqueue, EnqueueJob
<1>18. CASE GrowStale
  BY <1>18 DEF GrowStale
<1>19. CASE ListStaleUnsubmitted
  BY <1>19 DEF ListStaleUnsubmitted, StaleUnsubmitted
<1>20. CASE FailStaleUnsubmitted
  BY <1>20 DEF FailStaleUnsubmitted, StaleUnsubmitted
<1>21. CASE RecoveryRelease
  BY <1>21, ReleaseEffect DEF RecoveryRelease, ReleaseHold
<1>22. CASE RecoveryEnqueue
  BY <1>22 DEF RecoveryEnqueue, EnqueueJob
<1>23. CASE ProviderRuns
  BY <1>23 DEF ProviderRuns
<1>24. CASE ProviderEnds
  BY <1>24 DEF ProviderEnds, Unfinished
<1>25. CASE MoveDueDelayed
  BY <1>25 DEF MoveDueDelayed
<1>26. CASE RecoverActive
  BY <1>26 DEF RecoverActive
<1>27. CASE LockExpires
  BY <1>27 DEF LockExpires
<1>28. CASE Archive
  BY <1>28, ArchiveEffect DEF Archive, Terminal, SameClaims, RequestId, Captured
<1>29. CASE Crash
  BY <1>29 DEF Crash, Idle
<1>30. ASSUME NEW w \in Worker, WorkerStep(w) \/ LoseLease(w)
       PROVE  MoneyInv'
  <2>1. CASE WorkerReserve(w)
    BY <2>1 DEF WorkerReserve, Goto
  <2>2. CASE TryAcquireJobLock(w)
    BY <2>2 DEF TryAcquireJobLock, Goto
  <2>3. CASE PipelineRead(w)
    BY <2>3 DEF PipelineRead, Goto
  <2>4. CASE ProcessorLoad(w)
    BY <2>4 DEF ProcessorLoad, Goto
  <2>5. CASE ProviderGet(w)
    BY <2>5 DEF ProviderGet, Goto
  <2>6. CASE ProcessorTransition(w)
    BY <2>6 DEF ProcessorTransition, Transition, CanTransition, Allowed, Goto, Terminal
  <2>7. CASE Index(w)
    BY <2>7 DEF Index, Goto
  <2>8. CASE ReleaseTerminalHold(w)
    BY <2>8, ReleaseEffect DEF ReleaseTerminalHold, ReleaseHold, Goto
  <2>9. CASE Settle(w)
    BY <2>9 DEF Settle, Goto
  <2>10. CASE CaptureHold(w)
    BY <2>10, CaptureEffect DEF CaptureHold, Goto
  <2>11. CASE MarkSettled(w)
    BY <2>11 DEF MarkSettled, Goto
  <2>12. CASE RecordSettlementFailure(w)
    BY <2>12 DEF RecordSettlementFailure, Goto
  <2>13. CASE ExhaustRelease(w)
    <3>1. retry >= MaxRetries /\ UNCHANGED row
      BY <2>13 DEF ExhaustRelease
    <3>2. Orderly' => Orderly
      BY <2>13 DEF ExhaustRelease, ReleaseHold
    <3>3. Orderly => cost > Hold
      BY <3>1
    <3>4. Captured(bill') <=> Captured(bill)
      BY <2>13, ReleaseEffect DEF ExhaustRelease, ReleaseHold
    <3> QED
      BY <3>1, <3>2, <3>3, <3>4
  <2>14. CASE ExhaustFail(w)
    BY <2>14 DEF ExhaustFail, Transition, CanTransition, Allowed, Goto, Terminal
  <2>15. CASE ExhaustCheck(w)
    BY <2>15 DEF ExhaustCheck, Terminal, Goto
  <2>16. CASE FinishEntry(w)
    BY <2>16 DEF FinishEntry, Goto
  <2>17. CASE ReleaseJobLock(w)
    BY <2>17 DEF ReleaseJobLock, Idle
  <2>18. CASE LoseLease(w)
    BY <2>18 DEF LoseLease
  <2> QED
    BY <1>30, <2>1, <2>2, <2>3, <2>4, <2>5, <2>6, <2>7, <2>8, <2>9, <2>10, <2>11,
       <2>12, <2>13, <2>14, <2>15, <2>16, <2>17, <2>18 DEF WorkerStep
<1>31. CASE UNCHANGED vars
  BY <1>31
<1> QED
  BY <1>1, <1>2, <1>3, <1>4, <1>5, <1>6, <1>7, <1>8, <1>9, <1>10, <1>11, <1>12, <1>13,
     <1>14, <1>15, <1>16, <1>17, <1>18, <1>19, <1>20, <1>21, <1>22, <1>23, <1>24,
     <1>25, <1>26, <1>27, <1>28, <1>29, <1>30, <1>31
     DEF Next, SubmitStep, CancelStep, RecoveryStep, Environment

-----------------------------------------------------------------------------
(* What a step does to the contract of PrepaidBatch: it leaves the price     *)
(* where it is, or moves it along one of the contract's ways.                *)
Kept ==
    /\ Claimed(bill', "hold") <=> Claimed(bill, "hold")
    /\ Captured(bill') <=> Captured(bill)
    /\ bill'.returned = bill.returned
Delivers == Kept /\ Captured(bill) /\ status # "completed" /\ status' = "completed"
SameDelivery == status = "completed" <=> status' = "completed"
Reserves ==
    /\ ~Claimed(bill, "hold") /\ Claimed(bill', "hold")
    /\ ~Captured(bill) /\ ~Captured(bill') /\ ~bill.returned /\ ~bill'.returned
Captures ==
    /\ Claimed(bill, "hold") /\ Claimed(bill', "hold")
    /\ ~Captured(bill) /\ Captured(bill')
    /\ bill'.returned = bill.returned /\ (bill.returned => ~Orderly)
Returns ==
    /\ Claimed(bill, "hold") /\ Claimed(bill', "hold")
    /\ Captured(bill') <=> Captured(bill)
    /\ ~bill.returned /\ bill'.returned /\ (Captured(bill) => ~Orderly)

ContractMove ==
    /\ Orderly' => Orderly
    /\ \/ Delivers
       \/ SameDelivery /\ (Kept \/ Reserves \/ Captures \/ Returns)

(* A release that does not meet a capture is a move of the contract.         *)
LEMMA ReleaseMove ==
    ASSUME IInv, bill' \in {bill, Release(bill)}, UNCHANGED status, Orderly' => Orderly,
           Captured(bill) => ~Orderly
    PROVE  ContractMove
<1>1. CASE bill' = bill
  BY <1>1 DEF ContractMove, SameDelivery, Kept
<1>2. CASE bill' = Release(bill)
  <2>1. /\ bill \in Ledger /\ cost \in Nat /\ Balanced(bill, cost)
        /\ bill.returned => Claimed(bill, "hold") /\ Claimed(bill, "release")
    BY CostType DEF IInv, TypeOK, BillInv
  <2>2. /\ bill' \in Ledger
        /\ Claimed(bill', "hold") <=> Claimed(bill, "hold")
        /\ Captured(bill') <=> Captured(bill)
        /\ bill'.returned => Claimed(bill, "hold")
        /\ bill.returned => bill'.returned
    BY <1>2, <2>1, ReleaseEffect
  <2>3. CASE bill.returned
    BY <2>1, <2>2, <2>3 DEF ContractMove, SameDelivery, Kept, Ledger
  <2>4. CASE ~bill.returned /\ ~bill'.returned
    BY <2>1, <2>2, <2>4 DEF ContractMove, SameDelivery, Kept, Ledger
  <2>5. CASE ~bill.returned /\ bill'.returned
    BY <2>2, <2>5 DEF ContractMove, SameDelivery, Returns
  <2> QED
    BY <2>3, <2>4, <2>5
<1> QED
  BY <1>1, <1>2

(* Every step is a move of the contract.                                     *)
LEMMA ContractStep ==
    ASSUME IInv, [Next]_vars
    PROVE  ContractMove
<1> USE CostType, JobAssumption, HoldAssumption
    DEF ContractMove, Kept, Delivers, SameDelivery, Reserves, Captures, Returns, IInv,
        TypeOK, NameInv, DeadInv, BillInv, SettleInv, ExclusionInv, RetryInv, MoneyInv,
        Orderly, BeforeName, Failing, Submitted, SettleSteps, Status, Dead, row,
        upstream, redis, callers, workers, bounds, vars, NoFault, Fault, Call
<1>1. CASE CreateJob
  BY <1>1 DEF CreateJob
<1>2. CASE SubmitReserve
  BY <1>2, ReserveEffect DEF SubmitReserve, Captured
<1>3. CASE CreatePendingItems
  BY <1>3 DEF CreatePendingItems
<1>4. CASE SubmitUploading
  BY <1>4 DEF SubmitUploading, Transition, CanTransition, Allowed, Terminal
<1>5. CASE SubmitToProvider
  BY <1>5 DEF SubmitToProvider
<1>6. CASE UpdateProviderSubmit
  BY <1>6 DEF UpdateProviderSubmit, CanTransition, Allowed, Terminal
<1>7. CASE AbortOrphanProviderJob
  BY <1>7 DEF AbortOrphanProviderJob
<1>8. CASE SubmitEnqueue
  BY <1>8 DEF SubmitEnqueue, EnqueueJob
<1>9. CASE ReleaseFailedSubmitHold
  <2>1. bill' \in {bill, Release(bill)} /\ UNCHANGED row
    BY <1>9 DEF ReleaseFailedSubmitHold, ReleaseHold
  <2>2. Orderly' => Orderly
    BY <1>9 DEF ReleaseFailedSubmitHold, ReleaseHold
  <2>3. Captured(bill) => ~Orderly
    BY <1>9 DEF ReleaseFailedSubmitHold
  <2> QED
    BY <2>1, <2>2, <2>3, ReleaseMove
<1>10. CASE RecordSubmitFailure
  BY <1>10 DEF RecordSubmitFailure
<1>11. CASE SubmitHeartbeat
  BY <1>11 DEF SubmitHeartbeat, Unsubmitted
<1>12. CASE Resubmit
  BY <1>12 DEF Resubmit
<1>13. CASE CancelRead
  BY <1>13 DEF CancelRead
<1>14. CASE CancelAtProvider
  <2>1. outlived' = outlived /\ trouble' \in Nat /\ trouble' >= trouble
    <3>1. NoFault \/ Fault
      BY <1>14 DEF CancelAtProvider
    <3> QED
      BY <3>1
  <2>2. UNCHANGED <<row, bill, redis, provider, output, sub, rec, workers>>
    BY <1>14 DEF CancelAtProvider
  <2>3. Orderly' => Orderly
    BY <2>1
  <2> QED
    BY <2>3, <2>1, <2>2
<1>15. CASE CancelTransition
  BY <1>15 DEF CancelTransition, Transition, CanTransition, Allowed, Terminal
<1>16. CASE CancelRelease
  <2>1. bill' \in {bill, Release(bill)} /\ UNCHANGED row
    BY <1>16 DEF CancelRelease, ReleaseHold
  <2>2. Orderly' => Orderly
    BY <1>16 DEF CancelRelease, ReleaseHold
  <2>3. Captured(bill) => ~Orderly
    BY <1>16 DEF CancelRelease
  <2> QED
    BY <2>1, <2>2, <2>3, ReleaseMove
<1>17. CASE CancelEnqueue
  BY <1>17 DEF CancelEnqueue, EnqueueJob
<1>18. CASE GrowStale
  BY <1>18 DEF GrowStale, Unsubmitted
<1>19. CASE ListStaleUnsubmitted
  BY <1>19 DEF ListStaleUnsubmitted, StaleUnsubmitted, Unsubmitted
<1>20. CASE FailStaleUnsubmitted
  BY <1>20 DEF FailStaleUnsubmitted, StaleUnsubmitted, Unsubmitted
<1>21. CASE RecoveryRelease
  <2>1. bill' \in {bill, Release(bill)} /\ UNCHANGED row
    BY <1>21 DEF RecoveryRelease, ReleaseHold
  <2>2. Orderly' => Orderly
    BY <1>21 DEF RecoveryRelease, ReleaseHold
  <2>3. Captured(bill) => ~Orderly
    BY <1>21 DEF RecoveryRelease
  <2> QED
    BY <2>1, <2>2, <2>3, ReleaseMove
<1>22. CASE RecoveryEnqueue
  BY <1>22 DEF RecoveryEnqueue, EnqueueJob
<1>23. CASE ProviderRuns
  BY <1>23 DEF ProviderRuns
<1>24. CASE ProviderEnds
  BY <1>24 DEF ProviderEnds, Unfinished
<1>25. CASE MoveDueDelayed
  BY <1>25 DEF MoveDueDelayed
<1>26. CASE RecoverActive
  BY <1>26 DEF RecoverActive
<1>27. CASE LockExpires
  BY <1>27 DEF LockExpires
<1>28. CASE Archive
  BY <1>28, ArchiveEffect DEF Archive, Terminal, SameClaims, RequestId, Captured
<1>29. CASE Crash
  BY <1>29 DEF Crash, Idle
<1>30. ASSUME NEW w \in Worker, WorkerStep(w) \/ LoseLease(w)
       PROVE  ContractMove
  <2>1. CASE WorkerReserve(w)
    BY <2>1 DEF WorkerReserve, Goto
  <2>2. CASE TryAcquireJobLock(w)
    BY <2>2 DEF TryAcquireJobLock, Goto
  <2>3. CASE PipelineRead(w)
    BY <2>3 DEF PipelineRead, Goto
  <2>4. CASE ProcessorLoad(w)
    BY <2>4 DEF ProcessorLoad, Goto
  <2>5. CASE ProviderGet(w)
    BY <2>5 DEF ProviderGet, Goto
  <2>6. CASE ProcessorTransition(w)
    BY <2>6 DEF ProcessorTransition, Transition, CanTransition, Allowed, Goto, Terminal
  <2>7. CASE Index(w)
    BY <2>7 DEF Index, Goto
  <2>8. CASE ReleaseTerminalHold(w)
    <3>1. bill' \in {bill, Release(bill)} /\ UNCHANGED row
      BY <2>8 DEF ReleaseTerminalHold, ReleaseHold
    <3>2. Orderly' => Orderly
      BY <2>8 DEF ReleaseTerminalHold, ReleaseHold
    <3>3. Captured(bill) => ~Orderly
      BY <2>8 DEF ReleaseTerminalHold
    <3> QED
      BY <3>1, <3>2, <3>3, ReleaseMove
  <2>9. CASE Settle(w)
    BY <2>9 DEF Settle, Goto
  <2>10. CASE CaptureHold(w)
    BY <2>10, CaptureEffect DEF CaptureHold, Goto
  <2>11. CASE MarkSettled(w)
    BY <2>11 DEF MarkSettled, Goto
  <2>12. CASE RecordSettlementFailure(w)
    BY <2>12 DEF RecordSettlementFailure, Goto
  <2>13. CASE ExhaustRelease(w)
    <3>1. bill' \in {bill, Release(bill)} /\ UNCHANGED row
      BY <2>13 DEF ExhaustRelease, ReleaseHold
    <3>2. Orderly' => Orderly
      BY <2>13 DEF ExhaustRelease, ReleaseHold
    <3>3. Captured(bill) => ~Orderly
      BY <2>13 DEF ExhaustRelease
    <3> QED
      BY <3>1, <3>2, <3>3, ReleaseMove
  <2>14. CASE ExhaustFail(w)
    BY <2>14 DEF ExhaustFail, Transition, CanTransition, Allowed, Goto, Terminal
  <2>15. CASE ExhaustCheck(w)
    BY <2>15 DEF ExhaustCheck, Terminal, Goto
  <2>16. CASE FinishEntry(w)
    BY <2>16 DEF FinishEntry, Goto
  <2>17. CASE ReleaseJobLock(w)
    BY <2>17 DEF ReleaseJobLock, Idle
  <2>18. CASE LoseLease(w)
    BY <2>18 DEF LoseLease
  <2> QED
    BY <1>30, <2>1, <2>2, <2>3, <2>4, <2>5, <2>6, <2>7, <2>8, <2>9, <2>10, <2>11,
       <2>12, <2>13, <2>14, <2>15, <2>16, <2>17, <2>18 DEF WorkerStep
<1>31. CASE UNCHANGED vars
  BY <1>31
<1> QED
  BY <1>1, <1>2, <1>3, <1>4, <1>5, <1>6, <1>7, <1>8, <1>9, <1>10, <1>11, <1>12, <1>13,
     <1>14, <1>15, <1>16, <1>17, <1>18, <1>19, <1>20, <1>21, <1>22, <1>23, <1>24,
     <1>25, <1>26, <1>27, <1>28, <1>29, <1>30, <1>31
     DEF Next, SubmitStep, CancelStep, RecoveryStep, Environment

-----------------------------------------------------------------------------
(* Every behaviour keeps the invariants above.                               *)
THEOREM InductiveInvariant == Spec => []IInv
<1>1. Init => IInv
  <2> SUFFICES ASSUME Init
               PROVE  IInv
    OBVIOUS
  <2>1. bill \in Ledger /\ Balanced(bill, cost)
    BY HoldAssumption
       DEF Init, NewLedger, Ledger, RequestId, Place, Balanced, Amount, Claimed, Captured
  <2>2. /\ ~Claimed(bill, "hold") /\ ~Captured(bill) /\ ~bill.returned
    BY DEF Init, NewLedger, RequestId, Claimed, Captured
  <2>3. Sound(queue)
    BY DEF Init, EmptyQueue, Sound, Queue, InQueue
  <2>4. TypeOK
    <3>1. named \in BOOLEAN /\ stale \in BOOLEAN /\ asked \in BOOLEAN /\ outlived \in BOOLEAN
      BY DEF Init
    <3>2. pc \in [Worker -> WorkerLabel] /\ lost \in SUBSET Worker
      BY DEF Init, WorkerLabel
    <3>3. /\ status \in Status /\ retry \in Nat /\ cost \in Cost \union {0}
          /\ output \in Cost \union {0} /\ provider \in ProviderState
          /\ lock \in Worker \union {"free", "dead"} /\ trouble \in 0..MaxTrouble
      BY JobAssumption DEF Init, Status, ProviderState
    <3>4. sub \in SubmitLabel /\ can \in CancelLabel /\ rec \in RecoveryLabel
      BY DEF Init, SubmitLabel, CancelLabel, RecoveryLabel
    <3> QED
      BY <2>1, <2>3, <3>1, <3>2, <3>3, <3>4 DEF TypeOK, Sound
  <2>5. NameInv /\ DeadInv
    BY <2>2 DEF Init, NameInv, DeadInv, BeforeName, Failing, Submitted, SettleSteps
  <2>6. BillInv /\ SettleInv /\ ReturnInv
    BY <2>1, <2>2 DEF Init, BillInv, SettleInv, ReturnInv, SettleSteps
  <2>7. ExclusionInv /\ RetryInv /\ MoneyInv
    BY <2>2 DEF Init, ExclusionInv, RetryInv, MoneyInv, Holding, SettleSteps, ProviderSteps
  <2> QED
    BY <2>3, <2>4, <2>5, <2>6, <2>7 DEF IInv, Sound, QueuedIsNotLost
<1>2. IInv /\ [Next]_vars => IInv'
  <2> SUFFICES ASSUME IInv, [Next]_vars
               PROVE  IInv'
    OBVIOUS
  <2>1. Sound(queue)
    BY DEF IInv, TypeOK, Sound, QueuedIsNotLost
  <2>2. queue' \in Queue /\ QueuedIsNotLost'
    BY <2>1, QueueStep DEF Sound, QueuedIsNotLost
  <2>3. TypeOK' /\ NameInv' /\ DeadInv'
    BY <2>2, TypeStep, NameStep, DeadStep DEF IInv
  <2>4. BillInv' /\ SettleInv' /\ ReturnInv'
    BY BillStep, SettleStep, ReturnStep DEF IInv
  <2>5. ExclusionInv' /\ RetryInv' /\ MoneyInv'
    BY ExclusionStep, RetryStep, MoneyStep DEF IInv
  <2> QED
    BY <2>2, <2>3, <2>4, <2>5 DEF IInv
<1> QED
  BY <1>1, <1>2, PTL DEF Spec

(* The variables of BatchImageJob keep their types.                          *)
THEOREM TypeCorrect == Spec => []TypeOK
  BY InductiveInvariant, PTL DEF IInv

(* The balance and the frozen balance of the user are what the claims say,   *)
(* whoever calls Reserve, Capture and Release, however often, and whatever   *)
(* fails: claimUsageBillingRequest makes each of them happen at most once.   *)
THEOREM LedgerIsExact == Spec => []BalanceIsExact
  BY InductiveInvariant, PTL DEF IInv, BillInv, BalanceIsExact

(* Capture and Release exclude each other while the system is orderly.       *)
THEOREM HoldEnds == Spec => []HoldEndsOnce
<1>1. IInv => HoldEndsOnce
  <2> SUFFICES ASSUME IInv, Orderly, Captured(bill), bill.returned
               PROVE  FALSE
    BY DEF HoldEndsOnce
  <2>1. status \in {"settling", "completed"} /\ cost > Hold
    BY DEF IInv, MoneyInv
  <2>2. cost <= Hold /\ cost \in Nat
    BY CostType DEF IInv, BillInv
  <2> QED
    BY <2>1, <2>2, HoldAssumption
<1> QED
  BY <1>1, InductiveInvariant, PTL

(* MarkBatchImageJobSettled follows a committed capture, and in an orderly   *)
(* system a captured job does not fail.                                      *)
THEOREM DeliveredIffCharged == Spec => []ChargedIsDelivered
<1>1. IInv => ChargedIsDelivered
  BY DEF IInv, SettleInv, MoneyInv, ChargedIsDelivered
<1> QED
  BY <1>1, InductiveInvariant, PTL

(* A job whose hold has gone back is not on its way to the images.           *)
THEOREM RefundEndsJob == Spec => []RefundedIsDead
<1>1. IInv => RefundedIsDead
  <2> SUFFICES ASSUME IInv, bill.returned
               PROVE  /\ status \notin {"submitted", "running", "indexing"}
                      /\ Orderly => status # "completed"
    BY DEF RefundedIsDead
  <2>1. status \notin {"submitted", "running", "indexing"}
    BY DEF IInv, ReturnInv, Dead, Unsubmitted
  <2>2. Orderly /\ status = "completed" => cost > Hold /\ cost <= Hold
    BY DEF IInv, MoneyInv, SettleInv, BillInv
  <2>3. cost \in Nat
    BY CostType DEF IInv
  <2> QED
    BY <2>1, <2>2, <2>3, HoldAssumption
<1> QED
  BY <1>1, InductiveInvariant, PTL

(* A crash of any process at any point leaves a queued job in the queue.     *)
THEOREM QueueKeepsJob == Spec => []QueuedIsNotLost
  BY InductiveInvariant, PTL DEF IInv

-----------------------------------------------------------------------------
(* Where the price is, as Contract maps it.                                  *)
Price ==
    CASE Captured(bill) /\ bill.returned -> "both"
      [] Captured(bill) /\ ~bill.returned -> "charged"
      [] ~Captured(bill) /\ bill.returned -> "refunded"
      [] OTHER -> IF Claimed(bill, "hold") THEN "held" ELSE "unpaid"

(* BatchImageJob implements PrepaidBatch: every step of Submit, Cancel, the  *)
(* recovery scan, the workers and the environment is a step of the contract  *)
(* or leaves it alone.                                                       *)
THEOREM ImplementsContract == Spec => KeepsContract
<1>1. Init => Contract!Init
  BY JobAssumption
     DEF Init, Contract!Init, NewLedger, RequestId, Captured, Claimed, Orderly
<1>2. IInv /\ IInv' /\ [Next]_vars => [Contract!Next]_<<Price, status = "completed", Orderly>>
  <2> SUFFICES ASSUME IInv, IInv', [Next]_vars
               PROVE  [Contract!Next]_<<Price, status = "completed", Orderly>>
    OBVIOUS
  <2>1. ContractMove
    BY ContractStep
  <2>2. TypeOK /\ TypeOK'
    BY DEF IInv
  <2> USE DEF Contract!Next, Contract!PutAside, Contract!Charge, Contract!Refund,
              Contract!Deliver, Contract!LoseOrder, Contract!ChargeAndRefund, Contract!Move
  <2>3. CASE Delivers
    BY <2>1, <2>2, <2>3 DEF ContractMove, Delivers, Kept
  <2>4. CASE SameDelivery /\ Kept
    <3>1. Price' = Price /\ ((status = "completed")' <=> status = "completed")
      BY <2>4 DEF SameDelivery, Kept, Price
    <3>2. CASE Orderly' <=> Orderly
      BY <3>1, <3>2
    <3>3. CASE Orderly /\ ~Orderly'
      <4>1. Contract!LoseOrder
        BY <3>1, <3>3 DEF Price
      <4> QED
        BY <4>1
    <3> QED
      BY <2>1, <3>2, <3>3 DEF ContractMove
  <2>5. CASE SameDelivery /\ Reserves
    BY <2>1, <2>2, <2>5 DEF ContractMove, SameDelivery, Reserves
  <2>6. CASE SameDelivery /\ Captures
    BY <2>1, <2>2, <2>6 DEF ContractMove, SameDelivery, Captures
  <2>7. CASE SameDelivery /\ Returns
    BY <2>1, <2>2, <2>7 DEF ContractMove, SameDelivery, Returns
  <2> QED
    BY <2>1, <2>3, <2>4, <2>5, <2>6, <2>7 DEF ContractMove
<1> QED
  BY <1>1, <1>2, InductiveInvariant, PTL DEF Spec, KeepsContract, Contract!Spec, Price

=============================================================================
