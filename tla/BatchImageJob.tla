--------------------------- MODULE BatchImageJob ---------------------------
(* One batch image job, from its submission to its settlement.  Four parties *)
(* work on its row, its hold and its queue entry: the request that submits   *)
(* it (batch_image_public.go, Submit), requests that cancel it (Cancel), the *)
(* scan for submissions that never reached the provider                      *)
(* (batch_image_billing_recovery.go) and the queue workers                   *)
(* (batch_image_worker.go, batch_image_processor.go,                         *)
(* batch_image_settlement.go).  Every database, Redis or provider call is a  *)
(* step of its own; it may fail, with or without its effect.                 *)
EXTENDS BatchImageBilling, BatchImageQueue, FiniteSets

CONSTANTS
    Worker,         \* the queue workers, of all instances
    Cost,           \* what the images of the provider's output may cost
    MaxRetries,     \* batchImageSettlementMaxRetries
    MaxTrouble,     \* bound: failed calls, lost answers and crashes, one each,
    LeaseTrouble    \* and the share of the bound that a lost lease takes

ASSUME JobAssumption ==
    /\ Cost \subseteq Nat /\ MaxRetries \in Nat \ {0}
    /\ MaxTrouble \in Nat /\ LeaseTrouble \in Nat \ {0}
    /\ {"free", "dead"} \intersect Worker = {}

VARIABLES
    status,         \* job.Status, "none" before the row exists
    named,          \* the row has a provider_job_name
    stale,          \* updated_at lies before the cutoff of the scan
    retry,          \* job.RetryCount
    cost,           \* success_count of the row at its unit price
    bill,           \* the hold and its claims
    queue, lock,    \* Redis: the job's queue entry, the owner of its lock
    provider,       \* state of the provider's job
    output,         \* what the images of the provider's output cost
    asked,          \* the provider has been asked to cancel
    sub, can, rec,  \* next step of Submit, Cancel, the recovery scan
    pc,             \* per worker: its next step
    lost,           \* workers whose heartbeats have failed for the whole lease
    outlived,       \* some worker has outlived its lease
    trouble         \* what has gone wrong so far, within MaxTrouble

row == <<status, named, stale, retry, cost>>
upstream == <<provider, output, asked>>
redis == <<queue, lock>>
callers == <<sub, can, rec>>
workers == <<pc, lost>>
bounds == <<outlived, trouble>>
vars == <<row, bill, redis, upstream, callers, workers, bounds>>

Status ==
    {"none", "created", "uploading", "submitted", "running", "indexing", "settling",
     "completed", "failed", "cancelled"}
Unsubmitted == {"created", "uploading"}
Dead == {"failed", "cancelled"}
Terminal == Dead \union {"completed"}
ProviderState == {"none", "queued", "running", "succeeded", "garbled", "failed", "cancelled"}
Unfinished == {"queued", "running"}

SubmitLabel ==
    {"new", "reserve", "items", "uploading", "provider", "name", "abort", "enqueue",
     "release", "releaseOnly", "record", "recordRetry", "done"}
CancelLabel == {"idle", "provider", "transition", "release", "enqueue"}
RecoveryLabel == {"idle", "fail", "release", "enqueue"}
WorkerLabel ==
    {"idle", "lock", "read", "load", "get", "running", "indexing", "failing",
     "cancelling", "index", "settling", "release", "settle", "capture", "mark", "record",
     "exhaust", "recordRelease", "fail", "check", "ack", "requeue", "unlock"}

TypeOK ==
    /\ status \in Status /\ named \in BOOLEAN /\ stale \in BOOLEAN /\ retry \in Nat
    /\ cost \in Cost \union {0} /\ bill \in Ledger
    /\ queue \in Queue /\ lock \in Worker \union {"free", "dead"}
    /\ provider \in ProviderState /\ output \in Cost \union {0} /\ asked \in BOOLEAN
    /\ sub \in SubmitLabel /\ can \in CancelLabel /\ rec \in RecoveryLabel
    /\ pc \in [Worker -> WorkerLabel] /\ lost \in SUBSET Worker
    /\ outlived \in BOOLEAN /\ trouble \in 0..MaxTrouble

Init ==
    /\ status = "none" /\ named = FALSE /\ stale = FALSE /\ retry = 0 /\ cost = 0
    /\ bill = NewLedger /\ queue = EmptyQueue /\ lock = "free"
    /\ provider = "none" /\ output = 0 /\ asked = FALSE
    /\ sub = "new" /\ can = "idle" /\ rec = "idle"
    /\ pc = [w \in Worker |-> "idle"] /\ lost = {}
    /\ outlived = FALSE /\ trouble = 0

-----------------------------------------------------------------------------
(* Calls.  A call that can succeed has its effect and the caller goes on; a  *)
(* fault is a call that fails, or one that succeeds and whose answer is      *)
(* lost.                                                                     *)
NoFault == UNCHANGED bounds
Fault == trouble < MaxTrouble /\ trouble' = trouble + 1 /\ UNCHANGED outlived

Call(ok, effect, same, next, error) ==
    \/ NoFault /\ ok /\ effect /\ next
    \/ NoFault /\ ~ok /\ same /\ error
    \/ Fault /\ error /\ (same \/ (ok /\ effect))

(* CanTransitionBatchImageJob                                                *)
Allowed ==
    {<<"created", "uploading">>, <<"created", "submitted">>, <<"created", "cancelled">>,
     <<"uploading", "submitted">>, <<"uploading", "cancelled">>,
     <<"submitted", "running">>, <<"submitted", "indexing">>, <<"submitted", "cancelled">>,
     <<"running", "running">>, <<"running", "indexing">>, <<"running", "cancelled">>,
     <<"indexing", "settling">>, <<"settling", "completed">>}
CanTransition_revives(from, to) ==
    \/ to = "failed" /\ from \notin Terminal \union {"none"}
    \/ <<from, to>> \in Allowed \union {<<"cancelled", "submitted">>, <<"failed", "submitted">>}

CanTransition(from, to) ==
    \/ to = "failed" /\ from \notin Terminal \union {"none"}
    \/ <<from, to>> \in Allowed

(* TransitionBatchImageJobStatus: the row is locked, checked and written.    *)
Transition(to, next, error) ==
    Call(CanTransition(status, to),
         status' = to /\ stale' = FALSE /\ UNCHANGED <<named, retry, cost>>,
         UNCHANGED row, next, error)

ReleaseHold(next, error) ==
    Call(ReleaseOK(bill), bill' = Release(bill), UNCHANGED bill, next, error)

(* Enqueue, whose error no caller acts on.                                   *)
EnqueueJob ==
    \/ queue' = Enqueue(queue) /\ NoFault
    \/ queue' \in {queue, Enqueue(queue)} /\ Fault

-----------------------------------------------------------------------------
(* Submit                                                                    *)
CreateJob ==
    /\ sub = "new" /\ sub' = "reserve" /\ status' = "created"
    /\ UNCHANGED <<named, stale, retry, cost, bill, redis, upstream, can, rec, workers, bounds>>

SubmitReserve ==
    /\ sub = "reserve"
    /\ Call(ReserveOK(bill), bill' = Reserve(bill), UNCHANGED bill,
            sub' = "items", sub' = "record")
    /\ UNCHANGED <<row, redis, upstream, can, rec, workers>>

CreatePendingItems ==
    /\ sub = "items"
    /\ \/ sub' = "uploading" /\ NoFault
       \/ sub' = "release" /\ Fault
    /\ UNCHANGED <<row, bill, redis, upstream, can, rec, workers>>

(* A job that has been cancelled or failed meanwhile keeps its status.       *)
SubmitUploading ==
    /\ sub = "uploading"
    /\ Transition("uploading", sub' = "provider",
                  sub' = IF trouble' = trouble THEN "releaseOnly" ELSE "release")
    /\ UNCHANGED <<bill, redis, upstream, can, rec, workers>>

(* provider.Submit: the provider may refuse, or create the job and have its  *)
(* answer lost.                                                              *)
SubmitToProvider ==
    /\ sub = "provider"
    /\ \/ provider' = "queued" /\ sub' = "name" /\ NoFault
       \/ provider' = "none" /\ sub' = "release" /\ NoFault
       \/ provider' = "queued" /\ sub' = "release" /\ Fault
    /\ UNCHANGED <<row, bill, redis, output, asked, can, rec, workers>>

SubmitHeartbeat ==
    /\ sub = "provider" /\ status \in Unsubmitted /\ stale /\ stale' = FALSE
    /\ UNCHANGED <<status, named, retry, cost, bill, redis, upstream, callers, workers, bounds>>

UpdateProviderSubmit ==
    /\ sub = "name"
    /\ Call(CanTransition(status, "submitted"),
            status' = "submitted" /\ named' = TRUE /\ stale' = FALSE /\ UNCHANGED <<retry, cost>>,
            UNCHANGED row, sub' = "enqueue", sub' = "abort")
    /\ UNCHANGED <<bill, redis, upstream, can, rec, workers>>

AbortOrphanProviderJob ==
    /\ sub = "abort" /\ sub' = "done"
    /\ \/ asked' = TRUE /\ NoFault
       \/ asked' = asked /\ Fault
    /\ UNCHANGED <<row, bill, redis, provider, output, can, rec, workers>>

SubmitEnqueue ==
    /\ sub = "enqueue" /\ sub' = "done" /\ EnqueueJob
    /\ UNCHANGED <<row, bill, lock, upstream, can, rec, workers>>

ReleaseFailedSubmitHold ==
    /\ sub \in {"release", "releaseOnly"}
    /\ ReleaseHold(sub' = IF sub = "release" THEN "record" ELSE "done", sub' = "recordRetry")
    /\ UNCHANGED <<row, redis, upstream, can, rec, workers>>

(* RecordBatchImageJobSubmitFailure writes failed over any status.           *)
RecordSubmitFailure ==
    /\ sub \in {"record", "recordRetry"}
    /\ sub' = IF sub = "record" THEN "done" ELSE "enqueue"
    /\ \/ status' = "failed" /\ NoFault
       \/ status' = status /\ Fault
    /\ UNCHANGED <<named, stale, retry, cost, bill, redis, upstream, can, rec, workers>>

(* Submit again under the same idempotency key.                              *)
Resubmit ==
    /\ sub = "done" /\ status = "submitted" /\ sub' = "enqueue"
    /\ UNCHANGED <<row, bill, redis, upstream, can, rec, workers, bounds>>

SubmitStep ==
    \/ SubmitReserve \/ CreatePendingItems \/ SubmitUploading \/ SubmitToProvider
    \/ UpdateProviderSubmit \/ AbortOrphanProviderJob \/ SubmitEnqueue
    \/ ReleaseFailedSubmitHold \/ RecordSubmitFailure

-----------------------------------------------------------------------------
(* Cancel.  It acts on the row it has read; a job that is being settled or   *)
(* has been is left alone.                                                   *)
CancelRead ==
    /\ can = "idle" /\ status \notin {"none", "settling", "completed"}
    /\ can' = CASE status \in Dead -> "release" [] named -> "provider" [] OTHER -> "transition"
    /\ UNCHANGED <<row, bill, redis, upstream, sub, rec, workers, bounds>>

CancelAtProvider ==
    /\ can = "provider"
    /\ \/ asked' = TRUE /\ can' = "enqueue" /\ NoFault
       \/ asked' \in {asked, TRUE} /\ can' = "idle" /\ Fault
    /\ UNCHANGED <<row, bill, redis, provider, output, sub, rec, workers>>

CancelTransition ==
    /\ can = "transition"
    /\ Transition("cancelled", can' = "release", can' = "idle")
    /\ UNCHANGED <<bill, redis, upstream, sub, rec, workers>>

CancelRelease ==
    /\ can = "release" /\ ReleaseHold(can' = "idle", can' = "enqueue")
    /\ UNCHANGED <<row, redis, upstream, sub, rec, workers>>

CancelEnqueue ==
    /\ can = "enqueue" /\ can' = "idle" /\ EnqueueJob
    /\ UNCHANGED <<row, bill, lock, upstream, sub, rec, workers>>

CancelStep == CancelAtProvider \/ CancelTransition \/ CancelRelease \/ CancelEnqueue

-----------------------------------------------------------------------------
(* ReleaseStaleUnsubmittedOnce                                               *)
StaleUnsubmitted == status \in Unsubmitted /\ ~named /\ stale

(* updated_at falls behind the cutoff: only provider.Submit has heartbeats.  *)
GrowStale ==
    /\ status \in Unsubmitted /\ ~stale /\ stale' = TRUE
    /\ IF sub = "provider" THEN Fault ELSE NoFault
    /\ UNCHANGED <<status, named, retry, cost, bill, redis, upstream, callers, workers>>

ListStaleUnsubmitted ==
    /\ rec = "idle" /\ StaleUnsubmitted /\ rec' = "fail"
    /\ UNCHANGED <<row, bill, redis, upstream, sub, can, workers, bounds>>

FailStaleUnsubmitted_noRecheck ==
    /\ rec = "fail"
    /\ Call(TRUE, status' = "failed" /\ stale' = FALSE /\ UNCHANGED <<named, retry, cost>>,
            UNCHANGED row, rec' = "release", rec' = "idle")
    /\ UNCHANGED <<bill, redis, upstream, sub, can, workers>>

(* The UPDATE checks again that the job is stale and not submitted.          *)
FailStaleUnsubmitted ==
    /\ rec = "fail"
    /\ Call(StaleUnsubmitted,
            status' = "failed" /\ stale' = FALSE /\ UNCHANGED <<named, retry, cost>>,
            UNCHANGED row, rec' = "release", rec' = "idle")
    /\ UNCHANGED <<bill, redis, upstream, sub, can, workers>>

RecoveryRelease ==
    /\ rec = "release" /\ ReleaseHold(rec' = "idle", rec' = "enqueue")
    /\ UNCHANGED <<row, redis, upstream, sub, can, workers>>

RecoveryEnqueue ==
    /\ rec = "enqueue" /\ rec' = "idle" /\ EnqueueJob
    /\ UNCHANGED <<row, bill, lock, upstream, sub, can, workers>>

RecoveryStep ==
    ListStaleUnsubmitted \/ FailStaleUnsubmitted \/ RecoveryRelease \/ RecoveryEnqueue

-----------------------------------------------------------------------------
(* The provider, and the queue's own jobs.                                   *)
ProviderRuns ==
    /\ provider = "queued" /\ provider' = "running"
    /\ UNCHANGED <<row, bill, redis, output, asked, callers, workers, bounds>>

ProviderEnds ==
    /\ provider \in Unfinished
    /\ \/ provider' = "succeeded" /\ output' \in Cost
       \/ provider' \in {"garbled", "failed"} /\ UNCHANGED output
       \/ asked /\ provider' = "cancelled" /\ UNCHANGED output
    /\ UNCHANGED <<row, bill, redis, asked, callers, workers, bounds>>

MoveDueDelayed ==
    /\ queue.delayed /\ queue' = MoveDueDelayedToReady(queue)
    /\ UNCHANGED <<row, bill, lock, upstream, callers, workers, bounds>>

(* The entry of a worker that is dead, or whose heartbeats do not arrive.    *)
RecoverActive ==
    /\ queue.active /\ \A w \in Worker : pc[w] = "idle" \/ w \in lost
    /\ queue' = RecoverStaleActive(queue)
    /\ UNCHANGED <<row, bill, lock, upstream, callers, workers, bounds>>

LockExpires ==
    /\ lock = "dead" \/ lock \in lost
    /\ lock' = "free"
    /\ UNCHANGED <<row, bill, queue, upstream, callers, workers, bounds>>

(* CleanupUsageBillingDedup keeps claims for a year: the job has ended by    *)
(* then, and so has every call that worked on it.                            *)
Archive ==
    /\ status \in Terminal /\ callers = <<"done", "idle", "idle">>
    /\ \A w \in Worker : pc[w] = "idle"
    /\ bill' = ArchiveClaims(bill) /\ bill' # bill
    /\ UNCHANGED <<row, redis, upstream, callers, workers, bounds>>

-----------------------------------------------------------------------------
(* A worker: RunOnce, from Reserve to the release of the job lock.           *)
Goto(w, label) == pc' = [pc EXCEPT ![w] = label] /\ UNCHANGED lost
Idle(w) == pc' = [pc EXCEPT ![w] = "idle"] /\ lost' = lost \ {w}

WorkerReserve_empty(w) ==
    /\ pc[w] = "idle" /\ queue' = ReserveJob(queue) /\ Goto(w, "lock") /\ NoFault
    /\ UNCHANGED <<row, bill, lock, upstream, callers>>

WorkerReserve(w) ==
    /\ pc[w] = "idle" /\ queue.ready > 0 /\ queue' = ReserveJob(queue)
    /\ \/ Goto(w, "lock") /\ NoFault
       \/ UNCHANGED workers /\ Fault
    /\ UNCHANGED <<row, bill, lock, upstream, callers>>

(* Without the lock the entry goes back, and there is no lock to release.    *)
TryAcquireJobLock(w) ==
    /\ pc[w] = "lock"
    /\ Call(lock = "free", lock' = w, UNCHANGED lock,
            Goto(w, "read"), Goto(w, "requeue"))
    /\ UNCHANGED <<row, bill, queue, upstream, callers>>

(* BatchImagePipelineProcessor.Process                                       *)
PipelineRead(w) ==
    /\ pc[w] = "read" /\ Goto(w, IF status = "settling" THEN "settle" ELSE "load")
    /\ UNCHANGED <<row, bill, redis, upstream, callers, bounds>>

(* BatchImageProviderProcessor.Process reads the row again.                  *)
ProcessorLoad(w) ==
    /\ pc[w] = "load"
    /\ Goto(w, CASE status \in Dead                     -> "release"
                 [] status \in {"settling", "completed"} -> "ack"
                 [] ~named                                -> "requeue"
                 [] status = "indexing"                   -> "index"
                 [] OTHER                                 -> "get")
    /\ UNCHANGED <<row, bill, redis, upstream, callers, bounds>>

ProviderGet(w) ==
    /\ pc[w] = "get"
    /\ \/ /\ NoFault
          /\ Goto(w, CASE provider = "queued"                   -> "requeue"
                       [] provider = "running"                  -> "running"
                       [] provider \in {"succeeded", "garbled"} -> "indexing"
                       [] provider = "failed"                   -> "failing"
                       [] provider = "cancelled"                -> "cancelling")
       \/ Fault /\ Goto(w, "requeue")
    /\ UNCHANGED <<row, bill, redis, upstream, callers>>

(* What the processor found becomes the status; any error ends the round.  A *)
(* job that already runs is written again here, which changes nothing.       *)
ProcessorTransition(w) ==
    /\ \E t \in {<<"running", "running", "requeue">>, <<"indexing", "indexing", "index">>,
                 <<"failing", "failed", "release">>, <<"cancelling", "cancelled", "release">>,
                 <<"settling", "settling", "requeue">>} :
          pc[w] = t[1] /\ Transition(t[2], Goto(w, t[3]), Goto(w, "requeue"))
    /\ UNCHANGED <<bill, redis, upstream, callers>>

(* BatchImageResultIndexer.Index and indexAndSettle: the items are replaced  *)
(* if the job still is in indexing; output that is missing is tried again;   *)
(* output that does not parse, and any other error, fails the job.           *)
Index(w) ==
    /\ pc[w] = "index"
    /\ \/ NoFault /\ provider = "garbled" /\ Goto(w, "failing") /\ UNCHANGED cost
       \/ NoFault /\ provider # "garbled" /\ status # "indexing" /\ Goto(w, "requeue")
          /\ UNCHANGED cost
       \/ NoFault /\ provider # "garbled" /\ status = "indexing" /\ Goto(w, "settling")
          /\ cost' = output
       \/ Fault /\ (Goto(w, "requeue") \/ Goto(w, "failing")) /\ UNCHANGED cost
    /\ UNCHANGED <<status, named, stale, retry, bill, redis, upstream, callers>>

ReleaseTerminalHold(w) ==
    /\ pc[w] = "release" /\ ReleaseHold(Goto(w, "ack"), Goto(w, "requeue"))
    /\ UNCHANGED <<row, redis, upstream, callers>>

(* BatchImageSettlementService.Settle reads the row once more.  Its checks   *)
(* that the row has an API key and an account are left out: CreateJob stores *)
(* both and no statement clears them.                                        *)
Settle(w) ==
    /\ pc[w] = "settle"
    /\ Goto(w, CASE status = "completed"                          -> "ack"
                 [] status \notin {"settling", "completed"}        -> "requeue"
                 [] status = "settling" /\ retry >= MaxRetries      -> "exhaust"
                 [] status = "settling" /\ retry < MaxRetries /\ cost > Hold -> "record"
                 [] OTHER                                          -> "capture")
    /\ UNCHANGED <<row, bill, redis, upstream, callers, bounds>>

CaptureHold_noRetry(w) ==
    /\ pc[w] = "capture"
    /\ Call(CaptureOK(bill, cost), bill' = Capture(bill, cost), UNCHANGED bill,
            Goto(w, "mark"), Goto(w, "exhaust"))
    /\ UNCHANGED <<row, redis, upstream, callers>>

CaptureHold_errorIgnored(w) ==
    /\ pc[w] = "capture"
    /\ Call(CaptureOK(bill, cost), bill' = Capture(bill, cost), UNCHANGED bill,
            Goto(w, "mark"), Goto(w, "mark"))
    /\ UNCHANGED <<row, redis, upstream, callers>>

CaptureHold(w) ==
    /\ pc[w] = "capture"
    /\ Call(CaptureOK(bill, cost), bill' = Capture(bill, cost), UNCHANGED bill,
            Goto(w, "mark"), Goto(w, "record"))
    /\ UNCHANGED <<row, redis, upstream, callers>>

MarkSettled(w) ==
    /\ pc[w] = "mark"
    /\ Call(status = "settling",
            status' = "completed" /\ stale' = FALSE /\ UNCHANGED <<named, retry, cost>>,
            UNCHANGED row, Goto(w, "ack"), Goto(w, "requeue"))
    /\ UNCHANGED <<bill, redis, upstream, callers>>

(* recordSettlementFailure: the count it returns decides.                    *)
RecordSettlementFailure_notCounted(w) ==
    /\ pc[w] \in {"record", "recordRelease"} /\ Goto(w, "requeue") /\ NoFault
    /\ UNCHANGED <<row, bill, redis, upstream, callers>>

RecordSettlementFailure(w) ==
    /\ pc[w] \in {"record", "recordRelease"}
    /\ \/ /\ retry' = retry + 1 /\ NoFault
          /\ Goto(w, IF pc[w] = "record" /\ retry' >= MaxRetries THEN "exhaust" ELSE "requeue")
       \/ retry' \in {retry, retry + 1} /\ Fault /\ Goto(w, "requeue")
    /\ UNCHANGED <<status, named, stale, cost, bill, redis, upstream, callers>>

(* failExhaustedSettlement: release, then fail the job; Process looks at the *)
(* row to see whether it is done.                                            *)
ExhaustRelease(w) ==
    /\ pc[w] = "exhaust" /\ ReleaseHold(Goto(w, "fail"), Goto(w, "recordRelease"))
    /\ UNCHANGED <<row, redis, upstream, callers>>

ExhaustFail(w) ==
    /\ pc[w] = "fail" /\ Transition("failed", Goto(w, "check"), Goto(w, "requeue"))
    /\ UNCHANGED <<bill, redis, upstream, callers>>

ExhaustCheck(w) ==
    /\ pc[w] = "check" /\ Goto(w, IF status \in Terminal THEN "ack" ELSE "requeue")
    /\ UNCHANGED <<row, bill, redis, upstream, callers, bounds>>

(* Ack or RequeueAfter, and then the release of the lock, if it is the       *)
(* worker's.                                                                 *)
FinishEntry(w) ==
    /\ pc[w] \in {"ack", "requeue"} /\ Goto(w, "unlock")
    /\ LET done == IF pc[w] = "ack" THEN Ack(queue) ELSE RequeueAfter(queue)
       IN  \/ queue' = done /\ NoFault
           \/ queue' \in {queue, done} /\ Fault
    /\ UNCHANGED <<row, bill, lock, upstream, callers>>

ReleaseJobLock(w) ==
    /\ pc[w] = "unlock" /\ Idle(w)
    /\ \/ lock' = (IF lock = w THEN "free" ELSE lock) /\ NoFault
       \/ lock' = (IF lock = w THEN "dead" ELSE lock) /\ Fault
    /\ UNCHANGED <<row, bill, queue, upstream, callers>>

WorkerStep(w) ==
    \/ WorkerReserve(w) \/ TryAcquireJobLock(w) \/ PipelineRead(w) \/ ProcessorLoad(w)
    \/ ProviderGet(w) \/ ProcessorTransition(w) \/ Index(w) \/ ReleaseTerminalHold(w)
    \/ Settle(w) \/ CaptureHold(w) \/ MarkSettled(w) \/ RecordSettlementFailure(w)
    \/ ExhaustRelease(w) \/ ExhaustFail(w) \/ ExhaustCheck(w) \/ FinishEntry(w)
    \/ ReleaseJobLock(w)

-----------------------------------------------------------------------------
(* A process dies: its worker's lock and queue entry stay behind.            *)
Crash ==
    /\ trouble < MaxTrouble /\ trouble' = trouble + 1 /\ UNCHANGED outlived
    /\ \/ sub \notin {"new", "done"} /\ sub' = "done" /\ UNCHANGED <<can, rec, workers, lock>>
       \/ can # "idle" /\ can' = "idle" /\ UNCHANGED <<sub, rec, workers, lock>>
       \/ rec # "idle" /\ rec' = "idle" /\ UNCHANGED <<sub, can, workers, lock>>
       \/ \E w \in Worker :
            /\ pc[w] # "idle" /\ Idle(w) /\ lock' = (IF lock = w THEN "dead" ELSE lock)
            /\ UNCHANGED callers
    /\ UNCHANGED <<row, bill, queue, upstream>>

(* The heartbeats of a worker that is still at work fail for a whole lease.  *)
LoseLease(w) ==
    /\ pc[w] \notin {"idle", "unlock"} /\ w \notin lost /\ lost' = lost \union {w}
    /\ outlived' = TRUE
    /\ trouble + LeaseTrouble <= MaxTrouble /\ trouble' = trouble + LeaseTrouble
    /\ UNCHANGED <<row, bill, redis, upstream, callers, pc>>

Environment == ProviderRuns \/ ProviderEnds \/ MoveDueDelayed \/ RecoverActive \/ LockExpires

Next ==
    \/ CreateJob \/ SubmitStep \/ SubmitHeartbeat \/ Resubmit
    \/ CancelRead \/ CancelStep \/ GrowStale \/ RecoveryStep
    \/ \E w \in Worker : WorkerStep(w) \/ LoseLease(w)
    \/ Environment \/ Archive \/ Crash

Spec == Init /\ [][Next]_vars

(* What has begun goes on, time passes, the provider ends its job and the    *)
(* queue's own jobs run; nobody has to submit, cancel or submit again.       *)
FairSpec ==
    /\ Spec
    /\ WF_vars(SubmitStep) /\ WF_vars(GrowStale) /\ WF_vars(RecoveryStep)
    /\ \A w \in Worker : WF_vars(WorkerStep(w))
    /\ WF_vars(ProviderEnds) /\ WF_vars(MoveDueDelayed) /\ WF_vars(RecoverActive)
    /\ WF_vars(LockExpires)

-----------------------------------------------------------------------------
(* No worker has outlived its lease, and fewer calls have failed than a      *)
(* settlement has retries: an exhausted settlement takes the hold for        *)
(* uncaptured, and after as many lost answers as retries it may be wrong.    *)
Orderly == ~outlived /\ trouble < MaxRetries

(* Money.  The hold ends once: as long as the system is orderly, what a      *)
(* batch costs is never both captured and given back, whichever calls fail,  *)
(* are lost or repeated, and however cancellation, the recovery scan and the *)
(* settlement interleave (batch_image_settlement.go, batch_image_public.go,  *)
(* batch_image_billing_recovery.go).                                         *)
HoldEndsOnce == Orderly => ~(Captured(bill) /\ bill.returned)

(* The user's balance and frozen balance are what the claims say, each       *)
(* amount applied once, before and after the claims move to the archive      *)
(* (usage_billing_repo.go, claimUsageBillingRequest).                        *)
BalanceIsExact == Balanced(bill, cost)

(* A job is completed only once its cost has been captured, and a captured   *)
(* job is settling or completed: nobody pays for a job that then fails, as   *)
(* long as the system is orderly (Settle, MarkBatchImageJobSettled).         *)
ChargedIsDelivered ==
    /\ status = "completed" => Captured(bill)
    /\ Captured(bill) /\ Orderly => status \in {"settling", "completed"}

(* A job whose hold has gone back never is on its way to the images: a slow  *)
(* Submit cannot revive what Cancel or the recovery scan ended, and in an    *)
(* orderly system no settlement completes what another one has given up      *)
(* (UpdateBatchImageJobProviderSubmit, FailStaleUnsubmittedBatchImageJob).   *)
RefundedIsDead ==
    bill.returned =>
        /\ status \notin {"submitted", "running", "indexing"}
        /\ Orderly => status # "completed"

(* Once the provider's job is recorded the hold goes back only when the      *)
(* provider has ended the job or has been asked to: "provider_job_name       *)
(* written: must never refund here, or the upstream job keeps costing while  *)
(* the user has his balance back" (batch_image_billing_recovery.go:53-55).   *)
RefundedIsNotRunning == bill.returned /\ named => asked \/ provider \notin Unfinished

(* A job that counts as queued is in one of the three structures: after a    *)
(* crash at any point somebody still picks it up (batch_image_queue.go).     *)
QueuedIsNotLost == queue.inflight => InQueue(queue)

(* Every job that is queued ends: completed and captured, or failed or       *)
(* cancelled with its release committed.                                     *)
Ended ==
    \/ status = "completed" /\ Captured(bill)
    \/ status \in Dead /\ Claimed(bill, "release")
QueuedJobEnds == queue.inflight ~> Ended \/ outlived

(* The job keeps the contract of a batch that is paid for in advance:        *)
(* charged or refunded, never both as long as the system is orderly, and     *)
(* delivered only when charged.                                              *)
Contract == INSTANCE PrepaidBatch WITH
    phase <- CASE Captured(bill) /\ bill.returned -> "both"
               [] Captured(bill) /\ ~bill.returned -> "charged"
               [] ~Captured(bill) /\ bill.returned -> "refunded"
               [] OTHER -> IF Claimed(bill, "hold") THEN "held" ELSE "unpaid",
    delivered <- status = "completed",
    orderly <- Orderly
KeepsContract == Contract!Spec
=============================================================================
