-------------------- MODULE IdempotencyCoordinatorProofs --------------------
(* Theorems about IdempotencyCoordinator for every set of requests and       *)
(* payloads, every time to live, timeout and backoff, and every number of    *)
(* faults and deaths.                                                        *)
EXTENDS IdempotencyCoordinator, FiniteSetTheorems, TLAPS

Reclaiming == {"reclaimExpired", "reclaimFailed"}

(* The steps from the claim of the row to its last statement.                *)
Holding == {"exec", "succeeded", "failed"}

(* A row keeps its fingerprint for life, and ids are not used again: who     *)
(* claims a row, finishes it or replays it has its payload.                  *)
OwnerInv ==
    /\ rec.id <= lastId
    /\ rec.status = "succeeded" => rec.body \in {rec.fp, "truncated"}
    /\ \A r \in Request :
          /\ pc[r] # "idle" => call[r].fp \in Payload
          /\ pc[r] \in Reclaiming =>
                /\ call[r].seen.id \in 1..lastId
                /\ call[r].seen.id = rec.id => rec.fp = call[r].fp
          /\ pc[r] \in Holding =>
                /\ call[r].id \in 1..lastId
                /\ call[r].id = rec.id => rec.fp = call[r].fp
          /\ pc[r] = "replayed" => call[r].seen.body = call[r].fp

(* What Tick guarantees.                                                     *)
ClockInv ==
    \A r \in Request :
        /\ call[r].start <= clock
        /\ pc[r] \in Claiming => clock <= call[r].start + MaxClaim
        /\ pc[r] # "idle" => clock <= call[r].start + MaxRun

(* The row of a request that holds it is as its claim has left it; nobody    *)
(* else holds it, and no request that took the row for expired can claim it. *)
HoldInv ==
    /\ \A r, s \in Request : pc[r] \in Holding /\ pc[s] \in Holding => r = s
    /\ \A r \in Request : pc[r] \in Holding =>
          /\ rec.id = call[r].id /\ rec.status = "processing"
          /\ rec.locked = LockedUntil(r) /\ rec.expires = ExpiresAt(r)
    /\ \A r, s \in Request : pc[r] \in Holding /\ pc[s] = "reclaimExpired" =>
          call[s].start < LockedUntil(r)

(* While the success a retry has met is valid, the row is that success, or   *)
(* was taken over after the retry arrived, which outlasts the retry's claim. *)
RetryInv ==
    \A r \in Request : pc[r] \in Claiming /\ call[r].until > clock =>
        /\ pc[r] \in {"create", "get"} /\ rec # NoRecord
        /\ \/ rec.status = "succeeded" /\ rec.expires = call[r].until
           \/ /\ rec.expires + MaxClaim >= ExpiresAt(r)
              /\ rec.status = "failed_retryable" => rec.locked > call[r].start

IInv == TypeOK /\ OwnerInv /\ ClockInv /\ HoldInv /\ RetryInv

-----------------------------------------------------------------------------
(* What marshalStoredResponse may store.                                     *)
Body == Payload \union {"truncated"}

(* What the statements of the repository do to a row.                        *)
LEMMA RecordCases ==
    ASSUME NEW e \in Record
    PROVE  /\ e.id = 0 => e = NoRecord
           /\ e # NoRecord => e.id \in Nat \ {0} /\ e.status \in RecordStatus
           /\ e = NoRecord => e.id = 0 /\ e.status = "none"
  BY DEF Record, NoRecord

(* Reclaim keeps the id, the fingerprint and the response.                   *)
LEMMA ReclaimEffect ==
    ASSUME NEW e \in Record, e # NoRecord, NEW l \in 0..MaxTime, NEW x \in 0..MaxTime
    PROVE  /\ Reclaim(e, l, x) \in Record
           /\ Reclaim(e, l, x).id = e.id /\ Reclaim(e, l, x).fp = e.fp
           /\ Reclaim(e, l, x).status = "processing"
           /\ Reclaim(e, l, x).locked = l /\ Reclaim(e, l, x).expires = x
  BY DEF Record, Reclaim, RecordStatus

(* MarkSucceeded writes to the row of that id only.                          *)
LEMMA SucceededEffect ==
    ASSUME NEW e \in Record, NEW id \in Nat \ {0},
           NEW b \in Body, NEW x \in 0..MaxTime
    PROVE  LET s == MarkSucceeded(e, id, b, x)
           IN  /\ e.id # id => s = e
               /\ s \in Record /\ s.id = e.id /\ s.fp = e.fp
               /\ e.id = id => s.status = "succeeded" /\ s.body = b /\ s.expires = x
<1>1. CASE e.id # id
  BY <1>1 DEF MarkSucceeded
<1>2. CASE e.id = id
  <2>1. e # NoRecord
    BY <1>2, RecordCases
  <2>2. 0 \in 0..MaxTime
    BY IdempotencyTimeAssumption DEF MaxTime
  <2>3. MarkSucceeded(e, id, b, x) \in Record
    BY <1>2, <2>1, <2>2 DEF Record, MarkSucceeded, RecordStatus, Body
  <2> QED
    BY <1>2, <2>1, <2>3 DEF Record, MarkSucceeded
<1> QED
  BY <1>1, <1>2

(* The same of MarkFailedRetryable, which sets a lock that is the backoff.   *)
LEMMA FailedEffect ==
    ASSUME NEW e \in Record, NEW id \in Nat \ {0}, NEW l \in 0..MaxTime, NEW x \in 0..MaxTime
    PROVE  LET f == MarkFailedRetryable(e, id, l, x)
           IN  /\ e.id # id => f = e
               /\ f \in Record /\ f.id = e.id /\ f.fp = e.fp
               /\ e.id = id => f.status = "failed_retryable" /\ f.locked = l /\ f.expires = x
<1>1. CASE e.id # id
  BY <1>1 DEF MarkFailedRetryable
<1>2. CASE e.id = id
  <2>1. e # NoRecord
    BY <1>2, RecordCases
  <2>2. MarkFailedRetryable(e, id, l, x) \in Record
    BY <1>2, <2>1 DEF Record, MarkFailedRetryable, RecordStatus
  <2> QED
    BY <1>2, <2>1, <2>2 DEF Record, MarkFailedRetryable
<1> QED
  BY <1>1, <1>2

(* The times a request writes are within bounds.                             *)
LEMMA TimesType ==
    ASSUME TypeOK, NEW r \in Request
    PROVE  /\ LockedUntil(r) \in 0..MaxTime /\ ExpiresAt(r) \in 0..MaxTime
           /\ clock + Backoff \in 0..MaxTime /\ 0 \in 0..MaxTime
  BY IdempotencyTimeAssumption DEF TypeOK, LockedUntil, ExpiresAt, MaxTime

(* A reclaim that succeeds, and what its claim leaves of the row.            *)
Claims(r) ==
    /\ pc[r] \in Reclaiming /\ call[r].seen.id = rec.id /\ rec # NoRecord
    /\ rec.status = "failed_retryable" \/ pc[r] = "reclaimExpired"
    /\ rec.locked <= call[r].start
    /\ rec' \in Record /\ rec'.id = rec.id /\ rec'.fp = rec.fp
    /\ rec'.status = "processing" /\ rec'.locked = LockedUntil(r) /\ rec'.expires = ExpiresAt(r)
    /\ pc' = [pc EXCEPT ![r] = "exec"]
    /\ call' = [call EXCEPT ![r] = [call[r] EXCEPT !.id = rec.id]]
    /\ UNCHANGED <<lastId, clock, effectUntil, bounds>>

(* One that does not: somebody was faster.                                   *)
Yields(r) ==
    /\ pc[r] \in Reclaiming /\ UNCHANGED <<rec, lastId, clock, effectUntil, bounds>>
    /\ \/ pc[r] = "reclaimExpired" /\ Goto(r, "getLatest")
       \/ Return(r)

(* TryReclaim does one or the other, at both of its call sites.              *)
LEMMA ReclaimCases ==
    ASSUME TypeOK, OwnerInv, NEW r \in Request, ReclaimExpired(r) \/ ReclaimFailed(r)
    PROVE  Claims(r) \/ Yields(r)
<1>1. /\ call[r].seen.id \in Nat \ {0} /\ rec \in Record
      /\ pc[r] \in Reclaiming
  BY DEF TypeOK, OwnerInv, ReclaimExpired, ReclaimFailed, Reclaiming
<1>2. /\ LockedUntil(r) \in 0..MaxTime /\ ExpiresAt(r) \in 0..MaxTime
  BY TimesType
<1>3. CASE ReclaimExpired(r)
  <2>1. CASE CanReclaim(rec, call[r].seen.id, call[r].seen.status, call[r].start)
    <3>1. rec # NoRecord /\ rec.id = call[r].seen.id /\ rec.locked <= call[r].start
      BY <1>1, <2>1, RecordCases DEF CanReclaim
    <3>2. rec' = Reclaim(rec, LockedUntil(r), ExpiresAt(r)) /\ pc[r] = "reclaimExpired"
      BY <1>3, <2>1 DEF ReclaimExpired
    <3> QED
      BY <1>1, <1>2, <1>3, <2>1, <3>1, <3>2, ReclaimEffect DEF ReclaimExpired, Claims, GotoWith
  <2>2. CASE ~CanReclaim(rec, call[r].seen.id, call[r].seen.status, call[r].start)
    BY <1>1, <1>3, <2>2 DEF ReclaimExpired, Yields
  <2> QED
    BY <2>1, <2>2
<1>4. CASE ReclaimFailed(r)
  <2>1. CASE CanReclaim(rec, call[r].seen.id, "failed_retryable", call[r].start)
    <3>1. /\ rec # NoRecord /\ rec.id = call[r].seen.id /\ rec.locked <= call[r].start
          /\ rec.status = "failed_retryable"
      BY <1>1, <2>1, RecordCases DEF CanReclaim
    <3>2. rec' = Reclaim(rec, LockedUntil(r), ExpiresAt(r))
      BY <1>4, <2>1 DEF ReclaimFailed
    <3> QED
      BY <1>1, <1>2, <1>4, <2>1, <3>1, <3>2, ReclaimEffect DEF ReclaimFailed, Claims, GotoWith
  <2>2. CASE ~CanReclaim(rec, call[r].seen.id, "failed_retryable", call[r].start)
    BY <1>1, <1>4, <2>2 DEF ReclaimFailed, Yields
  <2> QED
    BY <2>1, <2>2
<1> QED
  BY <1>3, <1>4

(* The last statement of a request writes to its own row, or to none.        *)
Stores(r) ==
    /\ pc[r] \in {"succeeded", "failed"} /\ Return(r)
    /\ rec' \in Record /\ rec'.id = rec.id /\ rec'.fp = rec.fp
    /\ rec.id # call[r].id => rec' = rec
    /\ rec.id = call[r].id =>
          /\ rec'.expires = ExpiresAt(r)
          /\ \/ rec'.status = "succeeded" /\ rec'.body \in {call[r].fp, "truncated"}
             \/ rec'.status = "failed_retryable" /\ rec'.locked = clock + Backoff
    /\ UNCHANGED <<lastId, clock, effectUntil, bounds>>

(* Both ways to finish an execution write to the row of its own id only.     *)
LEMMA StoreCases ==
    ASSUME TypeOK, OwnerInv, NEW r \in Request, StoreResponse(r) \/ StoreFailure(r)
    PROVE  Stores(r)
<1>1. /\ pc[r] \in {"succeeded", "failed"}
      /\ call[r].id \in Nat \ {0} /\ call[r].fp \in Payload /\ rec \in Record
  BY DEF TypeOK, OwnerInv, StoreResponse, StoreFailure, Holding
<1>2. /\ ExpiresAt(r) \in 0..MaxTime /\ clock + Backoff \in 0..MaxTime
  BY TimesType
<1>3. CASE StoreResponse(r)
  <2>1. PICK body \in {call[r].fp, "truncated"} :
           rec' = MarkSucceeded(rec, call[r].id, body, ExpiresAt(r))
    BY <1>3 DEF StoreResponse
  <2>2. body \in Body
    BY <1>1, <2>1 DEF Body
  <2>3. /\ rec.id # call[r].id => rec' = rec
        /\ rec' \in Record /\ rec'.id = rec.id /\ rec'.fp = rec.fp
        /\ rec.id = call[r].id =>
              rec'.status = "succeeded" /\ rec'.body = body /\ rec'.expires = ExpiresAt(r)
    BY <1>1, <1>2, <2>1, <2>2, SucceededEffect
  <2> QED
    BY <1>1, <1>3, <2>1, <2>3 DEF StoreResponse, Stores
<1>4. CASE StoreFailure(r)
  <2>1. rec' = MarkFailedRetryable(rec, call[r].id, clock + Backoff, ExpiresAt(r))
    BY <1>4 DEF StoreFailure
  <2> QED
    BY <1>1, <1>2, <1>4, <2>1, FailedEffect DEF StoreFailure, Stores
<1> QED
  BY <1>3, <1>4

-----------------------------------------------------------------------------
(* Every step keeps the types.                                               *)
LEMMA TypeStep ==
    ASSUME TypeOK, OwnerInv, [Next]_vars
    PROVE  TypeOK'
<1> USE IdempotencyTimeAssumption, IdempotencyBoundAssumption
    DEF TypeOK, Record, NoRecord, RecordStatus, OwnerInv, MaxTime, Label, Claiming,
        Reclaiming, Holding, LockedUntil, ExpiresAt, Goto, GotoWith, Return, NoCall,
        bounds, vars
<1>1. CASE CleanupOnce
  BY <1>1 DEF CleanupOnce, DeleteExpired
<1>2. CASE Tick
  BY <1>2 DEF Tick
<1>3. ASSUME NEW r \in Request, Step(r)
      PROVE  TypeOK'
  <2>1. CASE Begin(r)
    BY <2>1 DEF Begin
  <2>2. CASE Create(r)
    BY <2>2 DEF Create, CreateProcessing
  <2>3. CASE GetExisting(r)
    BY <2>3 DEF GetExisting, Refused, Dispatch, Decodable
  <2>4. CASE ReclaimExpired(r)
    <3>1. CASE Claims(r)
      BY <2>4, <3>1, TimesType DEF Claims
    <3>2. CASE Yields(r)
      BY <2>4, <3>2 DEF Yields
    <3> QED
      BY <2>4, <3>1, <3>2, ReclaimCases
  <2>5. CASE GetLatest(r)
    BY <2>5 DEF GetLatest, Refused, Dispatch, Decodable
  <2>6. CASE ReclaimFailed(r)
    <3>1. CASE Claims(r)
      BY <2>6, <3>1, TimesType DEF Claims
    <3>2. CASE Yields(r)
      BY <2>6, <3>2 DEF Yields
    <3> QED
      BY <2>6, <3>1, <3>2, ReclaimCases
  <2>7. CASE ExecuteOperation(r)
    BY <2>7 DEF ExecuteOperation
  <2>8. CASE StoreResponse(r)
    <3>1. Stores(r)
      BY <2>8, StoreCases
    <3> QED
      BY <3>1 DEF Stores
  <2>9. CASE StoreFailure(r)
    <3>1. Stores(r)
      BY <2>9, StoreCases
    <3> QED
      BY <3>1 DEF Stores
  <2>10. CASE Replay(r)
    BY <2>10 DEF Replay
  <2>11. CASE StepFails(r)
    BY <2>11 DEF StepFails, Fault
  <2>12. CASE Crash(r)
    BY <2>12 DEF Crash
  <2> QED
    BY <1>3, <2>1, <2>2, <2>3, <2>4, <2>5, <2>6, <2>7, <2>8, <2>9, <2>10, <2>11, <2>12
       DEF Step
<1>4. CASE UNCHANGED vars
  BY <1>4
<1> QED
  BY <1>1, <1>2, <1>3, <1>4 DEF Next

(* Every step keeps rows and requests with their payloads.                   *)
LEMMA OwnerStep ==
    ASSUME TypeOK, OwnerInv, [Next]_vars
    PROVE  OwnerInv'
<1> USE
    DEF TypeOK, Record, NoRecord, RecordStatus, OwnerInv, Reclaiming, Holding, Goto,
        GotoWith, Return, NoCall, bounds, vars
<1>1. CASE CleanupOnce
  BY <1>1 DEF CleanupOnce, DeleteExpired
<1>2. CASE Tick
  BY <1>2 DEF Tick
<1>3. ASSUME NEW r \in Request, Step(r)
      PROVE  OwnerInv'
  <2>1. CASE Begin(r)
    BY <2>1 DEF Begin
  <2>2. CASE Create(r)
    BY <2>2 DEF Create, CreateProcessing
  <2>3. CASE GetExisting(r)
    BY <2>3 DEF GetExisting, Refused, Dispatch, Decodable
  <2>4. CASE ReclaimExpired(r)
    <3>1. CASE Claims(r)
      BY <2>4, <3>1 DEF Claims
    <3>2. CASE Yields(r)
      BY <2>4, <3>2 DEF Yields
    <3> QED
      BY <2>4, <3>1, <3>2, ReclaimCases
  <2>5. CASE GetLatest(r)
    BY <2>5 DEF GetLatest, Refused, Dispatch, Decodable
  <2>6. CASE ReclaimFailed(r)
    <3>1. CASE Claims(r)
      BY <2>6, <3>1 DEF Claims
    <3>2. CASE Yields(r)
      BY <2>6, <3>2 DEF Yields
    <3> QED
      BY <2>6, <3>1, <3>2, ReclaimCases
  <2>7. CASE ExecuteOperation(r)
    BY <2>7 DEF ExecuteOperation
  <2>8. CASE StoreResponse(r)
    <3>1. Stores(r)
      BY <2>8, StoreCases
    <3> QED
      BY <3>1 DEF Stores
  <2>9. CASE StoreFailure(r)
    <3>1. Stores(r)
      BY <2>9, StoreCases
    <3> QED
      BY <3>1 DEF Stores
  <2>10. CASE Replay(r)
    BY <2>10 DEF Replay
  <2>11. CASE StepFails(r)
    BY <2>11 DEF StepFails, Fault
  <2>12. CASE Crash(r)
    BY <2>12 DEF Crash
  <2> QED
    BY <1>3, <2>1, <2>2, <2>3, <2>4, <2>5, <2>6, <2>7, <2>8, <2>9, <2>10, <2>11, <2>12
       DEF Step
<1>4. CASE UNCHANGED vars
  BY <1>4
<1> QED
  BY <1>1, <1>2, <1>3, <1>4 DEF Next

(* Every step keeps the requests within their times.                         *)
LEMMA ClockStep ==
    ASSUME TypeOK, ClockInv, [Next]_vars
    PROVE  ClockInv'
<1> USE IdempotencyTimeAssumption, IdempotencyBoundAssumption
    DEF TypeOK, ClockInv, Claiming, Goto, GotoWith, Return, NoCall, bounds, vars
<1>1. CASE CleanupOnce
  BY <1>1 DEF CleanupOnce, DeleteExpired
<1>2. CASE Tick
  BY <1>2 DEF Tick
<1>3. ASSUME NEW r \in Request, Step(r)
      PROVE  ClockInv'
  <2>1. CASE Begin(r)
    BY <2>1 DEF Begin
  <2>2. CASE Create(r)
    BY <2>2 DEF Create, CreateProcessing
  <2>3. CASE GetExisting(r)
    BY <2>3 DEF GetExisting, Refused, Dispatch, Decodable
  <2>4. CASE ReclaimExpired(r)
    BY <2>4 DEF ReclaimExpired, CanReclaim, Reclaim
  <2>5. CASE GetLatest(r)
    BY <2>5 DEF GetLatest, Refused, Dispatch, Decodable
  <2>6. CASE ReclaimFailed(r)
    BY <2>6 DEF ReclaimFailed, CanReclaim, Reclaim
  <2>7. CASE ExecuteOperation(r)
    BY <2>7 DEF ExecuteOperation
  <2>8. CASE StoreResponse(r)
    BY <2>8 DEF StoreResponse, MarkSucceeded
  <2>9. CASE StoreFailure(r)
    BY <2>9 DEF StoreFailure, MarkFailedRetryable
  <2>10. CASE Replay(r)
    BY <2>10 DEF Replay
  <2>11. CASE StepFails(r)
    BY <2>11 DEF StepFails, Fault
  <2>12. CASE Crash(r)
    BY <2>12 DEF Crash
  <2> QED
    BY <1>3, <2>1, <2>2, <2>3, <2>4, <2>5, <2>6, <2>7, <2>8, <2>9, <2>10, <2>11, <2>12
       DEF Step
<1>4. CASE UNCHANGED vars
  BY <1>4
<1> QED
  BY <1>1, <1>2, <1>3, <1>4 DEF Next

(* Every step keeps the row with its holder.                                 *)
LEMMA HoldStep ==
    ASSUME TypeOK, OwnerInv, ClockInv, HoldInv, [Next]_vars
    PROVE  HoldInv'
<1> USE IdempotencyTimeAssumption, IdempotencyBoundAssumption, RequestTimeAssumption
    DEF TypeOK, Record, NoRecord, RecordStatus, OwnerInv, ClockInv, HoldInv, Claiming,
        Reclaiming, Holding, LockedUntil, ExpiresAt, Goto, GotoWith, Return, NoCall,
        bounds, vars
<1>1. CASE CleanupOnce
  BY <1>1 DEF CleanupOnce, DeleteExpired
<1>2. CASE Tick
  BY <1>2 DEF Tick
<1>3. ASSUME NEW r \in Request, Step(r)
      PROVE  HoldInv'
  <2>1. CASE Begin(r)
    BY <2>1 DEF Begin
  <2>2. CASE Create(r)
    BY <2>2 DEF Create, CreateProcessing
  <2>3. CASE GetExisting(r)
    BY <2>3 DEF GetExisting, Refused, Dispatch, Decodable
  <2>4. CASE ReclaimExpired(r)
    <3>1. CASE Claims(r)
      BY <2>4, <3>1 DEF Claims
    <3>2. CASE Yields(r)
      BY <2>4, <3>2 DEF Yields
    <3> QED
      BY <2>4, <3>1, <3>2, ReclaimCases
  <2>5. CASE GetLatest(r)
    BY <2>5 DEF GetLatest, Refused, Dispatch, Decodable
  <2>6. CASE ReclaimFailed(r)
    <3>1. CASE Claims(r)
      BY <2>6, <3>1 DEF Claims
    <3>2. CASE Yields(r)
      BY <2>6, <3>2 DEF Yields
    <3> QED
      BY <2>6, <3>1, <3>2, ReclaimCases
  <2>7. CASE ExecuteOperation(r)
    BY <2>7 DEF ExecuteOperation
  <2>8. CASE StoreResponse(r)
    <3>1. Stores(r)
      BY <2>8, StoreCases
    <3> QED
      BY <3>1 DEF Stores
  <2>9. CASE StoreFailure(r)
    <3>1. Stores(r)
      BY <2>9, StoreCases
    <3> QED
      BY <3>1 DEF Stores
  <2>10. CASE Replay(r)
    BY <2>10 DEF Replay
  <2>11. CASE StepFails(r)
    BY <2>11 DEF StepFails, Fault
  <2>12. CASE Crash(r)
    BY <2>12 DEF Crash
  <2> QED
    BY <1>3, <2>1, <2>2, <2>3, <2>4, <2>5, <2>6, <2>7, <2>8, <2>9, <2>10, <2>11, <2>12
       DEF Step
<1>4. CASE UNCHANGED vars
  BY <1>4
<1> QED
  BY <1>1, <1>2, <1>3, <1>4 DEF Next

(* Every step keeps the success a retry has met.                             *)
LEMMA RetryStep ==
    ASSUME IInv, [Next]_vars
    PROVE  RetryInv'
<1> USE IdempotencyTimeAssumption, IdempotencyBoundAssumption, RequestTimeAssumption
    DEF IInv, TypeOK, Record, NoRecord, RecordStatus, ClockInv, HoldInv, RetryInv,
        Claiming, Holding, LockedUntil, ExpiresAt, Goto, GotoWith, Return, NoCall,
        bounds, vars
<1>1. CASE CleanupOnce
  BY <1>1 DEF CleanupOnce, DeleteExpired
<1>2. CASE Tick
  BY <1>2 DEF Tick
<1>3. ASSUME NEW r \in Request, Step(r)
      PROVE  RetryInv'
  <2>1. CASE Begin(r)
    BY <2>1 DEF Begin
  <2>2. CASE Create(r)
    BY <2>2 DEF Create, CreateProcessing
  <2>3. CASE GetExisting(r)
    BY <2>3 DEF GetExisting, Refused, Dispatch, Decodable
  <2>4. CASE ReclaimExpired(r)
    <3>1. CASE Claims(r)
      BY <2>4, <3>1 DEF Claims
    <3>2. CASE Yields(r)
      BY <2>4, <3>2 DEF Yields
    <3> QED
      BY <2>4, <3>1, <3>2, ReclaimCases
  <2>5. CASE GetLatest(r)
    BY <2>5 DEF GetLatest, Refused, Dispatch, Decodable
  <2>6. CASE ReclaimFailed(r)
    <3>1. CASE Claims(r)
      BY <2>6, <3>1 DEF Claims
    <3>2. CASE Yields(r)
      BY <2>6, <3>2 DEF Yields
    <3> QED
      BY <2>6, <3>1, <3>2, ReclaimCases
  <2>7. CASE ExecuteOperation(r)
    BY <2>7 DEF ExecuteOperation
  <2>8. CASE StoreResponse(r)
    <3>1. Stores(r)
      BY <2>8, StoreCases
    <3> QED
      BY <3>1 DEF Stores
  <2>9. CASE StoreFailure(r)
    <3>1. Stores(r)
      BY <2>9, StoreCases
    <3> QED
      BY <3>1 DEF Stores
  <2>10. CASE Replay(r)
    BY <2>10 DEF Replay
  <2>11. CASE StepFails(r)
    BY <2>11 DEF StepFails, Fault
  <2>12. CASE Crash(r)
    BY <2>12 DEF Crash
  <2> QED
    BY <1>3, <2>1, <2>2, <2>3, <2>4, <2>5, <2>6, <2>7, <2>8, <2>9, <2>10, <2>11, <2>12
       DEF Step
<1>4. CASE UNCHANGED vars
  BY <1>4
<1> QED
  BY <1>1, <1>2, <1>3, <1>4 DEF Next

-----------------------------------------------------------------------------
(* Every behaviour keeps rows with their owners and holders.                 *)
THEOREM InductiveInvariant == Spec => []IInv
<1>1. Init => IInv
  <2> SUFFICES ASSUME Init
               PROVE  IInv
    OBVIOUS
  <2>1. TypeOK
    BY IdempotencyTimeAssumption, IdempotencyBoundAssumption
       DEF Init, TypeOK, Record, Label, MaxTime, NoCall
  <2>2. OwnerInv
    BY DEF Init, OwnerInv, NoRecord, Reclaiming, Holding
  <2>3. ClockInv /\ HoldInv /\ RetryInv
    BY DEF Init, ClockInv, HoldInv, RetryInv, Claiming, Holding, NoCall
  <2> QED
    BY <2>1, <2>2, <2>3 DEF IInv
<1>2. IInv /\ [Next]_vars => IInv'
  BY TypeStep, OwnerStep, ClockStep, HoldStep, RetryStep DEF IInv
<1> QED
  BY <1>1, <1>2, PTL DEF Spec

(* The variables of IdempotencyCoordinator keep their types.                 *)
THEOREM TypeCorrect == Spec => []TypeOK
  BY InductiveInvariant, PTL DEF IInv

(* Whatever Execute replays is the stored response to the request's own      *)
(* payload: a row never changes its fingerprint, and an id never returns.    *)
THEOREM ReplayIsOwn == Spec => []ReplayIsOwnResponse
<1>1. IInv => ReplayIsOwnResponse
  BY DEF IInv, OwnerInv, ReplayIsOwnResponse
<1> QED
  BY <1>1, InductiveInvariant, PTL

(* CreateProcessing and TryReclaim give the row to one request at a time, as *)
(* long as a claim is faster than the processing timeout and an operation    *)
(* shorter than the life of a record.                                        *)
THEOREM ExecutionsExclude == Spec => []OneExecutionAtATime
<1>1. IInv => OneExecutionAtATime
  <2> SUFFICES ASSUME IInv
               PROVE  Cardinality({r \in Request : pc[r] = "exec"}) <= 1
    BY DEF OneExecutionAtATime
  <2> DEFINE Running == {r \in Request : pc[r] = "exec"}
  <2>1. \A r, s \in Running : r = s
    BY DEF IInv, HoldInv, Holding
  <2>2. CASE Running = {}
    BY <2>2, FS_EmptySet
  <2>3. ASSUME NEW r \in Running
        PROVE  Cardinality(Running) <= 1
    <3>1. Running = {r}
      BY <2>1
    <3>2. Cardinality({r}) = 1
      BY FS_Singleton
    <3> QED
      BY <3>1, <3>2
  <2> QED
    BY <2>2, <2>3
<1> QED
  BY <1>1, InductiveInvariant, PTL

(* A retry that has met a success does not run the operation while that      *)
(* success is valid, even when an older request takes the row over.          *)
THEOREM RetryIsSafe == Spec => RetryDoesNotRepeat
<1> DEFINE Safe == \A r \in Request : pc[r] # "exec" /\ pc'[r] = "exec" => call[r].until <= clock
<1>1. IInv /\ [Next]_vars => [Safe]_vars
  <2> SUFFICES ASSUME IInv, Next, NEW r \in Request, pc[r] # "exec", pc'[r] = "exec"
               PROVE  call[r].until <= clock
    OBVIOUS
  <2>1. call[r].until \in Nat /\ clock \in Nat
    BY IdempotencyTimeAssumption DEF IInv, TypeOK, MaxTime
  <2>2. ASSUME pc[r] \in Claiming, rec # NoRecord => pc[r] \notin {"create", "get"}
        PROVE  call[r].until <= clock
    BY <2>1, <2>2 DEF IInv, RetryInv
  <2>3. ASSUME NEW s \in Request, Step(s)
        PROVE  call[r].until <= clock
    <3>1. s = r
      BY <2>3 DEF IInv, TypeOK, Step, Begin, Create, GetExisting, ReclaimExpired, GetLatest,
                  ReclaimFailed, ExecuteOperation, StoreResponse, StoreFailure, Replay,
                  StepFails, Crash, Dispatch, Goto, GotoWith, Return
    <3>2. \/ Create(r) /\ rec = NoRecord
          \/ ReclaimExpired(r)
          \/ ReclaimFailed(r)
      BY <2>3, <3>1
         DEF IInv, TypeOK, Step, Begin, Create, CreateProcessing, GetExisting, GetLatest,
             ExecuteOperation, StoreResponse, StoreFailure, Replay, StepFails, Crash,
             Dispatch, Goto, GotoWith, Return
    <3> QED
      BY <2>2, <3>2 DEF Create, ReclaimExpired, ReclaimFailed, Claiming
  <2> QED
    BY <2>3 DEF Next, CleanupOnce, Tick
<1> QED
  BY <1>1, InductiveInvariant, PTL DEF Spec, RetryDoesNotRepeat

=============================================================================
