----------------------- MODULE IdempotencyCoordinator -----------------------
(* Execute of backend/internal/service/idempotency.go for the requests that  *)
(* carry one idempotency key: each is a goroutine of some server instance    *)
(* that talks to the row through the statements of IdempotencyStore.         *)
EXTENDS IdempotencyStore, FiniteSets

CONSTANTS
    Request,            \* goroutines that may run a request with this key
    Payload,            \* request fingerprints
    TTL,                \* life of a record (DefaultTTL, SystemOperationTTL)
    ProcessingTimeout,  \* cfg.ProcessingTimeout
    Backoff,            \* cfg.FailedRetryBackoff
    MaxClaim,           \* bound: time from the start of a request to its claim
    MaxRun,             \* bound: time from the start of a request to its end
    MaxClock,           \* bound: time
    MaxFaults,          \* bound: failed database calls
    MaxCrashes          \* bound: goroutines that die between two steps

ASSUME IdempotencyTimeAssumption ==
    /\ TTL \in Nat \ {0} /\ ProcessingTimeout \in Nat \ {0} /\ Backoff \in Nat \ {0}
    /\ MaxClaim \in Nat /\ MaxRun \in Nat /\ MaxClock \in Nat
(* The claim takes a few statements and the operation is one request; a      *)
(* record lives for a day, and the processing timeout is half a minute.      *)
ASSUME RequestTimeAssumption ==
    MaxClaim < ProcessingTimeout /\ 2 * MaxClaim < TTL /\ MaxRun < TTL
ASSUME IdempotencyBoundAssumption == MaxFaults \in Nat /\ MaxCrashes \in Nat

VARIABLES
    rec,         \* the row, or NoRecord
    lastId,      \* the sequence behind idempotency_records.id
    clock,
    pc, call,    \* per request: the next step, and what Execute holds in variables
    effectUntil, \* expires_at of the last execution that took effect, 0 if none
    faults, crashes

bounds == <<faults, crashes>>
vars == <<rec, lastId, clock, pc, call, effectUntil, bounds>>

Claiming == {"create", "get", "reclaimExpired", "getLatest", "reclaimFailed"}
Label == Claiming \union {"idle", "exec", "succeeded", "failed", "replayed"}
MaxTime == MaxClock + TTL + ProcessingTimeout + Backoff
Record ==
    [id : Nat \ {0}, fp : Payload, status : RecordStatus, locked : 0..MaxTime,
     expires : 0..MaxTime, body : Payload \union {"none", "truncated"}] \union {NoRecord}

(* fp: fingerprint; start: now; id: record.ID; seen: existing; until: a       *)
(* history of the model, the end of the success the row held on arrival.     *)
NoCall == [fp |-> "none", start |-> 0, id |-> 0, seen |-> NoRecord, until |-> 0]

TypeOK ==
    /\ rec \in Record /\ lastId \in Nat /\ clock \in 0..MaxClock
    /\ pc \in [Request -> Label]
    /\ call \in [Request -> [fp : Payload \union {"none"}, start : 0..MaxClock, id : Nat,
                             seen : Record, until : 0..MaxTime]]
    /\ effectUntil \in 0..MaxTime
    /\ faults \in 0..MaxFaults /\ crashes \in 0..MaxCrashes

Init ==
    /\ rec = NoRecord /\ lastId = 0 /\ clock = 0 /\ effectUntil = 0
    /\ pc = [r \in Request |-> "idle"] /\ call = [r \in Request |-> NoCall]
    /\ faults = 0 /\ crashes = 0

-----------------------------------------------------------------------------
LockedUntil(r) == call[r].start + ProcessingTimeout
ExpiresAt(r) == call[r].start + TTL

Fault == faults < MaxFaults /\ faults' = faults + 1 /\ UNCHANGED crashes
Goto(r, label) == pc' = [pc EXCEPT ![r] = label] /\ UNCHANGED call
GotoWith(r, label, c) == pc' = [pc EXCEPT ![r] = label] /\ call' = [call EXCEPT ![r] = c]
Return(r) == GotoWith(r, "idle", NoCall)

(* A request, or a client's retry of one, arrives.                           *)
Begin(r) ==
    /\ pc[r] = "idle"
    /\ \E p \in Payload :
          GotoWith(r, "create", [fp |-> p, start |-> clock, id |-> 0, seen |-> NoRecord,
                                 until |-> IF rec.status = "succeeded" THEN rec.expires ELSE 0])
    /\ UNCHANGED <<rec, lastId, clock, effectUntil, bounds>>

(* repo.CreateProcessing: the request that inserts the row owns it.          *)
Create(r) ==
    /\ pc[r] = "create"
    /\ rec' = CreateProcessing(rec, lastId + 1, call[r].fp, LockedUntil(r), ExpiresAt(r))
    /\ IF rec' # rec
       THEN lastId' = lastId + 1 /\ GotoWith(r, "exec", [call[r] EXCEPT !.id = lastId + 1])
       ELSE UNCHANGED lastId /\ Goto(r, "get")
    /\ UNCHANGED <<clock, effectUntil, bounds>>

(* The answer to a request that finds the row e and does not reclaim it as   *)
(* expired.  A stored response longer than MaxStoredResponseLen was cut and  *)
(* no longer decodes.                                                        *)
Decodable(e) == e.body # "truncated"

Dispatch(r, e) ==
    \/ e.status = "succeeded" /\ Decodable(e)
       /\ GotoWith(r, "replayed", [call[r] EXCEPT !.seen = e])
    \/ e.status = "succeeded" /\ ~Decodable(e) /\ Return(r)
    \/ e.status = "processing" /\ Return(r)
    \/ e.status = "failed_retryable" /\ e.locked > call[r].start /\ Return(r)
    \/ e.status = "failed_retryable" /\ e.locked <= call[r].start
       /\ GotoWith(r, "reclaimFailed", [call[r] EXCEPT !.seen = e])

(* The row is missing, or belongs to a request with another payload.         *)
Refused_missingOnly(r) == rec = NoRecord
Refused(r) == rec = NoRecord \/ rec.fp # call[r].fp

(* GetByScopeAndKeyHash, and the branches on what it returns.                *)
GetExisting(r) ==
    /\ pc[r] = "get"
    /\ \/ Refused(r) /\ Return(r)
       \/ ~Refused(r) /\ rec.expires <= call[r].start
          /\ GotoWith(r, "reclaimExpired", [call[r] EXCEPT !.seen = rec])
       \/ ~Refused(r) /\ rec.expires > call[r].start /\ Dispatch(r, rec)
    /\ UNCHANGED <<rec, lastId, clock, effectUntil, bounds>>

(* An expired row is taken over from the status it was read with ...         *)
ReclaimExpired(r) ==
    /\ pc[r] = "reclaimExpired"
    /\ IF CanReclaim(rec, call[r].seen.id, call[r].seen.status, call[r].start)
       THEN /\ rec' = Reclaim(rec, LockedUntil(r), ExpiresAt(r))
            /\ GotoWith(r, "exec", [call[r] EXCEPT !.id = call[r].seen.id])
       ELSE UNCHANGED rec /\ Goto(r, "getLatest")
    /\ UNCHANGED <<lastId, clock, effectUntil, bounds>>

(* ... and if somebody was faster, read again and treated like a live one.   *)
GetLatest(r) ==
    /\ pc[r] = "getLatest"
    /\ \/ Refused(r) /\ Return(r)
       \/ ~Refused(r) /\ Dispatch(r, rec)
    /\ UNCHANGED <<rec, lastId, clock, effectUntil, bounds>>

(* A failed row whose backoff is over may be tried again.                    *)
ReclaimFailed(r) ==
    /\ pc[r] = "reclaimFailed"
    /\ IF CanReclaim(rec, call[r].seen.id, "failed_retryable", call[r].start)
       THEN /\ rec' = Reclaim(rec, LockedUntil(r), ExpiresAt(r))
            /\ GotoWith(r, "exec", [call[r] EXCEPT !.id = call[r].seen.id])
       ELSE UNCHANGED rec /\ Return(r)
    /\ UNCHANGED <<lastId, clock, effectUntil, bounds>>

(* execute(ctx): the business operation, with all of its effect or none.     *)
ExecuteOperation(r) ==
    /\ pc[r] = "exec"
    /\ \/ effectUntil' = ExpiresAt(r) /\ Goto(r, "succeeded")
       \/ UNCHANGED effectUntil /\ Goto(r, "failed")
    /\ UNCHANGED <<rec, lastId, clock, bounds>>

(* marshalStoredResponse (redacts, and cuts what is too long), MarkSucceeded.*)
StoreResponse(r) ==
    /\ pc[r] = "succeeded" /\ Return(r)
    /\ \E body \in {call[r].fp, "truncated"} :
          rec' = MarkSucceeded(rec, call[r].id, body, ExpiresAt(r))
    /\ UNCHANGED <<lastId, clock, effectUntil, bounds>>

StoreFailure(r) ==
    /\ pc[r] = "failed" /\ Return(r)
    /\ rec' = MarkFailedRetryable(rec, call[r].id, clock + Backoff, ExpiresAt(r))
    /\ UNCHANGED <<lastId, clock, effectUntil, bounds>>

(* decodeStoredResponse: the stored response goes to the client.             *)
Replay(r) ==
    /\ pc[r] = "replayed" /\ Return(r)
    /\ UNCHANGED <<rec, lastId, clock, effectUntil, bounds>>

(* A statement fails without effect, and Execute returns: before the claim,  *)
(* with ErrIdempotencyStoreUnavail; after it, leaving the row in processing. *)
StepFails(r) ==
    /\ pc[r] \in Claiming \union {"succeeded", "failed"} /\ Fault /\ Return(r)
    /\ UNCHANGED <<rec, lastId, clock, effectUntil>>

Crash(r) ==
    /\ pc[r] # "idle" /\ crashes < MaxCrashes /\ crashes' = crashes + 1 /\ Return(r)
    /\ UNCHANGED <<rec, lastId, clock, effectUntil, faults>>

(* IdempotencyCleanupService.cleanupOnce.                                    *)
CleanupOnce ==
    /\ rec # NoRecord /\ rec.expires <= clock /\ rec' = DeleteExpired(rec, clock)
    /\ UNCHANGED <<lastId, clock, pc, call, effectUntil, bounds>>

(* Time passes, but no request claims or runs longer than its bound.         *)
Tick ==
    /\ clock < MaxClock /\ clock' = clock + 1
    /\ \A r \in Request :
          /\ pc[r] \in Claiming => clock < call[r].start + MaxClaim
          /\ pc[r] # "idle" => clock < call[r].start + MaxRun
    /\ UNCHANGED <<rec, lastId, pc, call, effectUntil, bounds>>

Step(r) ==
    \/ Begin(r) \/ Create(r) \/ GetExisting(r) \/ ReclaimExpired(r) \/ GetLatest(r)
    \/ ReclaimFailed(r) \/ ExecuteOperation(r) \/ StoreResponse(r) \/ StoreFailure(r)
    \/ Replay(r) \/ StepFails(r) \/ Crash(r)

Next == CleanupOnce \/ Tick \/ \E r \in Request : Step(r)

Spec == Init /\ [][Next]_vars

-----------------------------------------------------------------------------
(* Two requests with one key never run their operation at the same time,     *)
(* whatever was reclaimed, deleted or left behind by a crash (the claim by   *)
(* CreateProcessing and TryReclaim).                                         *)
OneExecutionAtATime == Cardinality({r \in Request : pc[r] = "exec"}) <= 1

(* idempotency_test.go: "concurrent same-key requests should execute         *)
(* business side-effect once".  While an effect's record has not expired, no *)
(* request with that key starts the operation again.                         *)
EffectIsNotRepeated ==
    [][\A r \in Request : pc[r] # "exec" /\ pc'[r] = "exec" => effectUntil <= clock]_vars

(* A retry that arrives while the row says succeeded never runs the operation*)
(* before that success has expired, although Execute decides from several    *)
(* statements and the row may be taken over by an older request, marked      *)
(* failed or cleaned up between them (Execute, from CreateProcessing to the  *)
(* second TryReclaim).                                                       *)
RetryDoesNotRepeat ==
    [][\A r \in Request : pc[r] # "exec" /\ pc'[r] = "exec" => call[r].until <= clock]_vars

(* A replay is the (redacted) response to the same payload, never a cut one  *)
(* or one of another request: reuse of a key, the takeover of a row and the  *)
(* limit on stored responses never hand out a foreign answer.                *)
ReplayIsOwnResponse ==
    \A r \in Request : pc[r] = "replayed" => call[r].seen.body = call[r].fp
=============================================================================
