------------------------ MODULE SystemOperationLock ------------------------
(* The lock that keeps system operations (update, rollback, restart) apart:  *)
(* backend/internal/service/system_operation_lock_service.go, used by        *)
(* handler/admin/system_handler.go.  The lock is one idempotency record with *)
(* a lease that a goroutine of the holder renews.  Every operation has an id *)
(* of its own, which is the fingerprint of its record.                       *)
EXTENDS IdempotencyStore, FiniteSets

CONSTANTS
    Op,             \* the operations; each is started at most once
    Lease,          \* cfg.ProcessingTimeout
    RenewInterval,  \* a third of the lease
    TTL,            \* cfg.SystemOperationTTL
    MaxClaim,       \* bound: time from the start of Acquire to its claim
    MaxRun,         \* bound: time an operation takes
    MaxClock,       \* bound: time
    MaxFaults,      \* bound: failed database calls
    MaxCrashes      \* bound: processes that die while they hold the lock

ASSUME LeaseAssumption ==
    /\ Lease \in Nat \ {0} /\ RenewInterval \in Nat \ {0} /\ TTL \in Nat
    /\ RenewInterval < Lease /\ Lease <= TTL
ASSUME LockBoundAssumption ==
    /\ MaxClaim \in Nat /\ MaxRun \in Nat /\ MaxClock \in Nat
    /\ MaxFaults \in Nat /\ MaxCrashes \in Nat
(* The renewals that may fail, and a slow claim, fit into one lease: with a  *)
(* third of the lease between two renewals, one failure and a claim within   *)
(* the remaining third.                                                      *)
ASSUME RenewalAssumption == (MaxFaults + 1) * RenewInterval + MaxClaim < Lease

VARIABLES
    rec, lastId,    \* the row, and the sequence behind its id
    clock,
    pc,             \* per operation: the next step
    start,          \* per operation: now in Acquire
    seen,           \* per operation: existing, then the row of its lock
    created,        \* per operation: it inserted the row it holds
    renewAt,        \* per operation: next tick of renewLoop, 0 when it has ended
    faults, crashes

bounds == <<faults, crashes>>
vars == <<rec, lastId, clock, pc, start, seen, created, renewAt, bounds>>

Claiming == {"create", "get", "reclaim"}
Label == Claiming \union {"new", "running", "done"}
Record ==
    [id : Nat \ {0}, fp : Op, status : RecordStatus, locked : Nat, expires : Nat,
     body : Op \union {"none"}] \union {NoRecord}

TypeOK ==
    /\ rec \in Record /\ lastId \in Nat /\ clock \in 0..MaxClock
    /\ pc \in [Op -> Label] /\ start \in [Op -> 0..MaxClock] /\ seen \in [Op -> Record]
    /\ created \in [Op -> BOOLEAN] /\ renewAt \in [Op -> 0..MaxClock + RenewInterval]
    /\ faults \in 0..MaxFaults /\ crashes \in 0..MaxCrashes

Init ==
    /\ rec = NoRecord /\ lastId = 0 /\ clock = 0
    /\ pc = [o \in Op |-> "new"] /\ start = [o \in Op |-> 0]
    /\ seen = [o \in Op |-> NoRecord] /\ created = [o \in Op |-> FALSE]
    /\ renewAt = [o \in Op |-> 0]
    /\ faults = 0 /\ crashes = 0

-----------------------------------------------------------------------------
Fault == faults < MaxFaults /\ faults' = faults + 1 /\ UNCHANGED crashes
Goto(o, label) == pc' = [pc EXCEPT ![o] = label]

(* The end of Acquire: the operation runs and its renewLoop starts.          *)
Hold(o, row, fresh) ==
    /\ Goto(o, "running")
    /\ rec' = row /\ seen' = [seen EXCEPT ![o] = row]
    /\ created' = [created EXCEPT ![o] = fresh]
    /\ renewAt' = [renewAt EXCEPT ![o] = clock + RenewInterval]

Acquire(o) ==
    /\ pc[o] = "new" /\ Goto(o, "create") /\ start' = [start EXCEPT ![o] = clock]
    /\ UNCHANGED <<rec, lastId, clock, seen, created, renewAt, bounds>>

Create(o) ==
    /\ pc[o] = "create"
    /\ LET row == CreateProcessing(rec, lastId + 1, o, start[o] + Lease, start[o] + TTL)
       IN  IF row # rec
           THEN Hold(o, row, TRUE) /\ lastId' = lastId + 1
           ELSE Goto(o, "get") /\ UNCHANGED <<rec, lastId, seen, created, renewAt>>
    /\ UNCHANGED <<clock, start, bounds>>

(* Busy, if the row is held and its lease runs; the row may also be gone.    *)
GetExisting(o) ==
    /\ pc[o] = "get"
    /\ IF rec = NoRecord \/ (rec.status = "processing" /\ rec.locked > start[o])
       THEN Goto(o, "done") /\ UNCHANGED seen
       ELSE Goto(o, "reclaim") /\ seen' = [seen EXCEPT ![o] = rec]
    /\ UNCHANGED <<rec, lastId, clock, start, created, renewAt, bounds>>

TryReclaim(o) ==
    /\ pc[o] = "reclaim"
    /\ IF CanReclaim(rec, seen[o].id, seen[o].status, start[o])
       THEN Hold(o, Reclaim(rec, start[o] + Lease, start[o] + TTL), FALSE)
       ELSE Goto(o, "done") /\ UNCHANGED <<rec, seen, created, renewAt>>
    /\ UNCHANGED <<lastId, clock, start, bounds>>

(* A tick of renewLoop: an error is retried at the next tick; a row that is  *)
(* not the operation's any more ends the loop, but not the operation.        *)
Renew_endsOnError(o) ==
    /\ pc[o] = "running" /\ renewAt[o] # 0 /\ clock >= renewAt[o]
    /\ \/ /\ CanExtend(rec, seen[o].id, o) /\ UNCHANGED bounds
          /\ rec' = Extend(rec, clock + Lease, clock + TTL)
          /\ renewAt' = [renewAt EXCEPT ![o] = clock + RenewInterval]
       \/ ~CanExtend(rec, seen[o].id, o) /\ UNCHANGED <<rec, bounds>>
          /\ renewAt' = [renewAt EXCEPT ![o] = 0]
       \/ Fault /\ UNCHANGED rec /\ renewAt' = [renewAt EXCEPT ![o] = 0]
    /\ UNCHANGED <<lastId, clock, pc, start, seen, created>>

Renew(o) ==
    /\ pc[o] = "running" /\ renewAt[o] # 0 /\ clock >= renewAt[o]
    /\ \/ /\ CanExtend(rec, seen[o].id, o) /\ UNCHANGED bounds
          /\ rec' = Extend(rec, clock + Lease, clock + TTL)
          /\ renewAt' = [renewAt EXCEPT ![o] = clock + RenewInterval]
       \/ ~CanExtend(rec, seen[o].id, o) /\ UNCHANGED <<rec, bounds>>
          /\ renewAt' = [renewAt EXCEPT ![o] = 0]
       \/ Fault /\ UNCHANGED rec /\ renewAt' = [renewAt EXCEPT ![o] = clock + RenewInterval]
    /\ UNCHANGED <<lastId, clock, pc, start, seen, created>>

(* Release: ends renewLoop and marks the row; an error is ignored.           *)
Release(o) ==
    /\ pc[o] = "running" /\ Goto(o, "done") /\ renewAt' = [renewAt EXCEPT ![o] = 0]
    /\ \/ rec' = MarkSucceeded(rec, seen[o].id, o, clock + TTL) /\ UNCHANGED bounds
       \/ rec' = MarkFailedRetryable(rec, seen[o].id, clock, clock + TTL) /\ UNCHANGED bounds
       \/ UNCHANGED rec /\ Fault
    /\ UNCHANGED <<lastId, clock, start, seen, created>>

(* A statement of Acquire fails: the operation is refused.                   *)
AcquireFails(o) ==
    /\ pc[o] \in Claiming /\ Goto(o, "done") /\ Fault
    /\ UNCHANGED <<rec, lastId, clock, start, seen, created, renewAt>>

Crash(o) ==
    /\ pc[o] = "running" /\ crashes < MaxCrashes /\ crashes' = crashes + 1
    /\ Goto(o, "done") /\ renewAt' = [renewAt EXCEPT ![o] = 0]
    /\ UNCHANGED <<rec, lastId, clock, start, seen, created, faults>>

(* IdempotencyCleanupService.cleanupOnce.                                    *)
CleanupOnce ==
    /\ rec # NoRecord /\ rec.expires <= clock /\ rec' = DeleteExpired(rec, clock)
    /\ UNCHANGED <<lastId, clock, pc, start, seen, created, renewAt, bounds>>

(* Time passes; renewals are on time, and nobody takes longer than his bound.*)
Tick ==
    /\ clock < MaxClock /\ clock' = clock + 1
    /\ \A o \in Op :
          /\ renewAt[o] # 0 => clock < renewAt[o]
          /\ pc[o] \in Claiming => clock < start[o] + MaxClaim
          /\ pc[o] = "running" => clock < start[o] + MaxRun
    /\ UNCHANGED <<rec, lastId, pc, start, seen, created, renewAt, bounds>>

Step(o) ==
    \/ Acquire(o) \/ Create(o) \/ GetExisting(o) \/ TryReclaim(o) \/ Renew(o)
    \/ Release(o) \/ AcquireFails(o) \/ Crash(o)

Next == CleanupOnce \/ Tick \/ \E o \in Op : Step(o)

Spec == Init /\ [][Next]_vars

-----------------------------------------------------------------------------
(* ErrSystemOperationBusy, "another system operation is in progress": no two *)
(* operations run at the same time.                                          *)
OneSystemOperation == Cardinality({o \in Op : pc[o] = "running"}) <= 1

(* system_operation_lock_service_test.go: "locked_until should be renewed    *)
(* while lock is held".  An operation that runs on a row it inserted keeps   *)
(* the lock through renewals, transient errors, the cleanup and other        *)
(* operations' attempts, however long it takes.                              *)
FreshLockIsKept ==
    \A o \in Op : pc[o] = "running" /\ created[o] =>
        rec.id = seen[o].id /\ rec.status = "processing" /\ rec.locked > clock

(* Nobody joins an operation that runs on a row it inserted: Acquire refuses *)
(* with ErrSystemOperationBusy from the first statement to Release, whatever *)
(* rows the newcomer has read before (GetExisting and TryReclaim are two     *)
(* statements).                                                              *)
FreshHolderIsAlone ==
    [][\A o \in Op : pc[o] # "running" /\ pc'[o] = "running"
          => ~\E p \in Op \ {o} : pc[p] = "running" /\ created[p]]_vars
=============================================================================
