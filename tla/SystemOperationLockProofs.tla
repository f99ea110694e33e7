---------------------- MODULE SystemOperationLockProofs ----------------------
(* Theorems about SystemOperationLock for every set of operations, every     *)
(* lease, time to live and duration of an operation, and every number of     *)
(* failed statements that the lease can absorb.                              *)
EXTENDS SystemOperationLock, TLAPS

(* The steps that act on a row read or inserted before.                      *)
Knowing == {"reclaim", "running"}

(* Ids come from a sequence and are not used again.                          *)
IdInv ==
    /\ rec.id <= lastId
    /\ \A o \in Op : pc[o] \in Knowing => seen[o].id \in 1..lastId

(* What Tick guarantees: neither claims nor renewals are late.               *)
ClockInv ==
    \A o \in Op :
        /\ start[o] <= clock
        /\ pc[o] \in Claiming => clock <= start[o] + MaxClaim
        /\ renewAt[o] # 0 => clock <= renewAt[o]

(* How far n renewals are apart.                                             *)
Delay(n) == n * RenewInterval

(* The row of an operation that inserted it: its lease ends later than the   *)
(* next renewal by what the renewals that failed and the slow claim leave of *)
(* it; the row lives as long as its lease; and nobody else knows its id.     *)
FreshInv ==
    \A o \in Op : pc[o] = "running" /\ created[o] =>
        /\ rec.id = seen[o].id /\ rec.status = "processing" /\ rec.fp = o
        /\ rec.locked <= rec.expires /\ renewAt[o] # 0
        /\ renewAt[o] + Lease <= rec.locked + Delay(faults + 1) + MaxClaim
        /\ \A p \in Op \ {o} : pc[p] \in Knowing => seen[p].id # rec.id

IInv == TypeOK /\ IdInv /\ ClockInv /\ FreshInv

-----------------------------------------------------------------------------
(* Every failure costs one more interval, and all that may happen fit into   *)
(* the lease.                                                                *)
LEMMA DelayFacts ==
    ASSUME NEW n \in 0..MaxFaults
    PROVE  /\ Delay(n + 1) \in Nat /\ RenewInterval <= Delay(n + 1)
           /\ Delay(n + 2) = Delay(n + 1) + RenewInterval
           /\ Delay(n + 1) + MaxClaim < Lease
<1> USE LeaseAssumption, LockBoundAssumption
<1>1. Delay(n + 1) = Delay(n) + RenewInterval /\ Delay(n) \in Nat
  BY DEF Delay
<1>2. Delay(n + 2) = Delay(n + 1) + RenewInterval
  BY DEF Delay
<1>3. Delay(n + 1) <= Delay(MaxFaults + 1)
  <2>1. MaxFaults + 1 = (n + 1) + (MaxFaults - n) /\ MaxFaults - n \in Nat
    OBVIOUS
  <2>2. \A d \in Nat : (n + 1) * RenewInterval <= ((n + 1) + d) * RenewInterval
    OBVIOUS
  <2> QED
    BY <2>1, <2>2 DEF Delay
<1>4. Delay(MaxFaults + 1) \in Nat /\ Delay(MaxFaults + 1) + MaxClaim < Lease
  BY RenewalAssumption DEF Delay
<1> QED
  BY <1>1, <1>2, <1>3, <1>4

(* An operation that runs on a row it inserted has time left: neither its    *)
(* lease nor its row has expired.                                            *)
LEMMA FreshHasTime ==
    ASSUME IInv, NEW o \in Op, pc[o] = "running", created[o]
    PROVE  rec # NoRecord /\ clock < rec.locked /\ clock < rec.expires
<1>1. /\ rec \in Record /\ clock \in Nat /\ renewAt[o] \in Nat /\ faults \in 0..MaxFaults
  BY LeaseAssumption, LockBoundAssumption DEF IInv, TypeOK
<1>2. /\ rec.status = "processing" /\ rec.locked <= rec.expires /\ clock <= renewAt[o]
      /\ renewAt[o] + Lease <= rec.locked + Delay(faults + 1) + MaxClaim
  BY DEF IInv, FreshInv, ClockInv
<1>3. rec # NoRecord /\ rec.locked \in Nat /\ rec.expires \in Nat
  BY <1>1, <1>2 DEF Record, NoRecord
<1> QED
  BY <1>1, <1>2, <1>3, DelayFacts, LeaseAssumption, LockBoundAssumption

-----------------------------------------------------------------------------
(* A row has a positive id and the types of its columns; no row has id 0.    *)
LEMMA RecordCases ==
    ASSUME NEW e \in Record
    PROVE  /\ e.id \in Nat /\ e.locked \in Nat /\ e.expires \in Nat
           /\ e # NoRecord => e.id # 0
           /\ e = NoRecord => e.id = 0
  BY DEF Record, NoRecord

(* CreateProcessing inserts when there is no row, and does nothing else.     *)
LEMMA CreateEffect ==
    ASSUME NEW e \in Record, NEW id \in Nat \ {0}, NEW o \in Op, NEW l \in Nat, NEW x \in Nat
    PROVE  LET c == CreateProcessing(e, id, o, l, x)
           IN  /\ c # e <=> e = NoRecord
               /\ e = NoRecord =>
                     /\ c \in Record /\ c # NoRecord /\ c.id = id /\ c.fp = o
                     /\ c.status = "processing" /\ c.locked = l /\ c.expires = x
<1>1. CASE e # NoRecord
  BY <1>1 DEF CreateProcessing
<1>2. CASE e = NoRecord
  <2>1. CreateProcessing(e, id, o, l, x) =
          [id |-> id, fp |-> o, status |-> "processing", locked |-> l, expires |-> x,
           body |-> "none"]
    BY <1>2 DEF CreateProcessing
  <2>2. CreateProcessing(e, id, o, l, x) \in Record
    BY <2>1 DEF Record, RecordStatus
  <2>3. CreateProcessing(e, id, o, l, x) # NoRecord
    BY <2>1 DEF NoRecord
  <2> QED
    BY <1>2, <2>1, <2>2, <2>3
<1> QED
  BY <1>1, <1>2

(* TryReclaim and ExtendProcessingLock keep the id and the fingerprint, and  *)
(* write a row that is being processed.                                      *)
LEMMA ClaimEffect ==
    ASSUME NEW e \in Record, e # NoRecord, NEW l \in Nat, NEW x \in Nat
    PROVE  /\ Reclaim(e, l, x) \in Record /\ Reclaim(e, l, x).id = e.id
           /\ Extend(e, l, x) \in Record /\ Extend(e, l, x).id = e.id
           /\ Extend(e, l, x).fp = e.fp /\ Extend(e, l, x).status = e.status
           /\ Extend(e, l, x).locked = l /\ Extend(e, l, x).expires = x
  BY DEF Record, Reclaim, Extend, RecordStatus

(* MarkSucceeded and MarkFailedRetryable write to the row of that id only.   *)
LEMMA MarkEffect ==
    ASSUME NEW e \in Record, NEW id \in Nat \ {0}, NEW o \in Op, NEW l \in Nat, NEW x \in Nat
    PROVE  /\ MarkSucceeded(e, id, o, x) \in Record
           /\ MarkSucceeded(e, id, o, x).id = e.id
           /\ e.id # id => MarkSucceeded(e, id, o, x) = e
           /\ MarkFailedRetryable(e, id, l, x) \in Record
           /\ MarkFailedRetryable(e, id, l, x).id = e.id
           /\ e.id # id => MarkFailedRetryable(e, id, l, x) = e
<1>1. CASE e.id # id
  BY <1>1 DEF MarkSucceeded, MarkFailedRetryable
<1>2. CASE e.id = id
  <2>1. e # NoRecord
    BY <1>2, RecordCases
  <2> QED
    BY <1>2, <2>1 DEF Record, MarkSucceeded, MarkFailedRetryable, RecordStatus
<1> QED
  BY <1>1, <1>2

(* An operation obtains the lock in one of two ways: it inserts the row, or  *)
(* it takes over one that it has read and that no holder has renewed.        *)
Inserts(o) ==
    /\ pc[o] = "create" /\ rec = NoRecord /\ lastId' = lastId + 1
    /\ rec' \in Record /\ rec' # NoRecord /\ rec'.id = lastId' /\ rec'.fp = o
    /\ rec'.status = "processing"
    /\ rec'.locked = start[o] + Lease /\ rec'.expires = start[o] + TTL
    /\ Hold(o, rec', TRUE) /\ UNCHANGED <<clock, start, bounds>>
TakesOver(o) ==
    /\ pc[o] = "reclaim" /\ rec # NoRecord /\ rec.id = seen[o].id
    /\ rec' \in Record /\ rec'.id = rec.id
    /\ Hold(o, rec', FALSE) /\ UNCHANGED <<lastId, clock, start, bounds>>
Proceeds(o, from, to) ==
    /\ pc[o] = from /\ Goto(o, to)
    /\ UNCHANGED <<rec, lastId, clock, start, seen, created, renewAt, bounds>>

(* What Acquire's INSERT does.                                               *)
LEMMA CreateCases ==
    ASSUME TypeOK, NEW o \in Op, Create(o)
    PROVE  Inserts(o) \/ Proceeds(o, "create", "get")
<1> DEFINE row == CreateProcessing(rec, lastId + 1, o, start[o] + Lease, start[o] + TTL)
<1>1. /\ rec \in Record /\ lastId \in Nat /\ lastId + 1 \in Nat \ {0}
      /\ start[o] + Lease \in Nat /\ start[o] + TTL \in Nat
  BY LeaseAssumption, LockBoundAssumption DEF TypeOK
<1>2. CASE rec = NoRecord
  <2>1. /\ row # rec /\ row \in Record /\ row # NoRecord /\ row.id = lastId + 1 /\ row.fp = o
        /\ row.status = "processing"
        /\ row.locked = start[o] + Lease /\ row.expires = start[o] + TTL
    BY <1>1, <1>2, CreateEffect
  <2>2. Hold(o, row, TRUE) /\ lastId' = lastId + 1
    BY <2>1 DEF Create
  <2>3. rec' = row
    BY <2>2 DEF Hold
  <2> QED
    BY <1>2, <2>1, <2>2, <2>3 DEF Inserts, Create
<1>3. CASE rec # NoRecord
  <2>1. row = rec
    BY <1>3 DEF CreateProcessing
  <2> QED
    BY <2>1 DEF Create, Proceeds
<1> QED
  BY <1>2, <1>3

(* What Acquire's TryReclaim does.                                           *)
LEMMA ReclaimCases ==
    ASSUME TypeOK, IdInv, NEW o \in Op, TryReclaim(o)
    PROVE  TakesOver(o) \/ Proceeds(o, "reclaim", "done")
<1>1. /\ rec \in Record /\ start[o] + Lease \in Nat /\ start[o] + TTL \in Nat
      /\ pc[o] = "reclaim" /\ seen[o].id \in 1..lastId
  BY LeaseAssumption, LockBoundAssumption DEF TypeOK, IdInv, TryReclaim, Knowing
<1>2. CASE CanReclaim(rec, seen[o].id, seen[o].status, start[o])
  <2> DEFINE row == Reclaim(rec, start[o] + Lease, start[o] + TTL)
  <2>1. rec.id = seen[o].id /\ rec # NoRecord
    BY <1>1, <1>2, RecordCases DEF CanReclaim
  <2>2. row \in Record /\ row.id = rec.id
    BY <1>1, <2>1, ClaimEffect
  <2>3. Hold(o, row, FALSE)
    BY <1>2 DEF TryReclaim
  <2>4. rec' = row
    BY <2>3 DEF Hold
  <2> QED
    BY <1>1, <2>1, <2>2, <2>3, <2>4 DEF TakesOver, TryReclaim
<1>3. CASE ~CanReclaim(rec, seen[o].id, seen[o].status, start[o])
  BY <1>3 DEF TryReclaim, Proceeds
<1> QED
  BY <1>2, <1>3

(* A tick of renewLoop extends the lease of a row that is the operation's,   *)
(* fails and waits for the next tick, or ends on a row that is not.          *)
Extends(o) ==
    /\ rec # NoRecord /\ rec.id = seen[o].id /\ rec' \in Record
    /\ rec'.id = rec.id /\ rec'.fp = rec.fp /\ rec'.status = rec.status
    /\ rec'.locked = clock + Lease /\ rec'.expires = clock + TTL
    /\ renewAt' = [renewAt EXCEPT ![o] = clock + RenewInterval] /\ UNCHANGED bounds
Stops(o) ==
    /\ rec.id # seen[o].id \/ rec.status # "processing" \/ rec.fp # o
    /\ renewAt' = [renewAt EXCEPT ![o] = 0] /\ UNCHANGED <<rec, bounds>>
Skips(o) ==
    Fault /\ UNCHANGED rec /\ renewAt' = [renewAt EXCEPT ![o] = clock + RenewInterval]

(* What a tick of renewLoop does.                                            *)
LEMMA RenewCases ==
    ASSUME TypeOK, IdInv, NEW o \in Op, Renew(o)
    PROVE  /\ pc[o] = "running" /\ renewAt[o] # 0 /\ clock >= renewAt[o]
           /\ UNCHANGED <<lastId, clock, pc, start, seen, created>>
           /\ Extends(o) \/ Stops(o) \/ Skips(o)
<1>1. /\ pc[o] = "running" /\ renewAt[o] # 0 /\ clock >= renewAt[o]
      /\ UNCHANGED <<lastId, clock, pc, start, seen, created>>
  BY DEF Renew
<1>2. /\ rec \in Record /\ clock + Lease \in Nat /\ clock + TTL \in Nat
      /\ seen[o].id \in 1..lastId
  BY <1>1, LeaseAssumption, LockBoundAssumption DEF TypeOK, IdInv, Knowing
<1>3. ASSUME CanExtend(rec, seen[o].id, o), UNCHANGED bounds,
             rec' = Extend(rec, clock + Lease, clock + TTL),
             renewAt' = [renewAt EXCEPT ![o] = clock + RenewInterval]
      PROVE  Extends(o)
  <2>1. rec # NoRecord /\ rec.id = seen[o].id
    BY <1>2, <1>3, RecordCases DEF CanExtend
  <2> QED
    BY <1>2, <1>3, <2>1, ClaimEffect DEF Extends
<1>4. ASSUME ~CanExtend(rec, seen[o].id, o), UNCHANGED <<rec, bounds>>,
             renewAt' = [renewAt EXCEPT ![o] = 0]
      PROVE  Stops(o)
  BY <1>4 DEF CanExtend, Stops
<1> QED
  BY <1>1, <1>3, <1>4 DEF Renew, Skips

(* What Release does: it writes to the row of its own id only.               *)
LEMMA ReleaseCases ==
    ASSUME TypeOK, IdInv, NEW o \in Op, Release(o)
    PROVE  /\ pc[o] = "running" /\ Goto(o, "done") /\ renewAt' = [renewAt EXCEPT ![o] = 0]
           /\ rec' \in Record /\ rec'.id = rec.id /\ (rec.id # seen[o].id => rec' = rec)
           /\ UNCHANGED bounds \/ Fault
           /\ UNCHANGED <<lastId, clock, start, seen, created>>
<1>1. /\ pc[o] = "running" /\ Goto(o, "done") /\ renewAt' = [renewAt EXCEPT ![o] = 0]
      /\ UNCHANGED <<lastId, clock, start, seen, created>>
      /\ UNCHANGED bounds \/ Fault
  BY DEF Release
<1>2. /\ rec \in Record /\ clock \in Nat /\ clock + TTL \in Nat /\ seen[o].id \in Nat \ {0}
  BY <1>1, LeaseAssumption, LockBoundAssumption DEF TypeOK, IdInv, Knowing
<1>3. rec' \in {MarkSucceeded(rec, seen[o].id, o, clock + TTL),
                MarkFailedRetryable(rec, seen[o].id, clock, clock + TTL), rec}
  BY DEF Release
<1> QED
  BY <1>1, <1>2, <1>3, MarkEffect

-----------------------------------------------------------------------------
(* Every step keeps the types.                                               *)
LEMMA TypeStep ==
    ASSUME TypeOK, IdInv, [Next]_vars
    PROVE  TypeOK'
<1> USE LeaseAssumption, LockBoundAssumption
    DEF TypeOK, Claiming, Label, Goto, Hold, bounds, vars, Fault
<1>1. CASE CleanupOnce
  BY <1>1 DEF CleanupOnce, DeleteExpired, Record
<1>2. CASE Tick
  BY <1>2 DEF Tick
<1>3. ASSUME NEW o \in Op, Step(o)
      PROVE  TypeOK'
  <2>1. CASE Acquire(o)
    BY <2>1 DEF Acquire
  <2>2. CASE Create(o)
    <3>1. CASE Inserts(o)
      BY <2>2, <3>1 DEF Inserts
    <3>2. CASE Proceeds(o, "create", "get")
      BY <2>2, <3>2 DEF Proceeds
    <3> QED
      BY <2>2, <3>1, <3>2, CreateCases
  <2>3. CASE GetExisting(o)
    BY <2>3 DEF GetExisting
  <2>4. CASE TryReclaim(o)
    <3>1. CASE TakesOver(o)
      BY <2>4, <3>1 DEF TakesOver
    <3>2. CASE Proceeds(o, "reclaim", "done")
      BY <2>4, <3>2 DEF Proceeds
    <3> QED
      BY <2>4, <3>1, <3>2, ReclaimCases
  <2>5. CASE Renew(o)
    <3>0. pc[o] = "running" /\ renewAt[o] # 0 /\ clock >= renewAt[o]
          /\ UNCHANGED <<lastId, clock, pc, start, seen, created>>
      BY <2>5, RenewCases
    <3>1. CASE Extends(o)
      BY <3>0, <3>1 DEF Extends
    <3>2. CASE Stops(o)
      BY <3>0, <3>2 DEF Stops
    <3>3. CASE Skips(o)
      BY <3>0, <3>3 DEF Skips
    <3> QED
      BY <2>5, <3>1, <3>2, <3>3, RenewCases
  <2>6. CASE Release(o)
    BY <2>6, ReleaseCases
  <2>7. CASE AcquireFails(o)
    BY <2>7 DEF AcquireFails
  <2>8. CASE Crash(o)
    BY <2>8 DEF Crash
  <2> QED
    BY <1>3, <2>1, <2>2, <2>3, <2>4, <2>5, <2>6, <2>7, <2>8 DEF Step
<1>4. CASE UNCHANGED vars
  BY <1>4
<1> QED
  BY <1>1, <1>2, <1>3, <1>4 DEF Next

(* Every step keeps the ids apart from those to come.                        *)
LEMMA IdStep ==
    ASSUME TypeOK, IdInv, [Next]_vars
    PROVE  IdInv'
<1> USE RecordCases
    DEF TypeOK, IdInv, Knowing, Goto, Hold, bounds, vars, Fault
<1>1. CASE CleanupOnce
  BY <1>1 DEF CleanupOnce, DeleteExpired, NoRecord
<1>2. CASE Tick
  BY <1>2 DEF Tick
<1>3. ASSUME NEW o \in Op, Step(o)
      PROVE  IdInv'
  <2>1. CASE Acquire(o)
    BY <2>1 DEF Acquire
  <2>2. CASE Create(o)
    <3>1. CASE Inserts(o)
      BY <2>2, <3>1 DEF Inserts
    <3>2. CASE Proceeds(o, "create", "get")
      BY <2>2, <3>2 DEF Proceeds
    <3> QED
      BY <2>2, <3>1, <3>2, CreateCases
  <2>3. CASE GetExisting(o)
    BY <2>3 DEF GetExisting
  <2>4. CASE TryReclaim(o)
    <3>1. CASE TakesOver(o)
      BY <2>4, <3>1 DEF TakesOver
    <3>2. CASE Proceeds(o, "reclaim", "done")
      BY <2>4, <3>2 DEF Proceeds
    <3> QED
      BY <2>4, <3>1, <3>2, ReclaimCases
  <2>5. CASE Renew(o)
    <3>0. pc[o] = "running" /\ renewAt[o] # 0 /\ clock >= renewAt[o]
          /\ UNCHANGED <<lastId, clock, pc, start, seen, created>>
      BY <2>5, RenewCases
    <3>1. CASE Extends(o)
      BY <3>0, <3>1 DEF Extends
    <3>2. CASE Stops(o)
      BY <3>0, <3>2 DEF Stops
    <3>3. CASE Skips(o)
      BY <3>0, <3>3 DEF Skips
    <3> QED
      BY <2>5, <3>1, <3>2, <3>3, RenewCases
  <2>6. CASE Release(o)
    BY <2>6, ReleaseCases
  <2>7. CASE AcquireFails(o)
    BY <2>7 DEF AcquireFails
  <2>8. CASE Crash(o)
    BY <2>8 DEF Crash
  <2> QED
    BY <1>3, <2>1, <2>2, <2>3, <2>4, <2>5, <2>6, <2>7, <2>8 DEF Step
<1>4. CASE UNCHANGED vars
  BY <1>4
<1> QED
  BY <1>1, <1>2, <1>3, <1>4 DEF Next

(* Every step keeps the operations within their times.                       *)
LEMMA ClockStep ==
    ASSUME TypeOK, IdInv, ClockInv, [Next]_vars
    PROVE  ClockInv'
<1> USE LeaseAssumption, LockBoundAssumption
    DEF TypeOK, ClockInv, Claiming, Goto, Hold, bounds, vars, Fault
<1>1. CASE CleanupOnce
  BY <1>1 DEF CleanupOnce, DeleteExpired
<1>2. CASE Tick
  BY <1>2 DEF Tick
<1>3. ASSUME NEW o \in Op, Step(o)
      PROVE  ClockInv'
  <2>1. CASE Acquire(o)
    BY <2>1 DEF Acquire
  <2>2. CASE Create(o)
    <3>1. CASE Inserts(o)
      BY <2>2, <3>1 DEF Inserts
    <3>2. CASE Proceeds(o, "create", "get")
      BY <2>2, <3>2 DEF Proceeds
    <3> QED
      BY <2>2, <3>1, <3>2, CreateCases
  <2>3. CASE GetExisting(o)
    BY <2>3 DEF GetExisting
  <2>4. CASE TryReclaim(o)
    <3>1. CASE TakesOver(o)
      BY <2>4, <3>1 DEF TakesOver
    <3>2. CASE Proceeds(o, "reclaim", "done")
      BY <2>4, <3>2 DEF Proceeds
    <3> QED
      BY <2>4, <3>1, <3>2, ReclaimCases
  <2>5. CASE Renew(o)
    <3>0. pc[o] = "running" /\ renewAt[o] # 0 /\ clock >= renewAt[o]
          /\ UNCHANGED <<lastId, clock, pc, start, seen, created>>
      BY <2>5, RenewCases
    <3>1. CASE Extends(o)
      BY <3>0, <3>1 DEF Extends
    <3>2. CASE Stops(o)
      BY <3>0, <3>2 DEF Stops
    <3>3. CASE Skips(o)
      BY <3>0, <3>3 DEF Skips
    <3> QED
      BY <2>5, <3>1, <3>2, <3>3, RenewCases
  <2>6. CASE Release(o)
    BY <2>6, ReleaseCases
  <2>7. CASE AcquireFails(o)
    BY <2>7 DEF AcquireFails
  <2>8. CASE Crash(o)
    BY <2>8 DEF Crash
  <2> QED
    BY <1>3, <2>1, <2>2, <2>3, <2>4, <2>5, <2>6, <2>7, <2>8 DEF Step
<1>4. CASE UNCHANGED vars
  BY <1>4
<1> QED
  BY <1>1, <1>2, <1>3, <1>4 DEF Next

(* Every step keeps the lock of an operation with the row it inserted: while *)
(* that operation runs nobody inserts, nobody reads the row as reclaimable,  *)
(* and nobody who has read a row before knows its id.                        *)
LEMMA FreshStep ==
    ASSUME IInv, [Next]_vars
    PROVE  FreshInv'
<1> USE LeaseAssumption, LockBoundAssumption, FreshHasTime, RecordCases, DelayFacts
    DEF IInv, TypeOK, IdInv, ClockInv, FreshInv, Claiming, Knowing, Goto, Hold, bounds,
        vars, Fault
<1>1. CASE CleanupOnce
  BY <1>1 DEF CleanupOnce, DeleteExpired
<1>2. CASE Tick
  BY <1>2 DEF Tick
<1>3. ASSUME NEW o \in Op, Step(o)
      PROVE  FreshInv'
  <2>1. CASE Acquire(o)
    BY <2>1 DEF Acquire
  <2>2. CASE Create(o)
    <3>1. CASE Inserts(o)
      BY <2>2, <3>1 DEF Inserts
    <3>2. CASE Proceeds(o, "create", "get")
      BY <2>2, <3>2 DEF Proceeds
    <3> QED
      BY <2>2, <3>1, <3>2, CreateCases
  <2>3. CASE GetExisting(o)
    BY <2>3 DEF GetExisting
  <2>4. CASE TryReclaim(o)
    <3>1. CASE TakesOver(o)
      BY <2>4, <3>1 DEF TakesOver
    <3>2. CASE Proceeds(o, "reclaim", "done")
      BY <2>4, <3>2 DEF Proceeds
    <3> QED
      BY <2>4, <3>1, <3>2, ReclaimCases
  <2>5. CASE Renew(o)
    <3>0. pc[o] = "running" /\ renewAt[o] # 0 /\ clock >= renewAt[o]
          /\ UNCHANGED <<lastId, clock, pc, start, seen, created>>
      BY <2>5, RenewCases
    <3>1. CASE Extends(o)
      BY <3>0, <3>1 DEF Extends
    <3>2. CASE Stops(o)
      BY <3>0, <3>2 DEF Stops
    <3>3. CASE Skips(o)
      <4>1. /\ clock \in Nat /\ clock = renewAt[o] /\ renewAt'[o] = renewAt[o] + RenewInterval
            /\ faults' = faults + 1 /\ faults \in 0..MaxFaults
        BY <3>0, <3>3 DEF Skips
      <4>2. Delay(faults' + 1) = Delay(faults + 1) + RenewInterval
        <5>1. faults' + 1 = faults + 2
          BY <4>1
        <5> QED
          BY <4>1, <5>1
      <4>3. \A q \in Op \ {o} : renewAt'[q] = renewAt[q]
        BY <3>3 DEF Skips
      <4>4. rec.locked \in Nat /\ Delay(faults + 1) \in Nat
        BY <4>1
      <4> QED
        BY <3>0, <3>3, <4>1, <4>2, <4>3, <4>4 DEF Skips
    <3> QED
      BY <2>5, <3>1, <3>2, <3>3, RenewCases
  <2>6. CASE Release(o)
    BY <2>6, ReleaseCases
  <2>7. CASE AcquireFails(o)
    <3>1. /\ pc[o] \in Claiming /\ pc' = [pc EXCEPT ![o] = "done"]
          /\ faults' = faults + 1 /\ faults \in 0..MaxFaults
          /\ UNCHANGED <<rec, seen, created, renewAt>>
      BY <2>7 DEF AcquireFails
    <3>2. Delay(faults' + 1) = Delay(faults + 1) + RenewInterval /\ Delay(faults + 1) \in Nat
      <4>1. faults' + 1 = faults + 2
        BY <3>1
      <4> QED
        BY <3>1, <4>1
    <3>3. \A q \in Op : pc'[q] \in Knowing => pc'[q] = pc[q]
      BY <3>1
    <3>4. rec.locked \in Nat /\ renewAt \in [Op -> Nat]
      OBVIOUS
    <3> QED
      BY <3>1, <3>2, <3>3, <3>4
  <2>8. CASE Crash(o)
    BY <2>8 DEF Crash
  <2> QED
    BY <1>3, <2>1, <2>2, <2>3, <2>4, <2>5, <2>6, <2>7, <2>8 DEF Step
<1>4. CASE UNCHANGED vars
  BY <1>4
<1> QED
  BY <1>1, <1>2, <1>3, <1>4 DEF Next

-----------------------------------------------------------------------------
(* Every behaviour keeps ids, times and fresh locks.                         *)
THEOREM InductiveInvariant == Spec => []IInv
<1>1. Init => IInv
  <2> SUFFICES ASSUME Init
               PROVE  IInv
    OBVIOUS
  <2>1. TypeOK
    BY LeaseAssumption, LockBoundAssumption DEF Init, TypeOK, Record, Label
  <2>2. IdInv /\ ClockInv /\ FreshInv
    BY DEF Init, IdInv, ClockInv, FreshInv, NoRecord, Knowing, Claiming
  <2> QED
    BY <2>1, <2>2 DEF IInv
<1>2. IInv /\ [Next]_vars => IInv'
  BY TypeStep, IdStep, ClockStep, FreshStep DEF IInv
<1> QED
  BY <1>1, <1>2, PTL DEF Spec

(* The variables of SystemOperationLock keep their types.                    *)
THEOREM TypeCorrect == Spec => []TypeOK
  BY InductiveInvariant, PTL DEF IInv

(* renewLoop keeps the lease of an operation that inserted its row ahead of  *)
(* the clock, whatever the others, the cleanup and failing statements do.    *)
THEOREM RenewalKeepsLock == Spec => []FreshLockIsKept
<1>1. IInv => FreshLockIsKept
  <2> SUFFICES ASSUME IInv, NEW o \in Op, pc[o] = "running", created[o]
               PROVE  rec.id = seen[o].id /\ rec.status = "processing" /\ rec.locked > clock
    BY DEF FreshLockIsKept
  <2>1. clock < rec.locked /\ rec \in Record /\ clock \in Nat
    BY FreshHasTime, LockBoundAssumption DEF IInv, TypeOK
  <2> QED
    BY <2>1, RecordCases DEF IInv, FreshInv
<1> QED
  BY <1>1, InductiveInvariant, PTL

(* While an operation runs on the row it inserted, Acquire starts no other:  *)
(* the INSERT meets a row, and a TryReclaim prepared earlier is for an id    *)
(* that is not this row's.                                                   *)
THEOREM NobodyJoins == Spec => FreshHolderIsAlone
<1> DEFINE Alone == \A o \in Op : pc[o] # "running" /\ pc'[o] = "running"
                       => ~\E p \in Op \ {o} : pc[p] = "running" /\ created[p]
<1>1. IInv /\ [Next]_vars => [Alone]_vars
  <2> SUFFICES ASSUME IInv, Next, NEW o \in Op, pc[o] # "running", pc'[o] = "running",
                      NEW p \in Op \ {o}, pc[p] = "running", created[p]
               PROVE  FALSE
    OBVIOUS
  <2>1. ASSUME NEW q \in Op, Step(q)
        PROVE  Inserts(o) \/ TakesOver(o)
    <3>1. q = o
      BY <2>1 DEF IInv, TypeOK, Step, Acquire, Create, GetExisting, TryReclaim, Renew, Release,
                  AcquireFails, Crash, Hold, Goto
    <3>2. Create(o) \/ TryReclaim(o)
      BY <2>1, <3>1 DEF IInv, TypeOK, Step, Acquire, GetExisting, Renew, Release, AcquireFails,
                        Crash, Goto
    <3> QED
      BY <3>2, CreateCases, ReclaimCases DEF IInv, TypeOK, Proceeds, Goto
  <2>2. Inserts(o) \/ TakesOver(o)
    BY <2>1 DEF Next, CleanupOnce, Tick
  <2>3. rec # NoRecord
    BY FreshHasTime
  <2>4. pc[o] \in Knowing => rec.id # seen[o].id
    BY DEF IInv, FreshInv
  <2> QED
    BY <2>2, <2>3, <2>4 DEF Inserts, TakesOver, Knowing
<1> QED
  BY <1>1, InductiveInvariant, PTL DEF Spec, FreshHolderIsAlone
=============================================================================
