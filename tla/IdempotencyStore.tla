-------------------------- MODULE IdempotencyStore --------------------------
(* The table idempotency_records (backend/migrations/057) and the statements *)
(* of backend/internal/repository/idempotency_repo.go, for one pair of scope *)
(* and key hash: at most one row (unique index), each statement an operator  *)
(* from the row before it to the row after it.                               *)
(*                                                                           *)
(* Times are natural numbers; locked_until NULL is 0, which every comparison *)
(* in the code treats like a time that has passed.                           *)
EXTENDS Naturals

RecordStatus == {"processing", "succeeded", "failed_retryable"}

NoRecord == [id |-> 0, fp |-> "none", status |-> "none", locked |-> 0, expires |-> 0,
             body |-> "none"]

(* INSERT ... ON CONFLICT DO NOTHING: an expired row is a conflict, too.     *)
CreateProcessing_upsert(rec, id, fp, locked, expires) ==
    [id |-> id, fp |-> fp, status |-> "processing", locked |-> locked,
     expires |-> expires, body |-> "none"]

CreateProcessing(rec, id, fp, locked, expires) ==
    IF rec # NoRecord THEN rec
    ELSE [id |-> id, fp |-> fp, status |-> "processing", locked |-> locked,
          expires |-> expires, body |-> "none"]

(* TryReclaim: the WHERE clause, and the UPDATE.  Neither mentions           *)
(* request_fingerprint, expires_at of the old row, or response_body.         *)
CanReclaim_anyLock(rec, id, from, now) == rec.id = id /\ rec.status = from
CanReclaim(rec, id, from, now) ==
    rec.id = id /\ rec.status = from /\ rec.locked <= now

Reclaim(rec, locked, expires) ==
    [rec EXCEPT !.status = "processing", !.locked = locked, !.expires = expires]

(* ExtendProcessingLock.                                                     *)
CanExtend(rec, id, fp) == rec.id = id /\ rec.status = "processing" /\ rec.fp = fp
Extend_lockOnly(rec, locked, expires) == [rec EXCEPT !.locked = locked]
Extend(rec, locked, expires) == [rec EXCEPT !.locked = locked, !.expires = expires]

(* MarkSucceeded and MarkFailedRetryable look at the id only: neither the    *)
(* status nor the claim they finish is compared.                             *)
MarkSucceeded(rec, id, body, expires) ==
    IF rec.id # id THEN rec
    ELSE [rec EXCEPT !.status = "succeeded", !.body = body, !.locked = 0, !.expires = expires]

MarkFailedRetryable_otherStatus(rec, id, locked, expires) ==
    IF rec.id # id THEN rec
    ELSE [rec EXCEPT !.status = "failed", !.locked = locked, !.expires = expires]

MarkFailedRetryable(rec, id, locked, expires) ==
    IF rec.id # id THEN rec
    ELSE [rec EXCEPT !.status = "failed_retryable", !.locked = locked, !.expires = expires]

(* DeleteExpired, whatever the status (the batch limit is not reached by one *)
(* row).                                                                     *)
DeleteExpired(rec, now) == IF rec.expires <= now THEN NoRecord ELSE rec
=============================================================================
