-------------------------- MODULE BatchImageQueue --------------------------
(* The Redis queue of batch image jobs, for one job: repository/             *)
(* batch_image_queue.go.  Every operation is one script or one MULTI.        *)
EXTENDS Naturals

(* ready: how often the list holds the job; delayed and active: it is in the *)
(* sorted set; inflight: the key that keeps Enqueue from adding it again.    *)
Queue == [ready : Nat, delayed : BOOLEAN, active : BOOLEAN, inflight : BOOLEAN]
EmptyQueue == [ready |-> 0, delayed |-> FALSE, active |-> FALSE, inflight |-> FALSE]
InQueue(q) == q.ready > 0 \/ q.delayed \/ q.active

Enqueue(q) == IF q.inflight THEN q ELSE [q EXCEPT !.inflight = TRUE, !.ready = @ + 1]

ReserveJob_popOnly(q) == [q EXCEPT !.ready = @ - 1]
ReserveJob(q) == [q EXCEPT !.ready = @ - 1, !.active = TRUE]

RequeueAfter(q) == [q EXCEPT !.active = FALSE, !.delayed = TRUE]

Ack(q) == [q EXCEPT !.active = FALSE, !.delayed = FALSE, !.inflight = FALSE]

MoveDueDelayedToReady(q) == [q EXCEPT !.delayed = FALSE, !.ready = @ + 1]
RecoverStaleActive(q) == [q EXCEPT !.active = FALSE, !.ready = @ + 1]
=============================================================================
