-------------------------- MODULE ConcurrencySlots --------------------------
(* The request gate of one user: repository/concurrency_cache.go,            *)
(* service/concurrency_service.go, handler/gateway_helper.go and the live    *)
(* calls of service/openai_live.go, all under backend/internal.              *)
(*                                                                           *)
(* The gate lives in Redis: a sorted set of slots of the requests that run,  *)
(* a sorted set of leases of the live calls, and a counter of the requests   *)
(* that wait.  Redis runs one script at a time, so a step of a request is    *)
(* one call of Redis.  Requests belong to server instances that start, stop  *)
(* and share nothing but Redis.  Slots carry no owner that Redis could ask:  *)
(* a slot whose request is dead is told from a slot of a slow request by its *)
(* age alone.  The index of active users, written with best effort after     *)
(* each of these calls, only decides which users a cleanup looks at: here a  *)
(* cleanup may look at the user or miss it.                                  *)
EXTENDS Integers, FiniteSets

CONSTANTS
    Request,         \* HTTP requests of the user
    Call,            \* live calls of the user
    MaxConcurrency,  \* the user's concurrency; 0 would switch the gate off
    ExtraWait,       \* defaultExtraWaitSlots
    ShortWaitTTL,    \* is the TTL of the counter below maxConcurrencyWait?
    MaxTrouble       \* bound: failed Redis calls, instances that die or start

ASSUME SlotsAssumption ==
    /\ MaxConcurrency \in Nat \ {0} /\ ExtraWait \in Nat /\ ShortWaitTTL \in BOOLEAN
    /\ MaxTrouble \in Nat
    /\ Request \intersect Call = {} /\ IsFiniteSet(Request) /\ IsFiniteSet(Call)

Client == Request \union Call

(* CalculateMaxWait.                                                         *)
MaxWait == MaxConcurrency + ExtraWait

VARIABLES
    user,        \* the slots, concurrency:user:<id>
    live,        \* the leases of the live calls of this user
    waitCount,   \* the counter of waiting requests, 0 when its key is absent
    waitOld,     \* the TTL of the counter has passed since its last increment
    pc,          \* per client: its next step
    counted,     \* clients whose waitCounted is true
    starter,     \* the cleanup of an instance that starts
    stripped,    \* history: clients whose slot or lease went while they held it
    miscounted,  \* history: the counter missed one of the requests that wait
    trouble

sets == <<user, live, stripped>>
queue == <<waitCount, waitOld, counted, miscounted>>
vars == <<sets, queue, pc, starter, trouble>>

(* A sorted set: for each client its member ("gone": Redis has removed it    *)
(* and the client does not know), and how many members belong to nobody.     *)
Age == {"none", "fresh", "old", "gone"}
Members == [held : [Client -> Age], dead : [{"fresh", "old"} -> 0..MaxTrouble]]
Label == {"idle", "try", "poll", "admitted", "run", "drain", "leave",
          "create", "upstream", "handoff", "session", "drop"}

TypeOK ==
    /\ user \in Members /\ live \in Members
    /\ waitCount \in 0..MaxWait /\ waitOld \in BOOLEAN
    /\ pc \in [Client -> Label] /\ counted \subseteq Request
    /\ starter \in {"idle", "slots", "wait"}
    /\ stripped \subseteq Client /\ miscounted \in BOOLEAN
    /\ trouble \in 0..MaxTrouble

Empty == [held |-> [c \in Client |-> "none"], dead |-> [a \in {"fresh", "old"} |-> 0]]

Init ==
    /\ user = Empty /\ live = Empty
    /\ waitCount = 0 /\ waitOld = FALSE
    /\ pc = [c \in Client |-> "idle"] /\ counted = {} /\ starter = "idle"
    /\ stripped = {} /\ miscounted = FALSE /\ trouble = 0

-----------------------------------------------------------------------------
(* The commands of the scripts on a sorted set.                              *)
ZADD(z, c) == [z EXCEPT !.held[c] = "fresh"]
ZREM(z, c) == [z EXCEPT !.held[c] = "none"]
Dead(z) == z.dead["fresh"] + z.dead["old"]
Holders(z) == {c \in Client : z.held[c] \in {"fresh", "old"}}
ZCARD(z) == Cardinality(Holders(z)) + Dead(z)

(* ZREMRANGEBYSCORE key -inf now-ttl.                                        *)
Purge_never(z) == z
Purge(z) ==
    [held |-> [c \in Client |-> IF z.held[c] = "old" THEN "gone" ELSE z.held[c]],
     dead |-> [z.dead EXCEPT !["old"] = 0]]

(* Every member of the set goes.                                             *)
Emptied(z) ==
    [held |-> [c \in Client |-> IF c \in Holders(z) THEN "gone" ELSE z.held[c]],
     dead |-> Empty.dead]

(* A member whose client is gone stays behind, as old as it is.              *)
Orphan(z, c) ==
    IF c \in Holders(z)
    THEN [held |-> [z.held EXCEPT ![c] = "none"],
          dead |-> [z.dead EXCEPT ![z.held[c]] = @ + 1]]
    ELSE ZREM(z, c)

(* The two sets after a step, and who has lost a member in it.               *)
Redis(u, l) ==
    /\ user' = u /\ live' = l
    /\ stripped' = {c \in stripped : pc[c] # "idle"}
                      \union {c \in Client : "gone" \in {u.held[c], l.held[c]}}

Smooth == UNCHANGED trouble
Trouble == trouble < MaxTrouble /\ trouble' = trouble + 1

Goto(c, label) == pc' = [pc EXCEPT ![c] = label]

(* refreshActiveIndex after a release or a decrement: reading the load for   *)
(* the index purges the slots (readActiveLoadForKey).                        *)
RefreshActiveIndex(u) == Redis(Purge(u), live)

-----------------------------------------------------------------------------
(* The queue.  Every request through AcquireUserSlotWithQueue is counted     *)
(* before it tries for a slot; incrementWaitScript renews the TTL only when  *)
(* it increments.                                                            *)
Renews_always(admitted) == TRUE
Renews(admitted) == admitted

IncrementWaitCount(c) ==
    /\ c \in Request /\ pc[c] = "idle"
    /\ waitOld' = (waitOld /\ ~Renews(waitCount < MaxWait))
    /\ IF waitCount < MaxWait
       THEN /\ waitCount' = waitCount + 1 /\ counted' = counted \union {c}
            /\ Goto(c, "try")
       ELSE UNCHANGED <<waitCount, counted, pc>>
    /\ stripped' = stripped \ {c}
    /\ UNCHANGED <<user, live, miscounted, starter, trouble>>

(* IncrementWaitCount fails open: the request goes on and will decrement     *)
(* although the script may never have run.                                   *)
IncrementFailsOpen(c) ==
    /\ c \in Request /\ pc[c] = "idle" /\ Trouble
    /\ \/ /\ waitCount < MaxWait
          /\ waitCount' = waitCount + 1 /\ waitOld' = FALSE /\ UNCHANGED miscounted
       \/ miscounted' = TRUE /\ UNCHANGED <<waitCount, waitOld>>
    /\ counted' = counted \union {c} /\ Goto(c, "try")
    /\ stripped' = stripped \ {c}
    /\ UNCHANGED <<user, live, starter>>

(* acquireResponsesUserSlot enters AcquireUserSlotWithWait without a count.  *)
EnterUncounted(c) ==
    /\ c \in Request /\ pc[c] = "idle" /\ Goto(c, "try")
    /\ stripped' = stripped \ {c}
    /\ UNCHANGED <<user, live, queue, starter, trouble>>

Uncount(c, n) ==
    /\ waitCount' = n /\ counted' = counted \ {c}
    /\ miscounted' = (miscounted /\ counted # {c})
    /\ UNCHANGED waitOld

(* decrementWaitScript.                                                      *)
Decremented_noFloor == waitCount - 1
Decremented_twice == IF waitCount > 1 THEN waitCount - 2 ELSE 0
Decremented == IF waitCount > 0 THEN waitCount - 1 ELSE 0

(* DecrementWaitCount, once for each counted request: after the slot is won, *)
(* or in the deferred function when the request goes away without one.  Its  *)
(* failure is logged only, and then the index is not refreshed.              *)
DecrementWaitCount(c) ==
    /\ pc[c] \in {"admitted", "leave"}
    /\ Goto(c, IF pc[c] = "admitted" THEN "run" ELSE "idle")
    /\ \/ c \in counted /\ Uncount(c, Decremented) /\ RefreshActiveIndex(user) /\ Smooth
       \/ /\ c \in counted /\ Trouble /\ UNCHANGED sets
          /\ \E n \in {waitCount, Decremented} : Uncount(c, n)
       \/ c \notin counted /\ Smooth /\ UNCHANGED <<queue, sets>>
    /\ UNCHANGED starter

-----------------------------------------------------------------------------
(* acquireScript under a request id of its own: one more slot while slots    *)
(* and leases together stay below the user's concurrency.                    *)
HasRoom_slotsOnly(u, l) == ZCARD(u) < MaxConcurrency
HasRoom(u, l) == ZCARD(u) + ZCARD(l) < MaxConcurrency

AcquireUserSlot(c, won, refused) ==
    LET u == Purge(user)
        l == Purge(live)
    IN IF HasRoom(u, l)
       THEN Redis(ZADD(u, c), l) /\ Goto(c, won) /\ Smooth
       ELSE Redis(u, l) /\ Goto(c, refused) /\ Smooth

(* The call fails: before the script ran, or after it, and then the slot     *)
(* stays with nobody to release it, because every attempt has a new id.      *)
AcquireFails(c, label) ==
    /\ Trouble /\ Goto(c, label)
    /\ LET u == Purge(user)
           l == Purge(live)
       IN \/ UNCHANGED sets
          \/ HasRoom(u, l) /\ Redis(Orphan(ZADD(u, c), c), l)

(* AcquireUserSlotWithWait and the polls of waitForSlotWithPingTimeout.      *)
TryAcquire(c) ==
    /\ pc[c] \in {"try", "poll"}
    /\ AcquireUserSlot(c, "admitted", "poll") \/ AcquireFails(c, "leave")
    /\ UNCHANGED <<queue, starter>>

(* Thirty seconds have passed, the client has gone, or a ping failed.        *)
GiveUp(c) ==
    /\ pc[c] = "poll" /\ Goto(c, "leave")
    /\ UNCHANGED <<sets, queue, starter, trouble>>

(* ReleaseUserSlot, at the end of the handler, or when wrapReleaseOnDone sees*)
(* the client go: then the handler may go on without a slot and read the     *)
(* upstream, whose context is detached from the client's, to its end for the *)
(* usage.  A failure of the release is logged only.                          *)
ReleaseUserSlot(c) ==
    /\ \/ pc[c] \in {"run", "drop"} /\ Goto(c, "idle")
       \/ pc[c] = "run" /\ Goto(c, "drain")
       \/ pc[c] = "handoff" /\ Goto(c, "session")
    /\ \/ RefreshActiveIndex(ZREM(user, c)) /\ Smooth
       \/ Trouble /\ \E u \in {ZREM(user, c), Orphan(user, c)} : Redis(u, live)
    /\ UNCHANGED <<queue, starter>>

(* The upstream has ended; the handler's own release does nothing any more.  *)
EndDrain(c) ==
    /\ pc[c] = "drain" /\ Goto(c, "idle")
    /\ UNCHANGED <<sets, queue, starter, trouble>>

-----------------------------------------------------------------------------
(* A live call: TryAcquireUserSlot, which does not wait, then CreateLiveCall *)
(* while the slot is held, then the release of the slot; the lease stays     *)
(* with the session.                                                         *)
StartCall(c) ==
    /\ c \in Call /\ pc[c] = "idle"
    /\ AcquireUserSlot(c, "create", "idle") \/ AcquireFails(c, "idle")
    /\ UNCHANGED <<queue, starter>>

(* acquireLiveLeaseScript with replacingUser: the caller's own slot is in    *)
(* the count, so one more is allowed.  Another user's leases may have filled *)
(* the account.                                                              *)
AcquireLiveLease(c) ==
    /\ pc[c] = "create" /\ UNCHANGED <<queue, starter>>
    /\ LET l == Purge(live)
           full == ZCARD(user) + ZCARD(l) >= MaxConcurrency + 1
       IN \/ ~full /\ Redis(user, ZADD(l, c)) /\ Goto(c, "upstream") /\ Smooth
          \/ Redis(user, l) /\ Goto(c, "drop") /\ Smooth
          \/ /\ Trouble /\ Goto(c, "drop")
             /\ \/ UNCHANGED sets
                \/ ~full /\ Redis(user, Orphan(ZADD(l, c), c))

(* releaseLiveLease; its error is dropped.                                   *)
ReleaseLiveLease(c, l) ==
    \/ Redis(user, ZREM(l, c)) /\ Smooth
    \/ Redis(user, Orphan(l, c)) /\ Trouble

(* createUpstreamLiveCall and SaveLiveCall: on an error the lease goes back, *)
(* and another account is tried or the call is refused.                      *)
CreateUpstreamLiveCall(c) ==
    /\ pc[c] = "upstream" /\ UNCHANGED <<queue, starter>>
    /\ \/ Goto(c, "handoff") /\ UNCHANGED sets /\ Smooth
       \/ ReleaseLiveLease(c, live) /\ \E label \in {"create", "drop"} : Goto(c, label)

(* refreshLiveLease every twenty seconds: a lease that is gone is not        *)
(* written again, the session ends instead (liveSessionEnded).               *)
RefreshLiveLease(c) ==
    /\ pc[c] = "session" /\ UNCHANGED <<queue, starter>>
    /\ LET l == Purge(live)
       IN IF c \in Holders(l)
          THEN Redis(user, ZADD(l, c)) /\ Goto(c, "session") /\ Smooth
          ELSE ReleaseLiveLease(c, l) /\ Goto(c, "idle")

(* The call ends, or the refresh returned an error: finalizeLiveCall.        *)
FinalizeLiveCall(c) ==
    /\ pc[c] = "session" /\ UNCHANGED <<queue, starter>>
    /\ ReleaseLiveLease(c, live) /\ Goto(c, "idle")

-----------------------------------------------------------------------------
(* Time.  A slot is not refreshed while its request runs.                    *)
SlotAges(c) ==
    /\ user.held[c] = "fresh" /\ Redis([user EXCEPT !.held[c] = "old"], live)
    /\ UNCHANGED <<queue, pc, starter, trouble>>

LeaseAges(c) ==
    /\ live.held[c] = "fresh" /\ Redis(user, [live EXCEPT !.held[c] = "old"])
    /\ UNCHANGED <<queue, pc, starter, trouble>>

Aged(z) == [z EXCEPT !.dead = [fresh |-> 0, old |-> Dead(z)]]

DeadAge ==
    /\ user.dead["fresh"] + live.dead["fresh"] > 0 /\ Redis(Aged(user), Aged(live))
    /\ UNCHANGED <<queue, pc, starter, trouble>>

(* EXPIRE is renewed with every member, so a key goes with its last one.     *)
AllOld(z) ==
    ZCARD(z) > 0 /\ z.dead["fresh"] = 0 /\ \A c \in Client : z.held[c] # "fresh"

UserKeyExpires ==
    /\ AllOld(user) /\ Redis(Emptied(user), live)
    /\ UNCHANGED <<queue, pc, starter, trouble>>

LiveKeyExpires ==
    /\ AllOld(live) /\ Redis(user, Emptied(live))
    /\ UNCHANGED <<queue, pc, starter, trouble>>

WaitKeyAges ==
    /\ waitCount > 0 /\ waitOld' = TRUE
    /\ UNCHANGED <<sets, waitCount, counted, miscounted, pc, starter, trouble>>

WaitKeyGone == waitCount' = 0 /\ miscounted' = (miscounted \/ counted # {})

WaitKeyExpires ==
    /\ waitOld /\ waitCount > 0 /\ (ShortWaitTTL \/ counted = {})
    /\ WaitKeyGone /\ waitOld' = FALSE
    /\ UNCHANGED <<sets, counted, pc, starter, trouble>>

-----------------------------------------------------------------------------
(* CleanupExpiredAccountSlotKeys, when the worker finds the user.            *)
CleanupExpired ==
    /\ Redis(Purge(user), live)
    /\ UNCHANGED <<queue, pc, starter, trouble>>

(* CleanupStaleProcessSlots of an instance that starts and finds the user:   *)
(* every slot without the new process's prefix goes, then the counter.  The  *)
(* instances that serve meanwhile are not asked.                             *)
StartInstance ==
    /\ starter = "idle" /\ starter' = "slots" /\ Trouble
    /\ UNCHANGED <<sets, queue, pc>>

CleanupStaleProcessSlots ==
    /\ UNCHANGED <<pc, waitOld, counted>>
    /\ \/ /\ starter = "slots" /\ starter' = "wait" /\ Smooth
          /\ Redis(Emptied(user), live) /\ UNCHANGED <<waitCount, miscounted>>
       \/ starter = "wait" /\ starter' = "idle" /\ WaitKeyGone /\ Smooth /\ UNCHANGED sets
       \/ /\ starter # "idle" /\ starter' = "idle" /\ Trouble
          /\ UNCHANGED <<sets, waitCount, miscounted>>

(* An instance dies with one of its clients; slot, lease and count stay.     *)
InstanceDies(c) ==
    /\ pc[c] # "idle" /\ Trouble
    /\ Redis(Orphan(user, c), Orphan(live, c))
    /\ Uncount(c, waitCount)
    /\ Goto(c, "idle")
    /\ UNCHANGED starter

-----------------------------------------------------------------------------
Proceed(c) ==
    \/ DecrementWaitCount(c) \/ TryAcquire(c) \/ GiveUp(c) \/ ReleaseUserSlot(c)
    \/ EndDrain(c)
    \/ AcquireLiveLease(c) \/ CreateUpstreamLiveCall(c)
    \/ RefreshLiveLease(c) \/ FinalizeLiveCall(c)

Arrive(c) == IncrementWaitCount(c) \/ IncrementFailsOpen(c) \/ EnterUncounted(c) \/ StartCall(c)

Next ==
    \/ \E c \in Client : Arrive(c) \/ Proceed(c) \/ SlotAges(c) \/ LeaseAges(c) \/ InstanceDies(c)
    \/ DeadAge \/ UserKeyExpires \/ LiveKeyExpires \/ WaitKeyAges \/ WaitKeyExpires
    \/ CleanupExpired \/ StartInstance \/ CleanupStaleProcessSlots

Spec == Init /\ [][Next]_vars

(* Time passes and Redis drops what has expired.  No client owes anything: a *)
(* request may run for ever, and no cleanup of an instance need come.        *)
Fairness ==
    /\ WF_vars(DeadAge) /\ WF_vars(UserKeyExpires) /\ WF_vars(LiveKeyExpires)
    /\ WF_vars(WaitKeyAges) /\ WF_vars(WaitKeyExpires)
    /\ \A c \in Client : WF_vars(SlotAges(c)) /\ WF_vars(LeaseAges(c))

FairSpec == Spec /\ Fairness

-----------------------------------------------------------------------------
(* Work for a client that is still there.                                    *)
Working == {c \in Client : pc[c] \in {"admitted", "run", "create", "upstream",
                                      "handoff", "session"}}

(* The user never has more work in progress than AcquireUserSlot allows, a   *)
(* live call in its handover from slot to lease counted once, except for     *)
(* work whose slot or lease was taken from under it: by its TTL, or by the   *)
(* cleanup of another instance that starts.  A request whose client has gone *)
(* does not count: wrapReleaseOnDone has given its slot back, and how many   *)
(* such requests still read their upstream (label "drain") nothing bounds.   *)
WorkIsBounded == Cardinality(Working \ stripped) <= MaxConcurrency

(* The wait queue is as short as CalculateMaxWait promises: unless an        *)
(* increment failed open, or the counter was deleted under requests that     *)
(* wait, the counter covers every counted request, those of the Responses    *)
(* API not being counted; and such an error is over when the queue has run   *)
(* empty (AcquireUserSlotWithQueue).                                         *)
QueueIsBounded == ~miscounted => Cardinality(counted) <= waitCount

(* Lost decrements and dead processes fill the counter, and every admitted   *)
(* request renews its TTL; still a counter that is full of nobody does not   *)
(* shut the user out for good (incrementWaitScript).                         *)
FullQueueHeals == (waitCount = MaxWait /\ counted = {}) ~> (waitCount < MaxWait)

(* A slot or a lease that nobody will release (its process died, or the      *)
(* answer to acquire or release was lost) does not use up the user's         *)
(* concurrency for good, also when the cleanup worker never sees the user.   *)
DeadSlotsGo == (Dead(user) + Dead(live) > 0) ~> (Dead(user) + Dead(live) = 0)

=============================================================================
