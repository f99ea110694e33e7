------------------------ MODULE ConcurrencySlotsProofs ------------------------
(* Theorems about ConcurrencySlots for every finite set of requests and of   *)
(* live calls, every concurrency and length of the queue, and every number   *)
(* of failures.                                                              *)
EXTENDS ConcurrencySlots, FiniteSetTheorems, TLAPS

(* A sorted set with any number of members that belong to nobody.            *)
ZSet == [held : [Client -> Age], dead : [{"fresh", "old"} -> Nat]]

(* The steps at which a client has a slot, and those at which it has a lease,*)
(* as far as it knows.                                                       *)
HasSlot == {"admitted", "run", "create", "upstream", "handoff", "drop"}
HasLease == {"upstream", "handoff", "session"}

(* Every member that belongs to nobody is the work of one failure.           *)
DeadInv == Dead(user) <= trouble /\ Dead(live) <= trouble

(* Client and Redis agree on who has a slot or a lease, except for members   *)
(* that were taken away, whose clients are on record.                        *)
HeldInv ==
    /\ user \in ZSet /\ live \in ZSet
    /\ \A c \in Client :
          /\ user.held[c] # "none" <=> pc[c] \in HasSlot
          /\ live.held[c] # "none" <=> pc[c] \in HasLease
          /\ "gone" \in {user.held[c], live.held[c]} => c \in stripped

(* The clients that Redis counts and that have lost nothing: a live call     *)
(* with slot and lease is one of them.                                       *)
Load == (Holders(user) \union Holders(live)) \ stripped

LoadInv == Cardinality(Load) <= MaxConcurrency

IInv == TypeOK /\ DeadInv /\ HeldInv /\ LoadInv /\ QueueIsBounded

-----------------------------------------------------------------------------
(* What time and the cleanups do to a sorted set: members grow old or go, no *)
(* client gets one, and none forgets that it had one.                        *)
Keeps(z, y) ==
    /\ y \in ZSet /\ Dead(y) \in Nat /\ Dead(y) <= Dead(z)
    /\ Holders(y) \subseteq Holders(z)
    /\ \A c \in Client : y.held[c] # "none" <=> z.held[c] # "none"

(* What a release of client c does, heard or not: only its member goes.      *)
Drops(z, y, c) ==
    /\ y \in ZSet /\ Dead(y) \in Nat
    /\ Holders(y) \subseteq Holders(z) \ {c}
    /\ y.held[c] = "none"
    /\ \A d \in Client \ {c} : y.held[d] = z.held[d]

(* What an acquisition by client c does.                                     *)
Adds(z, y, c) ==
    /\ y \in ZSet /\ Dead(y) = Dead(z)
    /\ Holders(y) = Holders(z) \union {c}
    /\ y.held[c] = "fresh"
    /\ \A d \in Client \ {c} : y.held[d] = z.held[d]

(* The number of members that belong to nobody is a number.                  *)
LEMMA DeadType ==
    ASSUME NEW z \in ZSet
    PROVE  Dead(z) \in Nat /\ z.dead["fresh"] \in Nat /\ z.dead["old"] \in Nat
<1>1. z.dead \in [{"fresh", "old"} -> Nat]
  BY DEF ZSet
<1> QED
  BY <1>1 DEF Dead

(* ZREMRANGEBYSCORE, the end of a key and the passing of time.               *)
LEMMA KeepsEffect ==
    ASSUME NEW z \in ZSet
    PROVE  /\ Keeps(z, z) /\ Keeps(z, Purge(z)) /\ Keeps(z, Emptied(z)) /\ Keeps(z, Aged(z))
           /\ \A c \in Client : z.held[c] = "fresh" => Keeps(z, [z EXCEPT !.held[c] = "old"])
<1> USE DeadType
<1>1. Keeps(z, z)
  BY DEF Keeps
<1>2. Keeps(z, Purge(z))
  <2>1. Purge(z) \in ZSet
    BY DEF Purge, ZSet, Age
  <2>2. Dead(Purge(z)) <= Dead(z) /\ Dead(Purge(z)) \in Nat
    BY DEF Purge, ZSet, Dead
  <2> QED
    BY <2>1, <2>2 DEF Keeps, Purge, ZSet, Holders
<1>3. Keeps(z, Emptied(z))
  <2>1. Emptied(z) \in ZSet
    BY DEF Emptied, ZSet, Age, Empty
  <2>2. Dead(Emptied(z)) = 0
    BY DEF Emptied, Empty, Dead
  <2>3. \A c \in Client : Emptied(z).held[c] = IF c \in Holders(z) THEN "gone" ELSE z.held[c]
    BY DEF Emptied
  <2> QED
    BY <2>1, <2>2, <2>3 DEF Keeps, Holders
<1>4. Keeps(z, Aged(z))
  <2>1. Aged(z) \in ZSet
    BY DEF Aged, ZSet
  <2>2. Dead(Aged(z)) = Dead(z)
    BY DEF Aged, ZSet, Dead
  <2> QED
    BY <2>1, <2>2 DEF Keeps, Aged, ZSet, Holders
<1>5. ASSUME NEW c \in Client, z.held[c] = "fresh"
      PROVE  Keeps(z, [z EXCEPT !.held[c] = "old"])
  <2>1. [z EXCEPT !.held[c] = "old"] \in ZSet
    BY DEF ZSet, Age
  <2>2. Dead([z EXCEPT !.held[c] = "old"]) = Dead(z)
    BY DEF ZSet, Dead
  <2> QED
    BY <1>5, <2>1, <2>2 DEF Keeps, ZSet, Holders
<1> QED
  BY <1>1, <1>2, <1>3, <1>4, <1>5

(* What is kept in two steps is kept.                                        *)
LEMMA KeepsTwice ==
    ASSUME NEW z \in ZSet, NEW y, NEW x, Keeps(z, y), Keeps(y, x)
    PROVE  Keeps(z, x)
  BY DeadType DEF Keeps

(* ZREM, and the death of the client that holds a member.                    *)
LEMMA DropsEffect ==
    ASSUME NEW z \in ZSet, NEW c \in Client
    PROVE  /\ Drops(z, ZREM(z, c), c) /\ Dead(ZREM(z, c)) = Dead(z)
           /\ Drops(z, Orphan(z, c), c) /\ Dead(Orphan(z, c)) <= Dead(z) + 1
<1> USE DeadType
<1>1. Drops(z, ZREM(z, c), c) /\ Dead(ZREM(z, c)) = Dead(z)
  <2>1. ZREM(z, c) \in ZSet
    BY DEF ZREM, ZSet, Age
  <2>2. Dead(ZREM(z, c)) = Dead(z)
    BY DEF ZREM, ZSet, Dead
  <2> QED
    BY <2>1, <2>2 DEF Drops, ZREM, ZSet, Holders
<1>2. CASE c \in Holders(z)
  <2> DEFINE y == [held |-> [z.held EXCEPT ![c] = "none"],
                   dead |-> [z.dead EXCEPT ![z.held[c]] = @ + 1]]
  <2>1. Orphan(z, c) = y
    BY <1>2 DEF Orphan
  <2>2. z.held[c] \in {"fresh", "old"}
    BY <1>2 DEF Holders
  <2>3. y \in ZSet
    BY <2>2 DEF ZSet, Age
  <2>4. Dead(y) = Dead(z) + 1
    BY <2>2 DEF ZSet, Dead
  <2>5. Drops(z, y, c)
    BY <2>3, <2>4 DEF Drops, ZSet, Holders
  <2> QED
    BY <1>1, <2>1, <2>4, <2>5
<1>3. CASE c \notin Holders(z)
  BY <1>1, <1>3 DEF Orphan
<1> QED
  BY <1>1, <1>2, <1>3

(* ZADD.                                                                     *)
LEMMA AddsEffect ==
    ASSUME NEW z \in ZSet, NEW c \in Client
    PROVE  Adds(z, ZADD(z, c), c)
<1>1. ZADD(z, c) \in ZSet
  BY DEF ZADD, ZSet, Age
<1>2. Dead(ZADD(z, c)) = Dead(z)
  BY DEF ZADD, ZSet, Dead
<1> QED
  BY <1>1, <1>2 DEF Adds, ZADD, ZSet, Holders

(* A member that is added and left behind at once.                           *)
LEMMA AddedAndLost ==
    ASSUME NEW z \in ZSet, NEW c \in Client
    PROVE  Drops(z, Orphan(ZADD(z, c), c), c) /\ Dead(Orphan(ZADD(z, c), c)) <= Dead(z) + 1
<1>1. ZADD(z, c) \in ZSet /\ Adds(z, ZADD(z, c), c)
  BY AddsEffect DEF Adds
<1>2. /\ Drops(ZADD(z, c), Orphan(ZADD(z, c), c), c)
      /\ Dead(Orphan(ZADD(z, c), c)) <= Dead(ZADD(z, c)) + 1
  BY <1>1, DropsEffect
<1> QED
  BY <1>1, <1>2 DEF Drops, Adds

(* A set counts its members, and there are finitely many.                    *)
LEMMA CardType ==
    ASSUME NEW z \in ZSet
    PROVE  /\ IsFiniteSet(Client) /\ IsFiniteSet(Holders(z))
           /\ Cardinality(Holders(z)) \in Nat /\ Cardinality(Holders(z)) <= ZCARD(z)
           /\ ZCARD(z) \in Nat
<1>1. IsFiniteSet(Client)
  BY SlotsAssumption, FS_Union DEF Client
<1>2. Holders(z) \subseteq Client
  BY DEF Holders
<1>3. IsFiniteSet(Holders(z)) /\ Cardinality(Holders(z)) \in Nat
  BY <1>1, <1>2, FS_Subset, FS_CardinalityType
<1> QED
  BY <1>1, <1>3, DeadType DEF ZCARD

-----------------------------------------------------------------------------
(* A step of client c on a sorted set that leaves at most n more members to  *)
(* nobody: it may change c's own member, and the others as Keeps does.       *)
Touches(z, y, c, n) ==
    /\ y \in ZSet /\ Dead(y) \in Nat /\ Dead(y) <= Dead(z) + n
    /\ Holders(y) \ {c} \subseteq Holders(z)
    /\ \A d \in Client \ {c} : y.held[d] # "none" <=> z.held[d] # "none"
Gets(z, y, c) == Touches(z, y, c, 0) /\ y.held[c] = "fresh"
Loses(z, y, c, n) == Touches(z, y, c, n) /\ y.held[c] = "none" /\ c \notin Holders(y)

(* Whatever time has done before, ZADD gives the client a member.            *)
LEMMA GetsEffect ==
    ASSUME NEW z \in ZSet, NEW p, Keeps(z, p), NEW c \in Client
    PROVE  Gets(z, ZADD(p, c), c)
<1>1. p \in ZSet /\ Adds(p, ZADD(p, c), c)
  BY AddsEffect DEF Keeps
<1> QED
  BY <1>1, DeadType DEF Keeps, Adds, Gets, Touches

(* ZREM takes its member; a death or a lost answer leaves it to nobody.      *)
LEMMA LosesEffect ==
    ASSUME NEW z \in ZSet, NEW p, Keeps(z, p), NEW c \in Client
    PROVE  /\ Loses(z, ZREM(p, c), c, 0) /\ Loses(z, Purge(ZREM(p, c)), c, 0)
           /\ Loses(z, Orphan(p, c), c, 1) /\ Loses(z, Orphan(ZADD(p, c), c), c, 1)
<1>1. p \in ZSet /\ Dead(p) \in Nat /\ Dead(z) \in Nat
  BY DeadType DEF Keeps
<1>2. ASSUME NEW y, NEW n \in {0, 1}, Drops(p, y, c), Dead(y) <= Dead(p) + n
      PROVE  Loses(z, y, c, n)
  BY <1>1, <1>2 DEF Keeps, Drops, Loses, Touches
<1>3. Loses(z, ZREM(p, c), c, 0)
  BY <1>1, <1>2, DropsEffect
<1>4. Loses(z, Orphan(p, c), c, 1)
  BY <1>1, <1>2, DropsEffect
<1>5. Loses(z, Orphan(ZADD(p, c), c), c, 1)
  BY <1>1, <1>2, AddedAndLost
<1>6. Loses(z, Purge(ZREM(p, c)), c, 0)
  <2>1. ZREM(p, c) \in ZSet
    BY <1>3 DEF Loses, Touches
  <2>2. Keeps(ZREM(p, c), Purge(ZREM(p, c)))
    BY <2>1, KeepsEffect
  <2>3. Dead(ZREM(p, c)) \in Nat
    BY <2>1, DeadType
  <2> QED
    BY <1>1, <1>3, <2>2, <2>3 DEF Keeps, Loses, Touches
<1> QED
  BY <1>3, <1>4, <1>5, <1>6

(* What is kept is touched by nobody.                                        *)
LEMMA KeepsTouches ==
    ASSUME NEW z \in ZSet, NEW y, Keeps(z, y), NEW c \in Client
    PROVE  Touches(z, y, c, 0) /\ (y.held[c] # "none" <=> z.held[c] # "none")
  BY DeadType DEF Keeps, Touches

(* Who has lost a member is on record until it starts again.                 *)
Marked ==
    /\ \A c \in Client : "gone" \in {user'.held[c], live'.held[c]} => c \in stripped'
    /\ \A c \in stripped \ stripped' : pc[c] = "idle"

(* The scripts record their victims, and a client that has none starts       *)
(* without a record.                                                         *)
LEMMA MarkedByAll ==
    ASSUME HeldInv
    PROVE  /\ \A u, l : Redis(u, l) => Marked
           /\ UNCHANGED sets => Marked
           /\ \A c \in Client :
                 (pc[c] = "idle" /\ stripped' = stripped \ {c} /\ UNCHANGED <<user, live>>)
                    => Marked
<1>1. ASSUME NEW u, NEW l, Redis(u, l)
      PROVE  Marked
  BY <1>1 DEF Redis, Marked
<1>2. UNCHANGED sets => Marked
  BY DEF HeldInv, sets, Marked
<1>3. ASSUME NEW c \in Client, pc[c] = "idle", stripped' = stripped \ {c},
             UNCHANGED <<user, live>>
      PROVE  Marked
  <2>1. user.held[c] = "none" /\ live.held[c] = "none"
    BY <1>3 DEF HeldInv, HasSlot, HasLease
  <2> QED
    BY <1>3, <2>1 DEF HeldInv, Marked
<1> QED
  BY <1>1, <1>2, <1>3

(* Redis counts nobody new, so the load does not grow.                       *)
LEMMA LoadShrinks ==
    ASSUME HeldInv, LoadInv, Marked, user' \in ZSet, live' \in ZSet,
           \A d \in Holders(user') \union Holders(live') :
              d \in Holders(user) \union Holders(live) \union stripped'
    PROVE  LoadInv'
<1>1. \A d \in Client : d \in Holders(user) \union Holders(live) => pc[d] # "idle"
  BY DEF HeldInv, Holders, HasSlot, HasLease
<1>2. Load' \subseteq Load
  <2> SUFFICES ASSUME NEW d \in Load'
               PROVE  d \in Load
    OBVIOUS
  <2>1. d \in Holders(user') \union Holders(live') /\ d \notin stripped'
    BY DEF Load, Holders
  <2>2. d \in Holders(user) \union Holders(live) /\ d \in Client
    BY <2>1 DEF Holders
  <2>3. d \notin stripped
    BY <1>1, <2>1, <2>2 DEF Marked
  <2> QED
    BY <2>2, <2>3 DEF Load
<1>3. IsFiniteSet(Holders(user) \union Holders(live))
  BY CardType, FS_Union DEF HeldInv
<1>4. Load \subseteq Holders(user) \union Holders(live)
  BY DEF Load
<1>5. IsFiniteSet(Load)
  BY <1>3, <1>4, FS_Subset
<1>6. /\ Cardinality(Load') \in Nat /\ Cardinality(Load) \in Nat
      /\ Cardinality(Load') <= Cardinality(Load)
  BY <1>2, <1>5, FS_Subset, FS_CardinalityType
<1> QED
  BY <1>6, SlotsAssumption DEF LoadInv

(* A new slot is granted only while slots and leases, also the dead ones,    *)
(* are fewer than the concurrency.                                           *)
LEMMA LoadGrows ==
    ASSUME NEW u \in ZSet, NEW l \in ZSet, NEW c \in Client, HasRoom(u, l),
           user' = ZADD(u, c), live' = l
    PROVE  LoadInv'
<1>1. Holders(user') = Holders(u) \union {c}
  BY AddsEffect DEF Adds
<1>2. Load' \subseteq (Holders(u) \union Holders(l)) \union {c}
  BY <1>1 DEF Load, Holders
<1>3. /\ IsFiniteSet(Holders(u) \union Holders(l))
      /\ Cardinality(Holders(u) \union Holders(l)) \in Nat
      /\ Cardinality(Holders(u) \union Holders(l)) < MaxConcurrency
  <2>1. /\ IsFiniteSet(Holders(u)) /\ IsFiniteSet(Holders(l))
        /\ Cardinality(Holders(u)) \in Nat /\ Cardinality(Holders(l)) \in Nat
        /\ Cardinality(Holders(u)) <= ZCARD(u) /\ Cardinality(Holders(l)) <= ZCARD(l)
        /\ ZCARD(u) \in Nat /\ ZCARD(l) \in Nat
    BY CardType
  <2>2. /\ IsFiniteSet(Holders(u) \union Holders(l))
        /\ Cardinality(Holders(u) \union Holders(l)) =
             Cardinality(Holders(u)) + Cardinality(Holders(l))
               - Cardinality(Holders(u) \intersect Holders(l))
    BY <2>1, FS_Union
  <2>3. Cardinality(Holders(u) \intersect Holders(l)) \in Nat
    BY <2>1, FS_Intersection, FS_CardinalityType
  <2>4. Cardinality(Holders(u) \union Holders(l)) \in Nat
    BY <2>2, FS_CardinalityType
  <2>5. ZCARD(u) + ZCARD(l) < MaxConcurrency
    BY DEF HasRoom
  <2> QED
    BY <2>1, <2>2, <2>3, <2>4, <2>5, SlotsAssumption
<1> DEFINE All == (Holders(u) \union Holders(l)) \union {c}
<1>4. /\ IsFiniteSet(All) /\ Cardinality(All) \in Nat
      /\ Cardinality(All) <= Cardinality(Holders(u) \union Holders(l)) + 1
  <2>1. /\ IsFiniteSet(All)
        /\ Cardinality(All) = Cardinality(Holders(u) \union Holders(l)) \/
           Cardinality(All) = Cardinality(Holders(u) \union Holders(l)) + 1
    BY <1>3, FS_AddElement
  <2> QED
    BY <1>3, <2>1
<1>5. Cardinality(Load') \in Nat /\ Cardinality(Load') <= Cardinality(All)
  BY <1>2, <1>4, FS_Subset, FS_CardinalityType
<1> QED
  BY <1>3, <1>4, <1>5, SlotsAssumption DEF LoadInv

(* What the parts of the invariant about Redis say together.                 *)
SetsInv == DeadInv /\ HeldInv /\ LoadInv

(* Steps of time and of the cleanups, and of clients that use neither set.   *)
LEMMA QuietStep ==
    ASSUME TypeOK, SetsInv, Marked, Keeps(user, user'), Keeps(live, live'),
           trouble' \in Nat, trouble <= trouble',
           \A d \in Client : /\ pc'[d] \in HasSlot <=> pc[d] \in HasSlot
                             /\ pc'[d] \in HasLease <=> pc[d] \in HasLease
    PROVE  SetsInv'
<1>1. user \in ZSet /\ live \in ZSet /\ user' \in ZSet /\ live' \in ZSet /\ trouble \in Nat
  BY DEF SetsInv, HeldInv, Keeps, TypeOK
<1>2. DeadInv'
  BY <1>1, DeadType DEF SetsInv, DeadInv, Keeps
<1>3. HeldInv'
  BY <1>1 DEF SetsInv, HeldInv, Keeps, Marked
<1>4. LoadInv'
  BY <1>1, LoadShrinks DEF SetsInv, Keeps
<1> QED
  BY <1>2, <1>3, <1>4 DEF SetsInv

(* Steps of one client on the sets: who has a member is as its next step     *)
(* says, and every member left to nobody is counted as a failure.            *)
LEMMA ClientStep ==
    ASSUME TypeOK, SetsInv, Marked, NEW c \in Client, NEW n \in {0, 1},
           Touches(user, user', c, n), Touches(live, live', c, n),
           trouble' = trouble + n, NEW label \in Label, Goto(c, label),
           user'.held[c] # "none" <=> label \in HasSlot,
           live'.held[c] # "none" <=> label \in HasLease
    PROVE  /\ DeadInv' /\ HeldInv'
           /\ (c \in Holders(user') \union Holders(live') =>
                 c \in Holders(user) \union Holders(live) \union stripped') => SetsInv'
<1>1. user \in ZSet /\ live \in ZSet /\ user' \in ZSet /\ live' \in ZSet /\ trouble \in Nat
  BY DEF SetsInv, HeldInv, Touches, TypeOK
<1>2. DeadInv'
  BY <1>1, DeadType DEF SetsInv, DeadInv, Touches
<1>3. pc'[c] = label /\ \A d \in Client \ {c} : pc'[d] = pc[d]
  BY DEF Goto, TypeOK
<1>4. HeldInv'
  BY <1>1, <1>3 DEF SetsInv, HeldInv, Touches, Marked
<1>5. ASSUME c \in Holders(user') \union Holders(live') =>
                c \in Holders(user) \union Holders(live) \union stripped'
      PROVE  LoadInv'
  BY <1>1, <1>5, LoadShrinks DEF SetsInv, Touches
<1> QED
  BY <1>2, <1>4, <1>5 DEF SetsInv

(* The sets and the counter of failures, as every step finds them.           *)
LEMMA SetsFacts ==
    ASSUME TypeOK, SetsInv
    PROVE  /\ user \in ZSet /\ live \in ZSet /\ trouble \in Nat
           /\ Keeps(user, user) /\ Keeps(live, live)
           /\ Keeps(user, Purge(user)) /\ Keeps(live, Purge(live))
           /\ Purge(user) \in ZSet /\ Purge(live) \in ZSet
  BY KeepsEffect DEF TypeOK, SetsInv, HeldInv, Keeps

(* acquireScript for a client that has neither slot nor lease.               *)
LEMMA AcquireStep ==
    ASSUME TypeOK, SetsInv, NEW c \in Client, pc[c] \in {"try", "poll", "idle"},
           NEW won \in {"admitted", "create"}, NEW other \in {"poll", "leave", "idle"},
           AcquireUserSlot(c, won, other) \/ AcquireFails(c, other)
    PROVE  SetsInv'
<1> DEFINE u == Purge(user)
           l == Purge(live)
<1>1. /\ user.held[c] = "none" /\ live.held[c] = "none"
      /\ \A d \in Client \ {c} : Goto(c, other) => pc'[d] = pc[d]
      /\ Goto(c, other) => pc'[c] = other
  BY DEF SetsInv, HeldInv, HasSlot, HasLease, TypeOK, Goto
<1>2. /\ user \in ZSet /\ live \in ZSet /\ u \in ZSet /\ l \in ZSet /\ trouble \in Nat
      /\ Keeps(user, u) /\ Keeps(live, l)
  BY SetsFacts
<1>3. Touches(live, l, c, 0) /\ Touches(live, l, c, 1) /\ l.held[c] = "none"
  BY <1>1, <1>2, KeepsTouches, DeadType DEF Touches
<1>4. CASE HasRoom(u, l) /\ Redis(ZADD(u, c), l) /\ Goto(c, won) /\ Smooth
  <2>1. user' = ZADD(u, c) /\ live' = l /\ trouble' = trouble + 0
    BY <1>2, <1>4 DEF Redis, Smooth
  <2>2. Marked
    BY <1>4, MarkedByAll DEF SetsInv
  <2>3. Touches(user, user', c, 0) /\ user'.held[c] = "fresh"
    BY <1>2, <2>1, GetsEffect DEF Gets
  <2>4. won \in Label /\ won \in HasSlot /\ won \notin HasLease
    BY DEF Label, HasSlot, HasLease
  <2>5. DeadInv' /\ HeldInv'
    BY <1>3, <1>4, <2>1, <2>2, <2>3, <2>4, ClientStep
  <2>6. LoadInv'
    BY <1>2, <1>4, <2>1, LoadGrows
  <2> QED
    BY <2>5, <2>6 DEF SetsInv
<1>5. CASE Redis(u, l) /\ Goto(c, other) /\ Smooth
  <2>1. user' = u /\ live' = l /\ trouble' = trouble
    BY <1>5 DEF Redis, Smooth
  <2>2. Marked
    BY <1>5, MarkedByAll DEF SetsInv
  <2>3. \A d \in Client : /\ pc'[d] \in HasSlot <=> pc[d] \in HasSlot
                          /\ pc'[d] \in HasLease <=> pc[d] \in HasLease
    BY <1>1, <1>5 DEF HasSlot, HasLease
  <2> QED
    BY <1>2, <2>1, <2>2, <2>3, QuietStep
<1>6. CASE Trouble /\ Goto(c, other) /\ UNCHANGED sets
  <2>1. user' = user /\ live' = live /\ trouble' = trouble + 1
    BY <1>6 DEF sets, Trouble
  <2>2. Marked
    BY <1>6, MarkedByAll DEF SetsInv
  <2>3. \A d \in Client : /\ pc'[d] \in HasSlot <=> pc[d] \in HasSlot
                          /\ pc'[d] \in HasLease <=> pc[d] \in HasLease
    BY <1>1, <1>6 DEF HasSlot, HasLease
  <2> QED
    BY <1>2, <2>1, <2>2, <2>3, QuietStep, SetsFacts
<1>7. CASE Trouble /\ Goto(c, other) /\ Redis(Orphan(ZADD(u, c), c), l)
  <2>1. user' = Orphan(ZADD(u, c), c) /\ live' = l /\ trouble' = trouble + 1
    BY <1>7 DEF Redis, Trouble
  <2>2. Marked
    BY <1>7, MarkedByAll DEF SetsInv
  <2>3. Touches(user, user', c, 1) /\ user'.held[c] = "none" /\ c \notin Holders(user')
    BY <1>2, <2>1, LosesEffect DEF Loses
  <2>4. other \in Label /\ other \notin HasSlot /\ other \notin HasLease
    BY DEF Label, HasSlot, HasLease
  <2>5. c \notin Holders(live')
    BY <1>3, <2>1 DEF Holders
  <2> QED
    BY <1>3, <1>7, <2>1, <2>2, <2>3, <2>4, <2>5, ClientStep
<1> QED
  BY <1>4, <1>5, <1>6, <1>7 DEF AcquireUserSlot, AcquireFails

(* releaseLiveLease by a client that has a lease or has lost it.             *)
LEMMA LeaseReleaseStep ==
    ASSUME TypeOK, SetsInv, NEW c \in Client, NEW l, Keeps(live, l), ReleaseLiveLease(c, l),
           NEW label \in Label, Goto(c, label), label \notin HasLease,
           label \in HasSlot <=> pc[c] \in HasSlot
    PROVE  SetsInv'
<1>1. user \in ZSet /\ live \in ZSet /\ trouble \in Nat /\ Keeps(user, user)
  BY SetsFacts
<1>2. Touches(user, user, c, 0) /\ Touches(user, user, c, 1)
  BY <1>1, KeepsTouches, DeadType DEF Touches
<1>3. user.held[c] # "none" <=> label \in HasSlot
  BY DEF SetsInv, HeldInv
<1>4. PICK n \in {0, 1} : /\ user' = user /\ Loses(live, live', c, n)
                          /\ trouble' = trouble + n /\ Marked
  <2>1. CASE Redis(user, ZREM(l, c)) /\ Smooth
    <3>1. Loses(live, ZREM(l, c), c, 0)
      BY <1>1, LosesEffect
    <3>2. Marked
      BY <2>1, MarkedByAll DEF SetsInv
    <3>3. user' = user /\ live' = ZREM(l, c) /\ trouble' = trouble + 0
      BY <1>1, <2>1 DEF Redis, Smooth
    <3> QED
      BY <3>1, <3>2, <3>3
  <2>2. CASE Redis(user, Orphan(l, c)) /\ Trouble
    <3>1. Loses(live, Orphan(l, c), c, 1)
      BY <1>1, LosesEffect
    <3>2. Marked
      BY <2>2, MarkedByAll DEF SetsInv
    <3>3. user' = user /\ live' = Orphan(l, c) /\ trouble' = trouble + 1
      BY <2>2 DEF Redis, Trouble
    <3> QED
      BY <3>1, <3>2, <3>3
  <2> QED
    BY <2>1, <2>2 DEF ReleaseLiveLease
<1>5. /\ Touches(user, user', c, n) /\ Touches(live, live', c, n)
      /\ user'.held[c] # "none" <=> label \in HasSlot
      /\ live'.held[c] = "none" /\ c \notin Holders(live')
  BY <1>2, <1>3, <1>4 DEF Loses
<1>6. c \in Holders(user') \union Holders(live') => c \in Holders(user)
  BY <1>4, <1>5 DEF Holders
<1> QED
  BY <1>4, <1>5, <1>6, ClientStep

(* Arrivals touch neither set.                                               *)
LEMMA ArriveSets ==
    ASSUME TypeOK, SetsInv, NEW c \in Client, Arrive(c)
    PROVE  SetsInv'
<1>1. CASE StartCall(c)
  BY <1>1, AcquireStep DEF StartCall
<1>2. CASE IncrementWaitCount(c) \/ IncrementFailsOpen(c) \/ EnterUncounted(c)
  <2>1. /\ pc[c] = "idle" /\ stripped' = stripped \ {c} /\ UNCHANGED <<user, live>>
        /\ trouble' = trouble \/ trouble' = trouble + 1
        /\ pc' = pc \/ Goto(c, "try")
    BY <1>2 DEF IncrementWaitCount, IncrementFailsOpen, EnterUncounted, Trouble
  <2>2. Marked
    BY <2>1, MarkedByAll DEF SetsInv
  <2>3. \A d \in Client : /\ pc'[d] \in HasSlot <=> pc[d] \in HasSlot
                          /\ pc'[d] \in HasLease <=> pc[d] \in HasLease
    BY <2>1 DEF TypeOK, Goto, HasSlot, HasLease
  <2>4. trouble' \in Nat /\ trouble <= trouble'
    BY <2>1, SetsFacts
  <2> QED
    BY <2>1, <2>2, <2>3, <2>4, SetsFacts, QuietStep
<1> QED
  BY <1>1, <1>2 DEF Arrive

(* The release of a slot: the member goes, or stays with nobody.             *)
LEMMA SlotReleaseSets ==
    ASSUME TypeOK, SetsInv, NEW c \in Client, ReleaseUserSlot(c)
    PROVE  SetsInv'
<1>1. /\ user \in ZSet /\ live \in ZSet /\ trouble \in Nat
      /\ Keeps(user, user) /\ Keeps(live, live)
  BY SetsFacts
<1>2. Touches(live, live, c, 0) /\ Touches(live, live, c, 1)
  BY <1>1, KeepsTouches, DeadType DEF Touches
<1>3. PICK label \in Label : /\ Goto(c, label) /\ label \notin HasSlot
                             /\ live.held[c] # "none" <=> label \in HasLease
  BY DEF ReleaseUserSlot, Label, HasSlot, HasLease, SetsInv, HeldInv
<1>4. PICK n \in {0, 1} : /\ live' = live /\ Loses(user, user', c, n)
                          /\ trouble' = trouble + n /\ Marked
  <2>1. CASE RefreshActiveIndex(ZREM(user, c)) /\ Smooth
    <3>1. Loses(user, Purge(ZREM(user, c)), c, 0)
      BY <1>1, LosesEffect
    <3>2. Redis(Purge(ZREM(user, c)), live)
      BY <2>1 DEF RefreshActiveIndex
    <3>3. Marked
      BY <3>2, MarkedByAll DEF SetsInv
    <3>4. live' = live /\ user' = Purge(ZREM(user, c)) /\ trouble' = trouble + 0
      BY <1>1, <2>1, <3>2 DEF Redis, Smooth
    <3> QED
      BY <3>1, <3>3, <3>4
  <2>2. ASSUME NEW u \in {ZREM(user, c), Orphan(user, c)}, Redis(u, live), Trouble
        PROVE  /\ live' = live /\ Loses(user, user', c, 1)
               /\ trouble' = trouble + 1 /\ Marked
    <3>1. Loses(user, ZREM(user, c), c, 0) /\ Loses(user, Orphan(user, c), c, 1)
      BY <1>1, LosesEffect
    <3>2. Loses(user, u, c, 1)
      BY <1>1, <3>1, DeadType DEF Loses, Touches
    <3>3. Marked
      BY <2>2, MarkedByAll DEF SetsInv
    <3> QED
      BY <2>2, <3>2, <3>3 DEF Redis, Trouble
  <2> QED
    BY <2>1, <2>2 DEF ReleaseUserSlot
<1>5. /\ Touches(user, user', c, n) /\ Touches(live, live', c, n)
      /\ user'.held[c] = "none" /\ c \notin Holders(user')
      /\ live'.held[c] # "none" <=> label \in HasLease
  BY <1>2, <1>3, <1>4 DEF Loses
<1>6. c \in Holders(user') \union Holders(live') => c \in Holders(live)
  BY <1>4, <1>5 DEF Holders
<1> QED
  BY <1>3, <1>4, <1>5, <1>6, ClientStep

(* A lease for a client that still has its slot, or is on record for having  *)
(* lost it: the load stays what it is.                                       *)
LEMMA LeaseSets ==
    ASSUME TypeOK, SetsInv, NEW c \in Client, AcquireLiveLease(c)
    PROVE  SetsInv'
<1> DEFINE l == Purge(live)
<1>1. /\ user \in ZSet /\ live \in ZSet /\ trouble \in Nat /\ l \in ZSet
      /\ Keeps(user, user) /\ Keeps(live, l) /\ Keeps(live, live)
  BY SetsFacts
<1>2. Touches(user, user, c, 0) /\ Touches(user, user, c, 1)
  BY <1>1, KeepsTouches, DeadType DEF Touches
<1>3. pc[c] = "create" /\ user.held[c] # "none" /\ live.held[c] = "none"
  BY DEF AcquireLiveLease, HasSlot, HasLease, SetsInv, HeldInv
<1>4. /\ "upstream" \in Label /\ "upstream" \in HasSlot /\ "upstream" \in HasLease
      /\ "drop" \in Label /\ "drop" \in HasSlot /\ "drop" \notin HasLease
      /\ "create" \in HasSlot /\ "create" \notin HasLease
  BY DEF Label, HasSlot, HasLease
<1>5. CASE Redis(user, ZADD(l, c)) /\ Goto(c, "upstream") /\ Smooth
  <2>1. user' = user /\ live' = ZADD(l, c) /\ trouble' = trouble + 0
    BY <1>1, <1>5 DEF Redis, Smooth
  <2>2. Marked
    BY <1>5, MarkedByAll DEF SetsInv
  <2>3. Touches(live, live', c, 0) /\ live'.held[c] # "none"
    BY <1>1, <2>1, GetsEffect DEF Gets
  <2>4. c \in Holders(user) \union stripped'
    <3>1. user.held[c] \in Age
      BY <1>1 DEF ZSet
    <3> QED
      BY <1>3, <2>1, <2>2, <3>1 DEF Age, Holders, Marked
  <2> QED
    BY <1>2, <1>3, <1>4, <1>5, <2>1, <2>2, <2>3, <2>4, ClientStep
<1>6. CASE Redis(user, l) /\ Goto(c, "drop") /\ Smooth
  <2>1. user' = user /\ live' = l /\ trouble' = trouble
    BY <1>6 DEF Redis, Smooth
  <2>2. Marked
    BY <1>6, MarkedByAll DEF SetsInv
  <2>3. \A d \in Client : /\ pc'[d] \in HasSlot <=> pc[d] \in HasSlot
                          /\ pc'[d] \in HasLease <=> pc[d] \in HasLease
    BY <1>3, <1>4, <1>6 DEF TypeOK, Goto
  <2> QED
    BY <1>1, <2>1, <2>2, <2>3, QuietStep
<1>7. CASE Trouble /\ Goto(c, "drop") /\ UNCHANGED sets
  <2>1. user' = user /\ live' = live /\ trouble' = trouble + 1
    BY <1>7 DEF sets, Trouble
  <2>2. Marked
    BY <1>7, MarkedByAll DEF SetsInv
  <2>3. \A d \in Client : /\ pc'[d] \in HasSlot <=> pc[d] \in HasSlot
                          /\ pc'[d] \in HasLease <=> pc[d] \in HasLease
    BY <1>3, <1>4, <1>7 DEF TypeOK, Goto
  <2> QED
    BY <1>1, <2>1, <2>2, <2>3, QuietStep
<1>8. CASE Trouble /\ Goto(c, "drop") /\ Redis(user, Orphan(ZADD(l, c), c))
  <2>1. user' = user /\ live' = Orphan(ZADD(l, c), c) /\ trouble' = trouble + 1
    BY <1>8 DEF Redis, Trouble
  <2>2. Marked
    BY <1>8, MarkedByAll DEF SetsInv
  <2>3. Touches(live, live', c, 1) /\ live'.held[c] = "none" /\ c \notin Holders(live')
    BY <1>1, <2>1, LosesEffect DEF Loses
  <2> QED
    BY <1>2, <1>3, <1>4, <1>8, <2>1, <2>2, <2>3, ClientStep
<1> QED
  BY <1>5, <1>6, <1>7, <1>8 DEF AcquireLiveLease

(* The other steps of a live call: its lease is refreshed or given back.     *)
LEMMA CallSets ==
    ASSUME TypeOK, SetsInv, NEW c \in Client,
           CreateUpstreamLiveCall(c) \/ RefreshLiveLease(c) \/ FinalizeLiveCall(c)
    PROVE  SetsInv'
<1> DEFINE l == Purge(live)
<1>1. /\ user \in ZSet /\ live \in ZSet /\ trouble \in Nat /\ l \in ZSet
      /\ Keeps(user, user) /\ Keeps(live, l) /\ Keeps(live, live)
  BY SetsFacts
<1>2. \A x \in {"create", "drop", "idle"} : x \in Label /\ x \notin HasLease
  BY DEF Label, HasLease
<1>3. /\ \A x \in {"create", "drop", "upstream"} : x \in HasSlot
      /\ \A x \in {"idle", "session"} : x \notin HasSlot
      /\ "session" \in Label /\ "session" \in HasLease
  BY DEF Label, HasSlot, HasLease
<1>4. CASE pc[c] = "upstream" /\ Goto(c, "handoff") /\ UNCHANGED sets /\ Smooth
  <2>1. user' = user /\ live' = live /\ trouble' = trouble
    BY <1>4 DEF sets, Smooth
  <2>2. Marked
    BY <1>4, MarkedByAll DEF SetsInv
  <2>3. \A d \in Client : /\ pc'[d] \in HasSlot <=> pc[d] \in HasSlot
                          /\ pc'[d] \in HasLease <=> pc[d] \in HasLease
    BY <1>4 DEF TypeOK, Goto, HasSlot, HasLease
  <2> QED
    BY <1>1, <2>1, <2>2, <2>3, QuietStep
<1>5. ASSUME pc[c] = "upstream", ReleaseLiveLease(c, live),
             NEW label \in {"create", "drop"}, Goto(c, label)
      PROVE  SetsInv'
  BY <1>1, <1>2, <1>3, <1>5, LeaseReleaseStep
<1>6. CASE pc[c] = "session" /\ Goto(c, "idle") /\ (ReleaseLiveLease(c, l) \/ ReleaseLiveLease(c, live))
  BY <1>1, <1>2, <1>3, <1>6, LeaseReleaseStep
<1>7. CASE pc[c] = "session" /\ c \in Holders(l) /\ Redis(user, ZADD(l, c))
           /\ Goto(c, "session") /\ Smooth
  <2>1. user' = user /\ live' = ZADD(l, c) /\ trouble' = trouble + 0
    BY <1>1, <1>7 DEF Redis, Smooth
  <2>2. Marked
    BY <1>7, MarkedByAll DEF SetsInv
  <2>3. Touches(live, live', c, 0) /\ live'.held[c] # "none"
    BY <1>1, <2>1, GetsEffect DEF Gets
  <2>4. Touches(user, user, c, 0) /\ user.held[c] = "none"
    BY <1>1, <1>3, <1>7, KeepsTouches DEF SetsInv, HeldInv
  <2>5. c \in Holders(live)
    BY <1>1, <1>7 DEF Keeps
  <2> QED
    BY <1>3, <1>7, <2>1, <2>2, <2>3, <2>4, <2>5, ClientStep
<1> QED
  BY <1>4, <1>5, <1>6, <1>7 DEF CreateUpstreamLiveCall, RefreshLiveLease, FinalizeLiveCall

(* A count given back, a request that gives up, and the end of a drain.      *)
LEMMA WaitSets ==
    ASSUME TypeOK, SetsInv, NEW c \in Client, DecrementWaitCount(c) \/ GiveUp(c) \/ EndDrain(c)
    PROVE  SetsInv'
<1>1. /\ user \in ZSet /\ live \in ZSet /\ trouble \in Nat
      /\ Keeps(user, user) /\ Keeps(user, Purge(user)) /\ Keeps(live, live)
  BY SetsFacts
<1>2. \/ UNCHANGED sets
      \/ Redis(Purge(user), live)
  BY DEF DecrementWaitCount, GiveUp, EndDrain, RefreshActiveIndex
<1>3. Marked
  BY <1>2, MarkedByAll DEF SetsInv
<1>4. Keeps(user, user') /\ Keeps(live, live')
  BY <1>1, <1>2 DEF sets, Redis
<1>5. trouble' = trouble \/ trouble' = trouble + 1
  BY DEF DecrementWaitCount, GiveUp, EndDrain, Smooth, Trouble
<1>6. \A d \in Client : /\ pc'[d] \in HasSlot <=> pc[d] \in HasSlot
                        /\ pc'[d] \in HasLease <=> pc[d] \in HasLease
  BY DEF DecrementWaitCount, GiveUp, EndDrain, TypeOK, Goto, HasSlot, HasLease
<1> QED
  BY <1>1, <1>3, <1>4, <1>5, <1>6, QuietStep

(* The death of a client leaves slot and lease to nobody.                    *)
LEMMA DeathSets ==
    ASSUME TypeOK, SetsInv, NEW c \in Client, InstanceDies(c)
    PROVE  SetsInv'
<1>1. /\ user \in ZSet /\ live \in ZSet /\ Keeps(user, user) /\ Keeps(live, live)
  BY SetsFacts
<1>2. /\ user' = Orphan(user, c) /\ live' = Orphan(live, c) /\ trouble' = trouble + 1
      /\ Goto(c, "idle") /\ Redis(Orphan(user, c), Orphan(live, c))
  BY DEF InstanceDies, Redis, Trouble
<1>3. Marked
  BY <1>2, MarkedByAll DEF SetsInv
<1>4. Loses(user, user', c, 1) /\ Loses(live, live', c, 1)
  BY <1>1, <1>2, LosesEffect
<1>5. "idle" \in Label /\ "idle" \notin HasSlot /\ "idle" \notin HasLease
  BY DEF Label, HasSlot, HasLease
<1> QED
  BY <1>2, <1>3, <1>4, <1>5, ClientStep DEF Loses

(* Every step keeps the sets: nobody but a client that is granted a slot     *)
(* adds to the load.                                                         *)
LEMMA SetsStep ==
    ASSUME TypeOK, SetsInv, [Next]_vars
    PROVE  SetsInv'
<1>1. /\ user \in ZSet /\ live \in ZSet /\ trouble \in Nat
      /\ Keeps(user, user) /\ Keeps(live, live)
  BY SetsFacts
<1>2. ASSUME NEW c \in Client,
             Arrive(c) \/ Proceed(c) \/ SlotAges(c) \/ LeaseAges(c) \/ InstanceDies(c)
      PROVE  SetsInv'
  <2>1. CASE Arrive(c)
    BY <2>1, ArriveSets
  <2>2. CASE TryAcquire(c)
    BY <2>2, AcquireStep DEF TryAcquire
  <2>3. CASE ReleaseUserSlot(c)
    BY <2>3, SlotReleaseSets
  <2>4. CASE AcquireLiveLease(c)
    BY <2>4, LeaseSets
  <2>5. CASE CreateUpstreamLiveCall(c) \/ RefreshLiveLease(c) \/ FinalizeLiveCall(c)
    BY <2>5, CallSets
  <2>6. CASE DecrementWaitCount(c) \/ GiveUp(c) \/ EndDrain(c)
    BY <2>6, WaitSets
  <2>7. CASE InstanceDies(c)
    BY <2>7, DeathSets
  <2>8. CASE SlotAges(c)
    <3>1. Keeps(user, user') /\ live' = live /\ pc' = pc /\ trouble' = trouble
      BY <1>1, <2>8, KeepsEffect DEF SlotAges, Redis
    <3>2. Marked
      BY <2>8, MarkedByAll DEF SetsInv, SlotAges
    <3> QED
      BY <1>1, <3>1, <3>2, QuietStep
  <2>9. CASE LeaseAges(c)
    <3>1. Keeps(live, live') /\ user' = user /\ pc' = pc /\ trouble' = trouble
      BY <1>1, <2>9, KeepsEffect DEF LeaseAges, Redis
    <3>2. Marked
      BY <2>9, MarkedByAll DEF SetsInv, LeaseAges
    <3> QED
      BY <1>1, <3>1, <3>2, QuietStep
  <2> QED
    BY <1>2, <2>1, <2>2, <2>3, <2>4, <2>5, <2>6, <2>7, <2>8, <2>9 DEF Proceed
<1>3. CASE \/ DeadAge \/ UserKeyExpires \/ LiveKeyExpires \/ WaitKeyAges \/ WaitKeyExpires
           \/ CleanupExpired \/ StartInstance \/ CleanupStaleProcessSlots \/ UNCHANGED vars
  <2>1. /\ pc' = pc /\ trouble' \in {trouble, trouble + 1}
        /\ \/ UNCHANGED sets
           \/ \E u \in {user, Purge(user), Emptied(user), Aged(user)},
                 l \in {live, Emptied(live), Aged(live)} : Redis(u, l)
    BY <1>3 DEF DeadAge, UserKeyExpires, LiveKeyExpires, WaitKeyAges, WaitKeyExpires,
                CleanupExpired, StartInstance, CleanupStaleProcessSlots, Trouble, Smooth, vars, sets
  <2>2. Marked
    BY <2>1, MarkedByAll DEF SetsInv
  <2>3. Keeps(user, user') /\ Keeps(live, live')
    BY <1>1, <2>1, KeepsEffect DEF Redis, sets
  <2> QED
    BY <1>1, <2>1, <2>2, <2>3, QuietStep
<1> QED
  BY <1>2, <1>3 DEF Next

-----------------------------------------------------------------------------
(* What a step may do to the queue: nothing (but let the counter age); count *)
(* a request, or fail to; give a count back, once or not at all; or lose the *)
(* counter.                                                                  *)
QueueStays == waitOld' \in BOOLEAN /\ UNCHANGED <<waitCount, counted, miscounted>>
Enqueues(c) ==
    /\ c \in Request /\ counted' = counted \union {c} /\ waitOld' \in BOOLEAN
    /\ \/ waitCount < MaxWait /\ waitCount' = waitCount + 1 /\ UNCHANGED miscounted
       \/ waitCount' = waitCount /\ miscounted' = TRUE
Dequeues(c) ==
    /\ \E n \in {waitCount, Decremented} : Uncount(c, n)
    /\ c \in counted \/ waitCount' = waitCount
Vanishes == WaitKeyGone /\ waitOld' \in BOOLEAN /\ UNCHANGED counted

(* Every step is one of these.                                               *)
LEMMA QueueCases ==
    ASSUME TypeOK, [Next]_vars
    PROVE  QueueStays \/ Vanishes \/ \E c \in Client : Enqueues(c) \/ Dequeues(c)
<1> USE DEF TypeOK, queue
<1>1. ASSUME NEW c \in Client,
             Arrive(c) \/ Proceed(c) \/ SlotAges(c) \/ LeaseAges(c) \/ InstanceDies(c)
      PROVE  QueueStays \/ Enqueues(c) \/ Dequeues(c)
  <2>1. CASE IncrementWaitCount(c)
    BY <2>1 DEF IncrementWaitCount, QueueStays, Enqueues
  <2>2. CASE IncrementFailsOpen(c)
    BY <2>2 DEF IncrementFailsOpen, QueueStays, Enqueues
  <2>3. CASE EnterUncounted(c) \/ StartCall(c)
    BY <2>3 DEF EnterUncounted, StartCall, QueueStays
  <2>4. CASE DecrementWaitCount(c)
    BY <2>4 DEF DecrementWaitCount, QueueStays, Dequeues
  <2>5. CASE \/ TryAcquire(c) \/ GiveUp(c) \/ ReleaseUserSlot(c) \/ EndDrain(c)
             \/ AcquireLiveLease(c) \/ CreateUpstreamLiveCall(c) \/ RefreshLiveLease(c) \/ FinalizeLiveCall(c)
             \/ SlotAges(c) \/ LeaseAges(c)
    BY <2>5 DEF TryAcquire, GiveUp, ReleaseUserSlot, EndDrain, AcquireLiveLease,
                CreateUpstreamLiveCall, RefreshLiveLease, FinalizeLiveCall, SlotAges, LeaseAges, QueueStays
  <2>6. CASE InstanceDies(c)
    BY <2>6 DEF InstanceDies, Dequeues, Uncount
  <2> QED
    BY <1>1, <2>1, <2>2, <2>3, <2>4, <2>5, <2>6 DEF Arrive, Proceed
<1>2. CASE \/ DeadAge \/ UserKeyExpires \/ LiveKeyExpires \/ WaitKeyAges
           \/ CleanupExpired \/ StartInstance \/ UNCHANGED vars
  BY <1>2 DEF DeadAge, UserKeyExpires, LiveKeyExpires, WaitKeyAges, CleanupExpired,
              StartInstance, vars, QueueStays
<1>3. CASE WaitKeyExpires
  BY <1>3 DEF WaitKeyExpires, Vanishes
<1>4. CASE CleanupStaleProcessSlots
  BY <1>4 DEF CleanupStaleProcessSlots, Vanishes, QueueStays
<1> QED
  BY <1>1, <1>2, <1>3, <1>4 DEF Next

(* The rest of the types: the counter stays within CalculateMaxWait.         *)
LEMMA TypeStep ==
    ASSUME TypeOK, SetsInv, SetsInv', [Next]_vars
    PROVE  TypeOK'
<1>2. MaxWait \in Nat \ {0} /\ MaxTrouble \in Nat
  BY SlotsAssumption DEF MaxWait
<1>3. trouble' \in 0..MaxTrouble
  <2>1. UNCHANGED trouble \/ Trouble
    BY DEF Next, Arrive, Proceed, IncrementWaitCount, IncrementFailsOpen, EnterUncounted,
           StartCall, AcquireUserSlot, AcquireFails, DecrementWaitCount, TryAcquire, GiveUp, EndDrain,
           ReleaseUserSlot, AcquireLiveLease, CreateUpstreamLiveCall, RefreshLiveLease,
           FinalizeLiveCall, ReleaseLiveLease, SlotAges, LeaseAges, InstanceDies, DeadAge,
           UserKeyExpires, LiveKeyExpires, WaitKeyAges, WaitKeyExpires, CleanupExpired,
           StartInstance, CleanupStaleProcessSlots, Smooth, vars
  <2> QED
    BY <1>2, <2>1 DEF Trouble, TypeOK
<1>4. user' \in Members /\ live' \in Members
  <2>1. ASSUME NEW z \in ZSet, Dead(z) <= trouble'
        PROVE  z \in Members
    <3>1. z.dead["fresh"] \in 0..MaxTrouble /\ z.dead["old"] \in 0..MaxTrouble
      BY <1>2, <1>3, <2>1, DeadType DEF Dead
    <3>2. z.dead \in [{"fresh", "old"} -> 0..MaxTrouble]
      BY <3>1 DEF ZSet
    <3> QED
      BY <3>2 DEF ZSet, Members
  <2> QED
    BY <2>1 DEF SetsInv, HeldInv, DeadInv
<1>5. stripped' \subseteq Client
  <2>1. \/ stripped' \subseteq stripped
        \/ \E u, l : Redis(u, l)
    BY DEF Next, Arrive, Proceed, IncrementWaitCount, IncrementFailsOpen, EnterUncounted,
           StartCall, AcquireUserSlot, AcquireFails, DecrementWaitCount, TryAcquire, GiveUp, EndDrain,
           ReleaseUserSlot, RefreshActiveIndex, AcquireLiveLease, CreateUpstreamLiveCall,
           RefreshLiveLease, FinalizeLiveCall, ReleaseLiveLease, SlotAges, LeaseAges,
           InstanceDies, DeadAge, UserKeyExpires, LiveKeyExpires, WaitKeyAges, WaitKeyExpires,
           CleanupExpired, StartInstance, CleanupStaleProcessSlots, vars, sets
  <2> QED
    BY <2>1 DEF Redis, TypeOK
<1>6. pc' \in [Client -> Label]
  <2>1. pc' = pc \/ \E c \in Client, label \in Label : Goto(c, label)
    BY DEF Next, Arrive, Proceed, IncrementWaitCount, IncrementFailsOpen, EnterUncounted,
           StartCall, AcquireUserSlot, AcquireFails, DecrementWaitCount, TryAcquire, GiveUp, EndDrain,
           ReleaseUserSlot, AcquireLiveLease, CreateUpstreamLiveCall, RefreshLiveLease,
           FinalizeLiveCall, SlotAges, LeaseAges, InstanceDies, DeadAge, UserKeyExpires,
           LiveKeyExpires, WaitKeyAges, WaitKeyExpires, CleanupExpired, StartInstance,
           CleanupStaleProcessSlots, vars, Label
  <2> QED
    BY <2>1 DEF Goto, TypeOK
<1>7. starter' \in {"idle", "slots", "wait"}
  BY DEF TypeOK, Next, Arrive, Proceed, IncrementWaitCount, IncrementFailsOpen, EnterUncounted,
         StartCall, DecrementWaitCount, TryAcquire, GiveUp, EndDrain, ReleaseUserSlot, AcquireLiveLease,
         CreateUpstreamLiveCall, RefreshLiveLease, FinalizeLiveCall, SlotAges, LeaseAges,
         InstanceDies, DeadAge, UserKeyExpires, LiveKeyExpires, WaitKeyAges, WaitKeyExpires,
         CleanupExpired, StartInstance, CleanupStaleProcessSlots, vars
<1>8. /\ waitCount' \in 0..MaxWait /\ waitOld' \in BOOLEAN
      /\ counted' \subseteq Request /\ miscounted' \in BOOLEAN
  <2>1. waitCount \in 0..MaxWait /\ counted \subseteq Request
    BY DEF TypeOK
  <2>2. waitCount' \in 0..MaxWait
    <3>1. Decremented \in 0..MaxWait
      BY <1>2, <2>1 DEF Decremented
    <3>2. \/ waitCount' \in {waitCount, Decremented, 0}
          \/ waitCount < MaxWait /\ waitCount' = waitCount + 1
      BY QueueCases DEF QueueStays, Enqueues, Dequeues, Vanishes, Uncount, WaitKeyGone
    <3> QED
      BY <1>2, <2>1, <3>1, <3>2
  <2>3. counted' \subseteq Request
    BY <2>1, QueueCases DEF QueueStays, Enqueues, Dequeues, Vanishes, Uncount
  <2>4. waitOld' \in BOOLEAN
    BY QueueCases DEF QueueStays, Enqueues, Dequeues, Vanishes, Uncount, TypeOK
  <2>5. miscounted' \in BOOLEAN
    BY QueueCases DEF QueueStays, Enqueues, Dequeues, Vanishes, Uncount, WaitKeyGone, TypeOK
  <2> QED
    BY <2>2, <2>3, <2>4, <2>5
<1> QED
  BY <1>3, <1>4, <1>5, <1>6, <1>7, <1>8 DEF TypeOK

(* The counter covers whoever is counted, unless it is known to be wrong.    *)
LEMMA QueueStep ==
    ASSUME TypeOK, QueueIsBounded, [Next]_vars
    PROVE  QueueIsBounded'
<1>1. /\ IsFiniteSet(counted) /\ Cardinality(counted) \in Nat
      /\ waitCount \in Nat /\ miscounted \in BOOLEAN
  BY SlotsAssumption, FS_Subset, FS_CardinalityType DEF TypeOK
<1>2. CASE QueueStays
  BY <1>2 DEF QueueStays, QueueIsBounded
<1>3. CASE Vanishes
  <2>1. ~miscounted' => counted' = {} /\ waitCount' = 0
    BY <1>1, <1>3 DEF Vanishes, WaitKeyGone
  <2> QED
    BY <2>1, FS_EmptySet DEF QueueIsBounded
<1>4. ASSUME NEW c \in Client, Enqueues(c)
      PROVE  QueueIsBounded'
  <2>1. Cardinality(counted \union {c}) \in {Cardinality(counted), Cardinality(counted) + 1}
    BY <1>1, FS_AddElement
  <2>2. counted' = counted \union {c}
    BY <1>4 DEF Enqueues
  <2>3. ~miscounted' => waitCount' = waitCount + 1 /\ ~miscounted
    BY <1>4 DEF Enqueues
  <2> QED
    BY <1>1, <2>1, <2>2, <2>3 DEF QueueIsBounded
<1>5. ASSUME NEW c \in Client, Dequeues(c)
      PROVE  QueueIsBounded'
  <2>1. counted' = counted \ {c} /\ miscounted' = (miscounted /\ counted # {c})
    BY <1>5 DEF Dequeues, Uncount
  <2>2. CASE counted = {c}
    <3>1. counted' = {} /\ waitCount' \in Nat
      BY <1>1, <1>5, <2>1, <2>2 DEF Dequeues, Uncount, Decremented
    <3> QED
      BY <3>1, FS_EmptySet DEF QueueIsBounded
  <2>3. CASE counted # {c}
    <3>1. miscounted' = miscounted
      BY <1>1, <2>1, <2>3
    <3>2. CASE c \in counted
      <4>1. Cardinality(counted') = Cardinality(counted) - 1
        BY <1>1, <2>1, <3>2, FS_RemoveElement
      <4>2. waitCount' \in {waitCount, Decremented}
        BY <1>5 DEF Dequeues, Uncount
      <4>3. waitCount' \in Nat /\ waitCount - 1 <= waitCount'
        BY <1>1, <4>2 DEF Decremented
      <4> QED
        BY <1>1, <3>1, <4>1, <4>3 DEF QueueIsBounded
    <3>3. CASE c \notin counted
      <4>1. counted' = counted /\ waitCount' = waitCount
        BY <1>5, <2>1, <3>3 DEF Dequeues
      <4> QED
        BY <3>1, <4>1 DEF QueueIsBounded
    <3> QED
      BY <3>2, <3>3
  <2> QED
    BY <2>2, <2>3
<1> QED
  BY <1>2, <1>3, <1>4, <1>5, QueueCases

-----------------------------------------------------------------------------
(* Every behaviour keeps the sets, the queue and their clients together.     *)
THEOREM InductiveInvariant == Spec => []IInv
<1>1. Init => IInv
  <2> SUFFICES ASSUME Init
               PROVE  IInv
    OBVIOUS
  <2>1. Empty \in Members /\ Empty \in ZSet /\ Dead(Empty) = 0 /\ Holders(Empty) = {}
    BY SlotsAssumption DEF Empty, Members, ZSet, Age, Dead, Holders
  <2>2. TypeOK
    <3>1. MaxWait \in Nat /\ MaxTrouble \in Nat
      BY SlotsAssumption DEF MaxWait
    <3>2. waitOld \in BOOLEAN /\ miscounted \in BOOLEAN
      BY DEF Init
    <3>3. waitCount \in 0..MaxWait /\ trouble \in 0..MaxTrouble
      BY <3>1 DEF Init
    <3>4. pc \in [Client -> Label] /\ counted \subseteq Request /\ stripped \subseteq Client
      BY DEF Init, Label
    <3> QED
      BY <2>1, <3>2, <3>3, <3>4 DEF Init, TypeOK
  <2>3. DeadInv /\ HeldInv
    BY <2>1 DEF Init, DeadInv, HeldInv, Empty, HasSlot, HasLease
  <2>4. LoadInv
    <3>1. Load = {}
      BY <2>1 DEF Init, Load
    <3> QED
      BY <3>1, FS_EmptySet, SlotsAssumption DEF LoadInv
  <2>5. QueueIsBounded
    BY FS_EmptySet DEF Init, QueueIsBounded
  <2> QED
    BY <2>2, <2>3, <2>4, <2>5 DEF IInv
<1>2. IInv /\ [Next]_vars => IInv'
  BY SetsStep, TypeStep, QueueStep DEF IInv, SetsInv
<1> QED
  BY <1>1, <1>2, PTL DEF Spec

(* The variables of ConcurrencySlots keep their types: the counter stays     *)
(* between zero and CalculateMaxWait.                                        *)
THEOREM TypeCorrect == Spec => []TypeOK
  BY InductiveInvariant, PTL DEF IInv

(* Whatever fails, no user has more work in progress for clients that are    *)
(* still there than its concurrency, except for work that has lost its slot  *)
(* or lease.  A request whose client is gone has no slot and is not in this  *)
(* bound, however long it goes on reading its upstream.                      *)
THEOREM GateHolds == Spec => []WorkIsBounded
<1>1. IInv => WorkIsBounded
  <2> SUFFICES ASSUME IInv
               PROVE  Cardinality(Working \ stripped) <= MaxConcurrency
    BY DEF WorkIsBounded
  <2>1. user \in ZSet /\ live \in ZSet
    BY DEF IInv, HeldInv
  <2>2. Working \ stripped \subseteq Load
    <3> SUFFICES ASSUME NEW c \in Working \ stripped
                 PROVE  c \in Load
      OBVIOUS
    <3>1. c \in Client /\ pc[c] \in HasSlot \union HasLease
      BY DEF Working, HasSlot, HasLease
    <3>2. /\ user.held[c] # "none" \/ live.held[c] # "none"
          /\ user.held[c] # "gone" /\ live.held[c] # "gone"
      BY <3>1 DEF IInv, HeldInv
    <3>3. user.held[c] \in Age /\ live.held[c] \in Age
      BY <2>1, <3>1 DEF ZSet
    <3> QED
      BY <3>1, <3>2, <3>3 DEF Age, Load, Holders
  <2>3. IsFiniteSet(Holders(user) \union Holders(live))
    BY <2>1, CardType, FS_Union
  <2>4. IsFiniteSet(Load)
    <3>1. Load \subseteq Holders(user) \union Holders(live)
      BY DEF Load
    <3> QED
      BY <2>3, <3>1, FS_Subset
  <2>5. /\ Cardinality(Working \ stripped) \in Nat /\ Cardinality(Load) \in Nat
        /\ Cardinality(Working \ stripped) <= Cardinality(Load)
    BY <2>2, <2>4, FS_Subset, FS_CardinalityType
  <2> QED
    BY <2>5, SlotsAssumption DEF IInv, LoadInv
<1> QED
  BY <1>1, InductiveInvariant, PTL

(* The counter of waiting requests covers every counted request, so that     *)
(* IncrementWaitCount admits no more than CalculateMaxWait, unless it is     *)
(* known to have missed one of those counted now.                            *)
THEOREM QueueHolds == Spec => []QueueIsBounded
  BY InductiveInvariant, PTL DEF IInv
=============================================================================
