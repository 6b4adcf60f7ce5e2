---------------------------- MODULE RustCcrStore ----------------------------
(***************************************************************************)
(* crates/legroom-core/src/ccr/backends/in_memory.rs: the concurrent CCR   *)
(* store of the Rust proxy, a sharded map for the payloads and a mutexed   *)
(* FIFO of hashes for capacity eviction.                                   *)
(*                                                                         *)
(* There is no lock over the whole: an access to the map is atomic, an     *)
(* access to the queue is atomic under its mutex, and everything between   *)
(* two of them interleaves.  Payloads are left out (a hash determines its  *)
(* payload); an entry is its `inserted' instant and its rank.              *)
(***************************************************************************)
EXTENDS Integers, Sequences, FiniteSets, SequencesExt

CONSTANTS
    Keys,      \* hashes
    Threads,   \* callers of put() and get()
    Capacity,  \* capacity
    TTL,       \* ttl
    Absent,    \* not in the map
    NoThread,  \* nobody holds the mutex
    MaxTime,   \* bound: the clock stops here
    MaxInserts \* bound: no put() of a new hash starts after as many insertions

ASSUME RustKeysAssumption     == IsFiniteSet(Keys) /\ Absent \notin Keys
ASSUME RustThreadsAssumption  == IsFiniteSet(Threads) /\ NoThread \notin Threads
ASSUME RustCapacityAssumption == Capacity \in Nat \ {0}
ASSUME RustBoundsAssumption   == TTL \in Nat /\ MaxTime \in Nat /\ MaxInserts \in Nat

Entry == [inserted : Nat, rank : Nat]
ASSUME RustAbsentAssumption == Absent \notin Entry

VARIABLES
    now,     \* Instant::now()
    map,     \* the map: hash -> entry or Absent
    order,   \* the queue of hashes
    mutex,   \* holder of the queue's mutex
    pc,      \* where each thread is
    arg,     \* the hash its call is about
    victim,  \* the hash evict_until_under_capacity() has popped
    ranks    \* history: insertions so far (orders the entries)

vars == <<now, map, order, mutex, pc, arg, victim, ranks>>

Present    == {k \in Keys : map[k] # Absent}
Expired(e) == now - e.inserted > TTL

FullOffByOne == Cardinality(Present) > Capacity  \* mutant
Full == Cardinality(Present) >= Capacity

IsTrulyNew(k) == map[k] = Absent

PeekedFront == order  \* mutant
WithoutFront == Tail(order)

\* mutant: check under the read lock, remove later
RemoveAnyway(k) == map[k] # Absent
RemoveIfExpired(k) == map[k] # Absent /\ Expired(map[k])

Init ==
    /\ now = 0
    /\ map = [k \in Keys |-> Absent]
    /\ order = <<>>
    /\ mutex = NoThread
    /\ pc = [t \in Threads |-> "idle"]
    /\ arg = [t \in Threads |-> Absent]
    /\ victim = [t \in Threads |-> Absent]
    /\ ranks = 0

Goto(t, label) == pc' = [pc EXCEPT ![t] = label]

-----------------------------------------------------------------------------
(* put() *)

\* The hash is there: refresh in place, leave the queue alone.
PutRefresh(t, k) ==
    /\ pc[t] = "idle"
    /\ map[k] # Absent
    /\ map' = [map EXCEPT ![k].inserted = now]
    /\ UNCHANGED <<now, order, mutex, pc, arg, victim, ranks>>

\* get_mut() misses.
PutMiss(t, k) ==
    /\ pc[t] = "idle"
    /\ map[k] = Absent
    /\ ranks < MaxInserts
    /\ arg' = [arg EXCEPT ![t] = k]
    /\ Goto(t, "check")
    /\ UNCHANGED <<now, map, order, mutex, victim, ranks>>

\* The length is compared with the capacity before the mutex is taken ...
PutCheck(t) ==
    /\ pc[t] = "check"
    /\ Goto(t, IF Full THEN "lock" ELSE "insert")
    /\ UNCHANGED <<now, map, order, mutex, arg, victim, ranks>>

EvictLock(t) ==
    /\ pc[t] = "lock"
    /\ mutex = NoThread
    /\ mutex' = t
    /\ Goto(t, "evict")
    /\ UNCHANGED <<now, map, order, arg, victim, ranks>>

\* ... and again in the loop under it, which pops one hash ...
EvictPop(t) ==
    /\ pc[t] = "evict"
    /\ Full
    /\ order # <<>>
    /\ victim' = [victim EXCEPT ![t] = Head(order)]
    /\ order' = WithoutFront
    /\ Goto(t, "remove")
    /\ UNCHANGED <<now, map, mutex, arg, ranks>>

\* ... removes whatever the map now holds under it ...
EvictRemove(t) ==
    /\ pc[t] = "remove"
    /\ map' = [map EXCEPT ![victim[t]] = Absent]
    /\ victim' = [victim EXCEPT ![t] = Absent]
    /\ Goto(t, "evict")
    /\ UNCHANGED <<now, order, mutex, arg, ranks>>

\* ... and ends when there is room or the queue is empty.
EvictDone(t) ==
    /\ pc[t] = "evict"
    /\ ~Full \/ order = <<>>
    /\ mutex' = NoThread
    /\ Goto(t, "insert")
    /\ UNCHANGED <<now, map, order, arg, victim, ranks>>

\* insert(): a hash nobody inserted in between still has to be queued.
PutInsert(t) ==
    /\ pc[t] = "insert"
    /\ map' = [map EXCEPT ![arg[t]] =
                 [inserted |-> now,
                  rank |-> IF map[arg[t]] = Absent THEN ranks ELSE map[arg[t]].rank]]
    /\ ranks' = IF map[arg[t]] = Absent THEN ranks + 1 ELSE ranks
    /\ IF IsTrulyNew(arg[t])
       THEN Goto(t, "append") /\ UNCHANGED arg
       ELSE Goto(t, "idle") /\ arg' = [arg EXCEPT ![t] = Absent]
    /\ UNCHANGED <<now, order, mutex, victim>>

PutAppend(t) ==
    /\ pc[t] = "append"
    /\ mutex = NoThread
    /\ order' = Append(order, arg[t])
    /\ Goto(t, "idle")
    /\ arg' = [arg EXCEPT ![t] = Absent]
    /\ UNCHANGED <<now, map, mutex, victim, ranks>>

-----------------------------------------------------------------------------
(* get() *)

\* A miss or a fresh hit changes nothing.
GetRead(t, k) ==
    /\ pc[t] = "idle"
    /\ IF map[k] # Absent /\ Expired(map[k])
       THEN Goto(t, "expire") /\ arg' = [arg EXCEPT ![t] = k]
       ELSE UNCHANGED <<pc, arg>>
    /\ UNCHANGED <<now, map, order, mutex, victim, ranks>>

\* mutant: the hash is also dropped from the queue, refreshed meanwhile or not
GetExpireUnqueue(t) ==
    /\ pc[t] = "expire"
    /\ map' = IF RemoveIfExpired(arg[t]) THEN [map EXCEPT ![arg[t]] = Absent] ELSE map
    /\ order' = SelectSeq(order, LAMBDA k : k # arg[t])
    /\ Goto(t, "idle")
    /\ arg' = [arg EXCEPT ![t] = Absent]
    /\ UNCHANGED <<now, mutex, victim, ranks>>

\* remove_if(): the expiry is checked again under the shard's write lock.
GetExpire(t) ==
    /\ pc[t] = "expire"
    /\ map' = IF RemoveIfExpired(arg[t]) THEN [map EXCEPT ![arg[t]] = Absent] ELSE map
    /\ Goto(t, "idle")
    /\ arg' = [arg EXCEPT ![t] = Absent]
    /\ UNCHANGED <<now, order, mutex, victim, ranks>>

Tick ==
    /\ now < MaxTime
    /\ now' = now + 1
    /\ UNCHANGED <<map, order, mutex, pc, arg, victim, ranks>>

Step(t) ==
    \/ PutCheck(t) \/ EvictLock(t) \/ EvictPop(t) \/ EvictRemove(t)
    \/ EvictDone(t) \/ PutInsert(t) \/ PutAppend(t) \/ GetExpire(t)

Begin(t, k) == PutRefresh(t, k) \/ PutMiss(t, k) \/ GetRead(t, k)

Next ==
    \/ Tick
    \/ \E t \in Threads : Step(t) \/ \E k \in Keys : Begin(t, k)

Spec == Init /\ [][Next]_vars

\* A thread inside put() or get() keeps running; std's Mutex promises no order
\* among those who wait for it.
FairSpec == Spec /\ \A t \in Threads : WF_vars(Step(t))

-----------------------------------------------------------------------------
(* Properties *)

\* Every variable stays in its type.
TypeOK ==
    /\ now \in Nat
    /\ map \in [Keys -> Entry \union {Absent}]
    /\ order \in Seq(Keys)
    /\ mutex \in Threads \union {NoThread}
    /\ pc \in [Threads -> {"idle", "check", "lock", "evict", "remove",
                           "insert", "append", "expire"}]
    /\ arg \in [Threads -> Keys \union {Absent}]
    /\ victim \in [Threads -> Keys \union {Absent}]
    /\ ranks \in Nat

\* What a thread's place says about the mutex and its locals.
PlacesOK ==
    /\ \A t \in Threads : pc[t] \in {"evict", "remove"} <=> mutex = t
    /\ \A t \in Threads : pc[t] # "idle" => arg[t] \in Keys
    /\ \A t \in Threads : pc[t] = "remove" <=> victim[t] \in Keys

Appending(k) == \E t \in Threads : pc[t] = "append" /\ arg[t] = k
Removing(k)  == \E t \in Threads : pc[t] = "remove" /\ victim[t] = k
Queued(k)    == \E i \in 1..Len(order) : order[i] = k

\* No entry is beyond the reach of eviction: a hash in the map is in the queue,
\* or the thread that inserted it is about to queue it, or one that popped it
\* is about to remove it.
OrderCoversMap == \A k \in Present : Queued(k) \/ Appending(k) \/ Removing(k)

\* Threads that have left the capacity check and not inserted yet.
Inserters == {t \in Threads : pc[t] = "insert"}

\* The map overshoots by at most one entry per other concurrent put().
OvershootBound == Cardinality(Present) <= Capacity + Cardinality(Threads) - 1

\* ... because each pending insert was let through below the capacity, or by an
\* empty queue, when all that is in the map is yet to be queued by others.
RoomForInserters ==
    Cardinality(Present) + Cardinality(Inserters)
       <= Capacity + Cardinality(Threads) - 1

IndInv == TypeOK /\ PlacesOK /\ OrderCoversMap /\ RoomForInserters

\* A get() that finds an entry expired never wipes one stored meanwhile: fresh
\* entries leave the map only by eviction.
FreshLossOnlyByEviction ==
    [][\A k \in Present : (map'[k] = Absent /\ ~Expired(map[k])) => Removing(k)]_vars

\* The eviction loop ends and gives the mutex back.
MutexIsReleased == \A t \in Threads : mutex = t ~> mutex # t

-----------------------------------------------------------------------------
(* What a comment claims and the code does not do. *)

\* "the oldest entry (per insertion order) is evicted", and a queued hash
\* without an entry is "a no-op".  It is not when the hash has been inserted
\* again: its old place in the queue evicts the new entry.
OldestIsEvicted ==
    [][\A k \in Present : \A t \in Threads :
          (pc[t] = "remove" /\ map'[k] = Absent /\ ~Expired(map[k])) =>
             \A j \in Present : map[k].rank <= map[j].rank]_vars
=============================================================================
