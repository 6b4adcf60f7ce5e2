-------------------------- MODULE RedeemableStore --------------------------
(***************************************************************************)
(* What the CCR store promises to whoever holds a <<ccr:HASH>> marker.     *)
(* The store is a bounded map from hashes to the time of the last store    *)
(* and its TTL.  Content leaves the map in exactly three ways: it expired, *)
(* it was the oldest entry of a full store, or somebody cleared the store. *)
(* No heap, no lock, no thread and no feedback appears here.               *)
(***************************************************************************)
EXTENDS Integers, FiniteSets

CONSTANTS
    Keys,        \* content hashes
    MaxEntries,  \* max_entries of the store
    TTLs,        \* the TTLs callers ask for, in clock ticks
    MaxTime,     \* bound: the clock stops here
    Absent       \* the value of a hash that is not stored

VARIABLES
    now,         \* the clock, time.time()
    held         \* hash -> what is stored under it, or Absent

promiseVars == <<now, held>>

Item == [created : Nat, ttl : TTLs]

Stored == {k \in Keys : held[k] # Absent}

Lapsed(k) == now - held[k].created > held[k].ttl

PromiseInit ==
    /\ now = 0
    /\ held = [k \in Keys |-> Absent]

\* A new hash enters only when there is room for it.
Insert(k) ==
    /\ held[k] = Absent
    /\ Cardinality(Stored) < MaxEntries
    /\ \E t \in 0..now, ttl \in TTLs :
          held' = [held EXCEPT ![k] = [created |-> t, ttl |-> ttl]]
    /\ UNCHANGED now

\* Storing a hash again touches no other hash.
Overwrite(k) ==
    /\ held[k] # Absent
    /\ \E t \in 0..now, ttl \in TTLs :
          held' = [held EXCEPT ![k] = [created |-> t, ttl |-> ttl]]
    /\ UNCHANGED now

Expire(S) ==
    /\ \A k \in S : held[k] # Absent /\ Lapsed(k)
    /\ held' = [k \in Keys |-> IF k \in S THEN Absent ELSE held[k]]
    /\ UNCHANGED now

\* The one way to lose content that is still fresh.
EvictOldest(k) ==
    /\ held[k] # Absent
    /\ Cardinality(Stored) = MaxEntries
    /\ \A j \in Stored : held[k].created <= held[j].created
    /\ held' = [held EXCEPT ![k] = Absent]
    /\ UNCHANGED now

ForgetAll ==
    /\ held' = [k \in Keys |-> Absent]
    /\ UNCHANGED now

Advance ==
    /\ now < MaxTime
    /\ now' = now + 1
    /\ UNCHANGED held

PromiseNext ==
    \/ Advance
    \/ ForgetAll
    \/ \E S \in SUBSET Keys : Expire(S)
    \/ \E k \in Keys : Insert(k) \/ Overwrite(k) \/ EvictOldest(k)

PromiseSpec == PromiseInit /\ [][PromiseNext]_promiseVars
=============================================================================
