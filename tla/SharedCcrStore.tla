--------------------------- MODULE SharedCcrStore ---------------------------
(***************************************************************************)
(* The compression store over its default backend, backends/sqlite.py: one *)
(* database file shared by the worker processes of the proxy, surviving    *)
(* their restarts.                                                         *)
(*                                                                         *)
(* Each worker has a CompressionStore of its own: its lock lets one call   *)
(* run at a time in that worker, and its eviction heap and stale counter   *)
(* are private and die with the process.  Across workers only a single     *)
(* database access is atomic, so every access is an action here.  Threads  *)
(* of one worker and the feedback queue are in CompressionStore.           *)
(***************************************************************************)
EXTENDS Integers, FiniteSets, Bags

CONSTANTS
    Keys,         \* content hashes
    Workers,      \* proxy worker processes
    MaxEntries,   \* max_entries
    TTLs,         \* the ttl values in use
    Absent,       \* no row, no entry
    MaxTime,      \* bound: the clock stops here
    MaxHeap,      \* bound: no store() starts with a larger heap
    MaxRestarts,  \* bound on worker restarts
    MaxFaults     \* bound on transient database errors

ASSUME SharedAssumption ==
    /\ MaxEntries \in Nat \ {0}
    /\ TTLs \subseteq Nat
    /\ {MaxTime, MaxHeap, MaxRestarts, MaxFaults} \subseteq Nat

VARIABLES
    now,       \* time.time()
    db,        \* the ccr_entries table: hash -> entry or Absent
    heap,      \* per worker: _eviction_heap, a bag of pairs
    stale,     \* per worker: _stale_heap_entries
    pc,        \* per worker: the next database access of the running call
    call,      \* per worker: the call's locals
    restarts,  \* how many restarts there were
    faults     \* how many accesses failed

vars == <<now, db, heap, stale, pc, call, restarts, faults>>

Entry == [created : Nat, ttl : TTLs]
Pair  == [created : Nat, key : Keys]

ASSUME AbsentAssumption == Absent \notin Entry

CallOf(op, k, e) == [op |-> op, key |-> k, entry |-> e, todo |-> {}, pair |-> Absent]
NoCall == CallOf("none", Absent, Absent)

Live           == {k \in Keys : db[k] # Absent}
HasExpired(e)  == now - e.created > e.ttl
Dead           == {k \in Live : HasExpired(db[k])}
Without(table, K) == [k \in Keys |-> IF k \in K THEN Absent ELSE table[k]]

InHeap(w)   == BagToSet(heap[w])
HeapSize(w) == BagCardinality(heap[w])
PairOf(k, e) == [created |-> e.created, key |-> k]

RebuildDue(w) == HeapSize(w) > 0 /\ 2 * stale[w] >= HeapSize(w)

KeptInHeap(w, p) == heap[w]  \* mutant
OutOfHeap(w, p) == heap[w] (-) SetToBag({p})

FullOffByOne == Cardinality(Live) > MaxEntries  \* mutant
Full == Cardinality(Live) >= MaxEntries

\* The guard is needed: _maybe_purge() makes pairs stale without counting.
DecrementBlindly(n) == n - 1  \* mutant
Decrement(n) == IF n > 0 THEN n - 1 ELSE 0

\* The popped pair is evicted only if the entry is still the one it was
\* pushed for.
MatchesAnyStamp(p) == db[p.key] # Absent  \* mutant
Matches(p) == db[p.key] # Absent /\ db[p.key].created = p.created

\* An access succeeds or fails with a transient error (busy, locked, io),
\* which every backend method turns into a miss.
Access(ok) ==
    IF ok THEN UNCHANGED faults
    ELSE faults < MaxFaults /\ faults' = faults + 1

Init ==
    /\ now = 0
    /\ db = [k \in Keys |-> Absent]
    /\ heap = [w \in Workers |-> EmptyBag]
    /\ stale = [w \in Workers |-> 0]
    /\ pc = [w \in Workers |-> "idle"]
    /\ call = [w \in Workers |-> NoCall]
    /\ restarts = 0
    /\ faults = 0

Goto(w, label) == pc' = [pc EXCEPT ![w] = label]
Finish(w) == Goto(w, "idle") /\ call' = [call EXCEPT ![w] = NoCall]
CountStale(w) == stale' = [stale EXCEPT ![w] = @ + 1]

-----------------------------------------------------------------------------
(* store() *)

\* The entry is stamped and the hash looked up.  Known: overwrite in place,
\* one more stale pair.  New (or the lookup failed): make room first.
StoreAlwaysNew(w, k, ok) == FALSE  \* mutant
StoreKnown(w, k, ok) == ok /\ db[k] # Absent

StoreLookup(w, k) ==
    /\ pc[w] = "idle"
    /\ HeapSize(w) < MaxHeap
    /\ \E ttl \in TTLs, ok \in BOOLEAN :
          /\ Access(ok)
          /\ call' = [call EXCEPT ![w] =
                CallOf("store", k, [created |-> now, ttl |-> ttl])]
          /\ IF StoreKnown(w, k, ok)
             THEN CountStale(w) /\ Goto(w, "set")
             ELSE UNCHANGED stale /\ Goto(w, "sweep")
    /\ UNCHANGED <<now, db, heap, restarts>>

\* _clean_expired(), the read: which hashes have expired.
SweepRead(w) ==
    /\ pc[w] = "sweep"
    /\ \E ok \in BOOLEAN :
          LET found == IF ok THEN Dead ELSE {} IN
          /\ Access(ok)
          /\ IF found # {}
             THEN /\ call' = [call EXCEPT ![w].todo = found]
                  /\ Goto(w, "delete")
             ELSE IF call[w].op = "store"
             THEN Goto(w, "room") /\ UNCHANGED call
             ELSE Finish(w)
    /\ UNCHANGED <<now, db, heap, stale, restarts>>

\* _clean_expired(), the writes: delete what was found, by hash, whatever is
\* stored under it by now.
SweepDelete(w) ==
    /\ pc[w] = "delete"
    /\ \E k \in call[w].todo, ok \in BOOLEAN :
          /\ Access(ok)
          /\ db' = IF ok THEN Without(db, {k}) ELSE db
          /\ IF call[w].todo # {k}
             THEN call' = [call EXCEPT ![w].todo = @ \ {k}] /\ UNCHANGED pc
             ELSE IF call[w].op = "store"
             THEN call' = [call EXCEPT ![w].todo = {}] /\ Goto(w, "room")
             ELSE Finish(w)
    /\ CountStale(w)
    /\ UNCHANGED <<now, heap, restarts>>

\* _rebuild_heap(): from all rows of the table, other workers' included.
Rebuild(w) ==
    /\ pc[w] = "room"
    /\ RebuildDue(w)
    /\ \E ok \in BOOLEAN :
          /\ Access(ok)
          /\ heap' = [heap EXCEPT ![w] =
                SetToBag(IF ok THEN {PairOf(k, db[k]) : k \in Live} ELSE {})]
    /\ stale' = [stale EXCEPT ![w] = 0]
    /\ Goto(w, "count")
    /\ UNCHANGED <<now, db, call, restarts>>

\* The head of the eviction loop: count the rows; if they are too many and
\* this worker's heap has a pair left, pop an oldest one.
CheckRoom(w) ==
    /\ pc[w] = "count" \/ (pc[w] = "room" /\ ~RebuildDue(w))
    /\ \E ok \in BOOLEAN :
          /\ Access(ok)
          /\ IF ok /\ Full /\ InHeap(w) # {}
             THEN \E p \in InHeap(w) :
                    /\ \A q \in InHeap(w) : p.created <= q.created
                    /\ heap' = [heap EXCEPT ![w] = OutOfHeap(w, p)]
                    /\ call' = [call EXCEPT ![w].pair = p]
                    /\ Goto(w, "victim")
             ELSE Goto(w, "set") /\ UNCHANGED <<heap, call>>
    /\ UNCHANGED <<now, db, stale, restarts>>

\* The popped pair's entry is read, and compared.
Victim(w) ==
    /\ pc[w] = "victim"
    /\ \E ok \in BOOLEAN :
          /\ Access(ok)
          /\ IF ok /\ Matches(call[w].pair)
             THEN Goto(w, "evict") /\ UNCHANGED stale
             ELSE /\ stale' = [stale EXCEPT ![w] = Decrement(@)]
                  /\ Goto(w, "count")
    /\ UNCHANGED <<now, db, heap, call, restarts>>

\* ... and deleted, by hash.
Evict(w) ==
    /\ pc[w] = "evict"
    /\ \E ok \in BOOLEAN :
          /\ Access(ok)
          /\ db' = IF ok THEN Without(db, {call[w].pair.key}) ELSE db
    /\ Goto(w, "count")
    /\ UNCHANGED <<now, heap, stale, call, restarts>>

\* backend.set(): write the row, and perhaps purge (at most every 60 seconds).
\* store() then pushes its pair, even if the write failed; retrieve() writes
\* back the entry it read.
Set(w) ==
    /\ pc[w] = "set"
    /\ \E ok \in BOOLEAN :
          /\ Access(ok)
          /\ db' = IF ok THEN [db EXCEPT ![call[w].key] = call[w].entry] ELSE db
          /\ \/ Finish(w)
             \/ ok /\ Goto(w, "purge") /\ UNCHANGED call
    /\ heap' = IF call[w].op = "store"
               THEN [heap EXCEPT ![w] =
                       @ (+) SetToBag({PairOf(call[w].key, call[w].entry)})]
               ELSE heap
    /\ UNCHANGED <<now, stale, restarts>>

\* _maybe_purge(): one DELETE of all that has expired, which no worker's stale
\* counter hears of.
Purge(w) ==
    /\ pc[w] = "purge"
    /\ \E ok \in BOOLEAN :
          Access(ok) /\ db' = IF ok THEN Without(db, Dead) ELSE db
    /\ Finish(w)
    /\ UNCHANGED <<now, heap, stale, restarts>>

-----------------------------------------------------------------------------
(* The other operations. *)

\* retrieve(): read; expired or not is decided on what was read.
RetrieveRead(w, k) ==
    /\ pc[w] = "idle"
    /\ db[k] # Absent
    /\ call' = [call EXCEPT ![w] = CallOf("retrieve", k, db[k])]
    /\ Goto(w, IF HasExpired(db[k]) THEN "expire" ELSE "set")
    /\ UNCHANGED <<now, db, heap, stale, restarts, faults>>

\* retrieve(), get_metadata(), exists() and get_entry_status() delete by hash.
ExpireDelete(w) ==
    /\ pc[w] = "expire"
    /\ \E ok \in BOOLEAN :
          /\ Access(ok)
          /\ db' = IF ok THEN Without(db, {call[w].key}) ELSE db
    /\ CountStale(w)
    /\ Finish(w)
    /\ UNCHANGED <<now, heap, restarts>>

\* get_stats() starts with a sweep.
GetStats(w) ==
    /\ pc[w] = "idle"
    /\ call' = [call EXCEPT ![w] = CallOf("stats", Absent, Absent)]
    /\ Goto(w, "sweep")
    /\ UNCHANGED <<now, db, heap, stale, restarts, faults>>

Clear(w) ==
    /\ pc[w] = "idle"
    /\ \E ok \in BOOLEAN :
          /\ Access(ok)
          /\ db' = IF ok THEN [k \in Keys |-> Absent] ELSE db
    /\ heap' = [heap EXCEPT ![w] = EmptyBag]
    /\ stale' = [stale EXCEPT ![w] = 0]
    /\ UNCHANGED <<now, pc, call, restarts>>

\* A worker dies wherever it is and comes back: heap and counter are empty,
\* the table is there, and opening it sweeps what has expired.
Restart(w) ==
    /\ restarts < MaxRestarts
    /\ restarts' = restarts + 1
    /\ db' = Without(db, Dead)
    /\ heap' = [heap EXCEPT ![w] = EmptyBag]
    /\ stale' = [stale EXCEPT ![w] = 0]
    /\ Finish(w)
    /\ UNCHANGED <<now, faults>>

Tick ==
    /\ now < MaxTime
    /\ now' = now + 1
    /\ UNCHANGED <<db, heap, stale, pc, call, restarts, faults>>

Step(w) ==
    \/ SweepRead(w) \/ SweepDelete(w) \/ Rebuild(w) \/ CheckRoom(w)
    \/ Victim(w) \/ Evict(w) \/ Set(w) \/ Purge(w) \/ ExpireDelete(w)

Next ==
    \/ Tick
    \/ \E w \in Workers :
          \/ Step(w)
          \/ GetStats(w)
          \/ Clear(w)
          \/ Restart(w)
          \/ \E k \in Keys : StoreLookup(w, k) \/ RetrieveRead(w, k)

Spec == Init /\ [][Next]_vars

\* A worker inside a call keeps running.
FairSpec == Spec /\ \A w \in Workers : WF_vars(Step(w))

-----------------------------------------------------------------------------
(* Properties *)

\* Every variable stays in its type.
TypeOK ==
    /\ now \in Nat
    /\ db \in [Keys -> Entry \union {Absent}]
    /\ \A w \in Workers : IsABag(heap[w]) /\ BagToSet(heap[w]) \subseteq Pair
    /\ stale \in [Workers -> Nat]
    /\ \A w \in Workers :
          /\ pc[w] \in {"victim", "evict"} => call[w].pair \in Pair
          /\ pc[w] = "set" => call[w].key \in Keys /\ call[w].entry \in Entry
          /\ pc[w] = "delete" <=> call[w].todo # {}

ClearedAll == \A k \in Keys : db'[k] = Absent
FreshLosses == {k \in Live : db'[k] = Absent /\ ~HasExpired(db[k])}

\* One worker, restarting at will: an original that has not expired is given
\* up only to make room, with the table full, and for a hash that is not
\* stored unless an access has failed.  Nothing is lost by the restarts
\* themselves, nor by a re-store.
RoomForNewHashOnly ==
    [][FreshLosses # {} =>
          \/ ClearedAll /\ pc' = pc
          \/ /\ Full
             /\ \E w \in Workers :
                   call[w].op = "store" /\ (call[w].key \notin Live \/ faults > 0)]_vars

\* One worker.  After a restart its heap is empty and it cannot evict what it
\* did not store itself; a failed count lets a row in without room, a failed
\* rebuild empties the heap, a failed read or delete drops the popped pair and
\* keeps its row.  Yet each of these costs one entry of overshoot and no more:
\* from then on the worker pops its own.
OvershootPerMishap == Cardinality(Live) <= MaxEntries + restarts + faults

\* What a caller is promised, of the rows of the table.
Promise == INSTANCE RedeemableStore WITH held <- db

\* One worker, until it first dies or an access first fails: the accesses of a
\* call, one by one, with the purge, the sweep and the write-back among them,
\* are steps of the promise.  Fresh content leaves as the oldest of a full
\* table, and a row enters only when there is room.
PromiseUntilMishap ==
    [][restarts' = 0 /\ faults' = 0 => Promise!PromiseNext \/ UNCHANGED <<now, db>>]_vars

\* Why a call cannot go round for ever: each of its accesses brings it to a
\* later stage, or leaves a sweep less to delete; the eviction loop, which
\* other workers can keep from ever finding room, takes a pair off the heap each
\* time round, and no other worker puts one there.
Stages == [sweep |-> 6, delete |-> 5, room |-> 4, count |-> 3, victim |-> 3,
           evict |-> 3, set |-> 2, purge |-> 1, expire |-> 1, idle |-> 0]

Advances(w) ==
    \/ Stages[pc'[w]] < Stages[pc[w]]
    \/ /\ pc[w] = "delete" /\ pc'[w] = "delete"
       /\ call'[w].todo \subseteq call[w].todo /\ call'[w].todo # call[w].todo
    \/ /\ pc[w] = "count" /\ pc'[w] = "victim"
       /\ \E p \in InHeap(w) : heap'[w] = OutOfHeap(w, p)
    \/ /\ \/ pc[w] = "victim" /\ pc'[w] \in {"evict", "count"}
          \/ pc[w] = "evict" /\ pc'[w] = "count"
       /\ heap'[w] = heap[w]

CallsAdvance ==
    [][\A w \in Workers : pc[w] # "idle" =>
          /\ Step(w) => Advances(w)
          /\ \/ Step(w)
             \/ pc'[w] = "idle"
             \/ UNCHANGED <<pc[w], call[w], heap[w]>>]_vars

\* ... and there is only so much to delete or to pop.
WorkIsFinite ==
    \A w \in Workers : IsFiniteSet(InHeap(w)) /\ IsFiniteSet(call[w].todo)

\* Every call ends, whatever the other workers do to the table meanwhile: the
\* eviction loop consumes a heap that only this worker fills.
CallsEnd == \A w \in Workers : pc[w] # "idle" ~> pc[w] = "idle"

-----------------------------------------------------------------------------
(* What the documentation claims and the code does not do. *)

\* CompressionStore: "LRU-style eviction when capacity is reached"; the test
\* of the eviction is named test_eviction_removes_oldest_first.
OldestGoesFirst ==
    [][\A k \in FreshLosses :
          \/ ClearedAll /\ pc' = pc
          \/ \A j \in Live : db[k].created <= db[j].created]_vars

\* sqlite.py: "a legroom_retrieve call served by a different worker than the
\* one that compressed still finds the entry" (until it expires or room is
\* needed).
OtherWorkersFindIt ==
    [][FreshLosses # {} =>
          \/ ClearedAll /\ pc' = pc
          \/ Full]_vars

\* _handle_db_error(): "never destroy data over a transient error".
TransientErrorsDestroyNothing ==
    [][FreshLosses # {} =>
          \/ ClearedAll /\ pc' = pc
          \/ \E w \in Workers : call[w].op = "store" /\ call[w].key \notin Live]_vars
=============================================================================
