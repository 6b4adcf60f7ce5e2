-------------------------- MODULE CompressionStore --------------------------
(***************************************************************************)
(* legroom/cache/compression_store.py over the in-memory backend: the      *)
(* store that keeps the original of every compressed tool output, so that  *)
(* the marker left in the prompt can be redeemed.                          *)
(*                                                                         *)
(* Several proxy threads call one store.  An operation that keeps the lock *)
(* from its first to its last access is one action; store() is several,    *)
(* because it stamps the entry, processes feedback and only then takes the *)
(* lock, and its eviction loop is one action per heap pop.                 *)
(***************************************************************************)
EXTENDS Integers, Sequences, FiniteSets, SequencesExt

CONSTANTS
    Keys,            \* content hashes
    Threads,         \* callers of the store
    MaxEntries,      \* max_entries
    TTLs,            \* the values of the ttl argument (and the default TTL)
    EnableFeedback,  \* enable_feedback
    Signed,          \* whether callers pass a tool signature and strategy
    Absent,          \* backend.get(...) is None
    NoThread,        \* nobody holds the lock
    MaxTime,         \* bound: the clock stops here
    MaxHeap,         \* bound: no store() starts that could grow the heap past it
    MaxEvents        \* bound: no call that logs an event starts beyond it

ASSUME KeysAssumption     == IsFiniteSet(Keys)
ASSUME CapacityAssumption == MaxEntries \in Nat \ {0}
ASSUME TTLAssumption      == TTLs \subseteq Nat
ASSUME FlagAssumption     == EnableFeedback \in BOOLEAN /\ Signed \subseteq BOOLEAN
ASSUME BoundsAssumption   == MaxTime \in Nat /\ MaxHeap \in Nat /\ MaxEvents \in Nat
ASSUME LockAssumption     == NoThread \notin Threads

VARIABLES
    now,      \* time.time()
    entries,  \* the backend: hash -> entry or Absent
    heap,     \* _eviction_heap: (created_at, hash) pairs
    stale,    \* _stale_heap_entries
    lock,     \* holder of _lock across steps (only the eviction loop does)
    pc,       \* where each thread is
    arg,      \* the hash and entry a thread's store() call carries
    pending,  \* _pending_feedback_events
    batch,    \* event_data of a thread inside process_pending_feedback()
    logged,   \* history: number of events ever queued (numbers them)
    done,     \* history: the events the learners have been told of
    cleared   \* history: ids of the queued events clear() threw away

storeVars    == <<entries, heap, stale>>
feedbackVars == <<pending, batch, logged, done, cleared>>
vars == <<now, entries, heap, stale, lock, pc, arg,
          pending, batch, logged, done, cleared>>

-----------------------------------------------------------------------------
(* Data.  `signed' stands for a tool_signature_hash and strategy being     *)
(* present; `retrieved' for retrieval_count > 0.                           *)

Entry   == [created : Nat, ttl : TTLs, retrieved : BOOLEAN, signed : BOOLEAN]
HeapRef == [created : Nat, key : Keys]
Event   == [id : Nat, kind : {"full", "eviction_success"}, key : Keys]
Told    == [event : Event, signed : BOOLEAN]
Call    == [key : Keys, entry : Entry]
NoCall  == <<>>

\* Absent is no entry: backend.get() tells a miss from every hit.
ASSUME AbsentAssumption == Absent \notin Entry /\ Absent \notin [created : Nat, ttl : TTLs]

Live       == {k \in Keys : entries[k] # Absent}
Expired(k) == now - entries[k].created > entries[k].ttl
Dead       == {k \in Live : Expired(k)}

AtCapacityOffByOne == Cardinality(Live) > MaxEntries  \* mutant
AtCapacity == Cardinality(Live) >= MaxEntries

(* The eviction heap: heappush, heappop, the stale counter, the rebuild.   *)

Ref(k) == [created |-> entries[k].created, key |-> k]
SpeaksForEntry(i) == heap[i].key \in Live /\ heap[i] = Ref(heap[i].key)

PushedNow(c) == Append(heap, [created |-> now, key |-> c.key])  \* mutant
Pushed(c) == Append(heap, [created |-> c.entry.created, key |-> c.key])

IsNewest(i) == \A j \in 1..Len(heap) : heap[i].created >= heap[j].created  \* mutant
IsOldest(i) == \A j \in 1..Len(heap) : heap[i].created <= heap[j].created

PeekedIfStale(i) == IF SpeaksForEntry(i) THEN RemoveAt(heap, i) ELSE heap  \* mutant
Popped(i) == RemoveAt(heap, i)

Uncounted(n) == stale         \* mutant
StalePlus(n) == stale + n

RebuildWhenAllStale(n) == Len(heap) > 0 /\ n >= Len(heap)  \* mutant
RebuildDue(n) == Len(heap) > 0 /\ 2 * n >= Len(heap)

EventOf(k, kind) == [id |-> logged + 1, kind |-> kind, key |-> k]

Init ==
    /\ now = 0
    /\ entries = [k \in Keys |-> Absent]
    /\ heap = <<>>
    /\ stale = 0
    /\ lock = NoThread
    /\ pc = [t \in Threads |-> "idle"]
    /\ arg = [t \in Threads |-> NoCall]
    /\ pending = <<>>
    /\ batch = [t \in Threads |-> <<>>]
    /\ logged = 0
    /\ done = {}
    /\ cleared = {}

-----------------------------------------------------------------------------
(* store() *)

\* store() builds the entry, and stamps created_at, before any lock is taken.
StoreBegin(t, k) ==
    /\ pc[t] = "idle"
    /\ Len(heap) + Cardinality({u \in Threads : pc[u] # "idle"}) < MaxHeap
    /\ logged < MaxEvents
    /\ \E ttl \in TTLs, signed \in Signed :
          arg' = [arg EXCEPT ![t] =
                    [key |-> k,
                     entry |-> [created |-> now, ttl |-> ttl,
                                retrieved |-> FALSE, signed |-> signed]]]
    /\ pc' = [pc EXCEPT ![t] = IF EnableFeedback THEN "take" ELSE "lock"]
    /\ UNCHANGED <<now, entries, heap, stale, lock, feedbackVars>>

\* store() evicts only for a hash that is not there yet.
IsNewAlways(t) == TRUE  \* mutant
IsNew(t) == entries[arg[t].key] = Absent

\* The hash is already there: overwrite in place, the old heap pair goes stale.
StoreOverwrite(t) ==
    /\ pc[t] = "lock"
    /\ lock = NoThread
    /\ ~IsNew(t)
    /\ entries' = [entries EXCEPT ![arg[t].key] = arg[t].entry]
    /\ heap' = Pushed(arg[t])
    /\ stale' = StalePlus(1)
    /\ pc' = [pc EXCEPT ![t] = "idle"]
    /\ arg' = [arg EXCEPT ![t] = NoCall]
    /\ UNCHANGED <<now, lock, feedbackVars>>

\* A new hash: _evict_if_needed() drops what has expired and rebuilds the
\* heap when at least half of it is stale; then the eviction loop starts.
StoreLock(t) ==
    /\ pc[t] = "lock"
    /\ lock = NoThread
    /\ IsNew(t)
    /\ lock' = t
    /\ pc' = [pc EXCEPT ![t] = "evict"]
    /\ entries' = [k \in Keys |-> IF k \in Dead THEN Absent ELSE entries[k]]
    /\ LET staleNow == StalePlus(Cardinality(Dead)) IN
          IF RebuildDue(staleNow)
          THEN /\ heap' = SetToSeq({Ref(k) : k \in Live \ Dead})
               /\ stale' = 0
          ELSE /\ stale' = staleNow
               /\ UNCHANGED heap
    /\ UNCHANGED <<now, arg, feedbackVars>>

\* One iteration of the eviction loop: pop a minimal pair.  If it speaks for
\* the entry as stored now, the entry goes (a success if it was signed and
\* never retrieved); otherwise one stale pair fewer is in the heap.
EvictPop(t) ==
    /\ pc[t] = "evict"
    /\ AtCapacity
    /\ \E i \in 1..Len(heap) :
          /\ IsOldest(i)
          /\ heap' = Popped(i)
          /\ LET k == heap[i].key IN
             IF SpeaksForEntry(i)
             THEN /\ entries' = [entries EXCEPT ![k] = Absent]
                  /\ IF EnableFeedback /\ ~entries[k].retrieved /\ entries[k].signed
                     THEN /\ pending' = Append(pending, EventOf(k, "eviction_success"))
                          /\ logged' = logged + 1
                     ELSE UNCHANGED <<pending, logged>>
                  /\ UNCHANGED stale
             ELSE /\ stale' = IF stale > 0 THEN stale - 1 ELSE 0
                  /\ UNCHANGED <<entries, pending, logged>>
    /\ UNCHANGED <<now, lock, pc, arg, batch, done, cleared>>

\* The loop is over (room, or nothing left to pop): set, push, unlock.
StoreInsert(t) ==
    /\ pc[t] = "evict"
    /\ ~AtCapacity \/ heap = <<>>
    /\ entries' = [entries EXCEPT ![arg[t].key] = arg[t].entry]
    /\ heap' = Pushed(arg[t])
    /\ lock' = NoThread
    /\ pc' = [pc EXCEPT ![t] = "idle"]
    /\ arg' = [arg EXCEPT ![t] = NoCall]
    /\ UNCHANGED <<now, stale, feedbackVars>>

-----------------------------------------------------------------------------
(* The operations that are one critical section. *)

\* A hit: count the access, queue the event, then process feedback.
Retrieve(t, k) ==
    /\ pc[t] = "idle"
    /\ lock = NoThread
    /\ entries[k] # Absent
    /\ ~Expired(k)
    /\ logged < MaxEvents
    /\ entries' = [entries EXCEPT ![k].retrieved = TRUE]
    /\ IF EnableFeedback
       THEN /\ pending' = Append(pending, EventOf(k, "full"))
            /\ logged' = logged + 1
            /\ pc' = [pc EXCEPT ![t] = "take"]
       ELSE UNCHANGED <<pending, logged, pc>>
    /\ UNCHANGED <<now, heap, stale, lock, arg, batch, done, cleared>>

\* retrieve(), get_metadata(), exists(clean_expired) and
\* get_entry_status(clean_expired) all delete the entry they find expired.
ExpireOnAccess(t, k) ==
    /\ pc[t] = "idle"
    /\ lock = NoThread
    /\ entries[k] # Absent
    /\ Expired(k)
    /\ entries' = [entries EXCEPT ![k] = Absent]
    /\ stale' = StalePlus(1)
    /\ UNCHANGED <<now, heap, lock, pc, arg, feedbackVars>>

\* get_stats() sweeps everything that has expired.
GetStats(t) ==
    /\ pc[t] = "idle"
    /\ lock = NoThread
    /\ entries' = [k \in Keys |-> IF k \in Dead THEN Absent ELSE entries[k]]
    /\ stale' = StalePlus(Cardinality(Dead))
    /\ UNCHANGED <<now, heap, lock, pc, arg, feedbackVars>>

Clear(t) ==
    /\ pc[t] = "idle"
    /\ lock = NoThread
    /\ entries' = [k \in Keys |-> Absent]
    /\ heap' = <<>>
    /\ stale' = 0
    /\ pending' = <<>>
    /\ cleared' = cleared \union {pending[i].id : i \in 1..Len(pending)}
    /\ UNCHANGED <<now, lock, pc, arg, batch, logged, done>>

-----------------------------------------------------------------------------
(* process_pending_feedback() *)

\* Where a thread goes once its feedback is processed: retrieve() returns,
\* store() goes on to take the lock.
AfterFeedback(t) == IF arg[t] = NoCall THEN "idle" ELSE "lock"

\* An event is completed with what the backend holds under its hash *now*.
Complete(e) ==
    [event |-> e, signed |-> e.key \in Live /\ entries[e.key].signed]

\* mutant: the queue is copied but not swapped out
TakeFeedbackCopy(t) ==
    /\ pc[t] = "take"
    /\ lock = NoThread
    /\ batch' = [batch EXCEPT ![t] = [i \in 1..Len(pending) |-> Complete(pending[i])]]
    /\ pc' = [pc EXCEPT ![t] = IF pending = <<>> THEN AfterFeedback(t) ELSE "deliver"]
    /\ UNCHANGED <<now, storeVars, lock, arg, pending, logged, done, cleared>>

\* The queue is swapped out and completed in one critical section.
TakeFeedback(t) ==
    /\ pc[t] = "take"
    /\ lock = NoThread
    /\ batch' = [batch EXCEPT ![t] = [i \in 1..Len(pending) |-> Complete(pending[i])]]
    /\ pending' = <<>>
    /\ pc' = [pc EXCEPT ![t] = IF pending = <<>> THEN AfterFeedback(t) ELSE "deliver"]
    /\ UNCHANGED <<now, storeVars, lock, arg, logged, done, cleared>>

\* mutant: an event that fails takes the rest of the batch with it
DeliverFirst(t) ==
    /\ pc[t] = "deliver"
    /\ done' = done \union {Head(batch[t])}
    /\ batch' = [batch EXCEPT ![t] = <<>>]
    /\ pc' = [pc EXCEPT ![t] = AfterFeedback(t)]
    /\ UNCHANGED <<now, storeVars, lock, arg, pending, logged, cleared>>

\* The learners are called outside the lock, one event after the other.
Deliver(t) ==
    /\ pc[t] = "deliver"
    /\ done' = done \union {Head(batch[t])}
    /\ batch' = [batch EXCEPT ![t] = Tail(@)]
    /\ pc' = [pc EXCEPT ![t] = IF Len(batch[t]) = 1 THEN AfterFeedback(t) ELSE "deliver"]
    /\ UNCHANGED <<now, storeVars, lock, arg, pending, logged, cleared>>

-----------------------------------------------------------------------------
Tick ==
    /\ now < MaxTime
    /\ now' = now + 1
    /\ UNCHANGED <<storeVars, lock, pc, arg, feedbackVars>>

StoreStep(t) ==
    \/ StoreOverwrite(t)
    \/ StoreLock(t)
    \/ EvictPop(t)
    \/ StoreInsert(t)

FeedbackStep(t) == TakeFeedback(t) \/ Deliver(t)

Access(t, k) == StoreBegin(t, k) \/ Retrieve(t, k) \/ ExpireOnAccess(t, k)

Next ==
    \/ Tick
    \/ \E t \in Threads :
          \/ StoreStep(t)
          \/ FeedbackStep(t)
          \/ GetStats(t)
          \/ Clear(t)
          \/ \E k \in Keys : Access(t, k)

Spec == Init /\ [][Next]_vars

\* A thread that is inside a call keeps running.  Nothing is assumed about
\* who calls what, about the clock, or about who wins the lock.
Fairness ==
    \A t \in Threads : WF_vars(StoreStep(t)) /\ WF_vars(FeedbackStep(t))

FairSpec == Spec /\ Fairness

-----------------------------------------------------------------------------
(* Properties *)

\* Every variable stays in its type (the one type invariant of the module).
TypeOK ==
    /\ now \in Nat
    /\ entries \in [Keys -> Entry \union {Absent}]
    /\ heap \in Seq(HeapRef)
    /\ stale \in Nat
    /\ lock \in Threads \union {NoThread}
    /\ pc \in [Threads -> {"idle", "take", "deliver", "lock", "evict"}]
    /\ arg \in [Threads -> Call \union {NoCall}]
    /\ pending \in Seq(Event)
    /\ batch \in [Threads -> Seq(Told)]
    /\ logged \in Nat
    /\ done \subseteq Told
    /\ cleared \subseteq Nat

\* However the heap lags behind the backend, the store never holds more than
\* max_entries originals: the loop of _evict_if_needed() always finds a victim.
CapacityBound == Cardinality(Live) <= MaxEntries

\* Every stored entry can still be found by the eviction loop: a pair with its
\* hash and its current created_at is in the heap, whatever overwrites,
\* expiries and rebuilds came before.
HeapCoversLive == \A k \in Live : \E i \in 1..Len(heap) : heap[i] = Ref(k)

\* _stale_heap_entries is exactly the surplus of the heap over the entries,
\* so the rebuild threshold means what its comment says and the guard
\* "if self._stale_heap_entries > 0" never hides a miscount.
StaleAccounting == Len(heap) = Cardinality(Live) + stale

\* While an eviction runs the heap is at most twice the capacity: the
\* rebuild at 50% keeps stale pairs from outnumbering the entries.
HeapBoundedAtEviction == lock # NoThread => Len(heap) <= 2 * MaxEntries

\* What the threads' program counters say about the rest of the state.
EvictorHoldsLock   == \A t \in Threads : pc[t] = "evict" <=> lock = t
CallsCarryEntries  == \A t \in Threads : pc[t] \in {"lock", "evict"} => arg[t] \in Call
DeliverersHaveWork == \A t \in Threads : pc[t] = "deliver" => batch[t] # <<>>
EvictorAddsNewHash ==
    \A t \in Threads : pc[t] = "evict" => entries[arg[t].key] = Absent

ThreadInv == EvictorHoldsLock /\ CallsCarryEntries /\ DeliverersHaveWork

\* The inductive invariant: the heap facts need each other (a pop is only safe
\* because the surplus is counted), and all need the lock.  A thread between
\* the expiry sweep and its insert is the case that makes them fail alone.
HeapInv ==
    /\ EvictorAddsNewHash
    /\ CapacityBound
    /\ HeapCoversLive
    /\ StaleAccounting
    /\ HeapBoundedAtEviction

IndInv == TypeOK /\ ThreadInv /\ HeapInv

\* No store() carries a stamp from the future.
StampsInPast == \A t \in Threads : arg[t] # NoCall => arg[t].entry.created <= now

\* Ids found in each place an event can be.
PendingIds  == {pending[i].id : i \in 1..Len(pending)}
BatchIds(t) == {batch[t][i].event.id : i \in 1..Len(batch[t])}
DoneIds     == {d.event.id : d \in done}

\* The hand-over of events loses and duplicates nothing: each queued event is
\* in exactly one of the queue, one thread's batch, the learners, or thrown
\* away by clear(), however many threads swap the queue out at once.
EventsHandedOverOnce ==
    LET places == <<PendingIds, DoneIds, cleared>> IN
    /\ 1..logged = PendingIds \union DoneIds \union cleared
                     \union UNION {BatchIds(t) : t \in Threads}
    /\ \A i, j \in 1..3 : i # j => places[i] \intersect places[j] = {}
    /\ \A t \in Threads :
          /\ \A i \in 1..3 : BatchIds(t) \intersect places[i] = {}
          /\ \A u \in Threads \ {t} : BatchIds(t) \intersect BatchIds(u) = {}

\* A key's content that has not expired is given up only for room: the store
\* is exactly full, a store() of another hash is running, and no entry is
\* older.  (clear() is the one exception, and it empties everything.)
FreshLossOnlyForRoom ==
    [][\A k \in Live :
          (entries'[k] = Absent /\ ~Expired(k)) =>
             \/ /\ lock = NoThread
                /\ \A j \in Keys : entries'[j] = Absent
             \/ /\ Cardinality(Live) = MaxEntries
                /\ \E t \in Threads : lock = t /\ arg[t].key \notin Live
                /\ \A j \in Live : entries[k].created <= entries[j].created]_vars

\* The store implements the promise made to the holders of markers.
HeldView == [k \in Keys |->
                IF entries[k] = Absent THEN Absent
                ELSE [created |-> entries[k].created, ttl |-> entries[k].ttl]]

Promise == INSTANCE RedeemableStore WITH held <- HeldView

ImplementsPromise == Promise!PromiseSpec

\* Whoever holds the lock gives it back: the eviction loop runs dry.
LockIsReleased == \A t \in Threads : lock = t ~> lock # t

\* The event of a retrieval is handed to CompressionFeedback (or is cleared)
\* even when the thread that queued it never wins the lock again: whoever keeps
\* the lock from it processes the queue first.  What the learners then count is
\* theirs: record_retrieval() passes over events without a tool name, and over
\* all of them when learning is off.  Nothing of the kind holds for an eviction
\* success, which waits for the next call, if there is one.
RetrievalsAreHandedOver ==
    \A i \in 1..MaxEvents :
        (\E j \in 1..Len(pending) : pending[j].id = i /\ pending[j].kind = "full")
            ~> i \in DoneIds \union cleared

-----------------------------------------------------------------------------
(* What comments in the code claim and the code does not do. *)

\* _evict_if_needed(): "Notify feedback system so it knows this strategy
\* worked".  The entry is deleted right after the event is queued, so no
\* signature is found for it and neither TOIN nor telemetry hears of it.
EvictionSuccessIsReported ==
    \A d \in done : d.event.kind = "eviction_success" => d.signed

\* TOIN's record_retrieval is "Called when LLM retrieves compressed content".
\* When the hash is stored again before the event is processed, TOIN is told
\* of a retrieval that never happened.
OnlyRetrievalsReachToin ==
    \A d \in done : d.signed => d.event.kind = "full"
=============================================================================
