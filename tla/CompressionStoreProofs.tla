----------------------- MODULE CompressionStoreProofs -----------------------
(***************************************************************************)
(* Proofs about CompressionStore, for any number of hashes, threads,       *)
(* entries and clock ticks.  The first part collects what the proofs need  *)
(* about the helpers; the second is the inductive invariant; the third     *)
(* draws the theorems; the last is the refinement of RedeemableStore.      *)
(***************************************************************************)
EXTENDS CompressionStore, FunctionTheorems, FiniteSetTheorems, SequenceTheorems,
        TLAPS

-----------------------------------------------------------------------------
(* Helpers *)

\* Popping position i keeps the pairs on both sides, in order.
LEMMA RemoveAtProperties ==
    ASSUME NEW S, NEW s \in Seq(S), NEW i \in 1..Len(s)
    PROVE  /\ RemoveAt(s, i) \in Seq(S)
           /\ Len(RemoveAt(s, i)) = Len(s) - 1
           /\ \A j \in 1..Len(s) : j # i =>
                 \E m \in 1..Len(RemoveAt(s, i)) : RemoveAt(s, i)[m] = s[j]
<1> DEFINE L == SubSeq(s, 1, i - 1)
           R == SubSeq(s, i + 1, Len(s))
<1>1. /\ L \in Seq(S)
      /\ Len(L) = i - 1
      /\ \A j \in 1..(i - 1) : L[j] = s[j]
  BY SubSeqProperties, ElementOfSeq
<1>2. /\ R \in Seq(S)
      /\ Len(R) = Len(s) - i
      /\ \A j \in 1..(Len(s) - i) : R[j] = s[i + j]
  BY SubSeqProperties, ElementOfSeq
<1> HIDE DEF L, R
<1>3. /\ L \o R \in Seq(S)
      /\ Len(L \o R) = Len(s) - 1
  <2>1. L \o R \in Seq(S) /\ Len(L \o R) = Len(L) + Len(R)
    BY <1>1, <1>2, ConcatProperties
  <2>2. (i - 1) + (Len(s) - i) = Len(s) - 1
    BY LenProperties
  <2> QED
    BY <1>1, <1>2, <2>1, <2>2
<1>4. \A j \in 1..(i - 1) : (L \o R)[j] = s[j]
  BY <1>1, <1>2, ConcatProperties
<1>5. \A j \in (i + 1)..Len(s) : (L \o R)[j - 1] = s[j]
  <2>1. ASSUME NEW j \in (i + 1)..Len(s)
        PROVE  (L \o R)[j - 1] = s[j]
    <3>1. j - 1 \in (Len(L) + 1)..(Len(L) + Len(R))
      BY <1>1, <1>2, LenProperties
    <3>2. (L \o R)[j - 1] = R[(j - 1) - Len(L)]
      BY <1>1, <1>2, <3>1, ConcatProperties
    <3>3. (j - 1) - Len(L) = j - i /\ j - i \in 1..(Len(s) - i)
      BY <1>1, LenProperties
    <3> QED
      BY <1>2, <3>2, <3>3
  <2> QED
    BY <2>1
<1>6. RemoveAt(s, i) = L \o R
  BY DEF RemoveAt, L, R
<1>7. ASSUME NEW j \in 1..Len(s), j # i
      PROVE  \E m \in 1..Len(L \o R) : (L \o R)[m] = s[j]
  <2>1. CASE j < i
    <3>1. j \in 1..(i - 1) /\ j \in 1..Len(L \o R)
      BY <1>3, <2>1, LenProperties
    <3> QED
      BY <1>4, <3>1
  <2>2. CASE j > i
    <3>1. j \in (i + 1)..Len(s) /\ j - 1 \in 1..Len(L \o R)
      BY <1>3, <2>2, LenProperties
    <3> QED
      BY <1>5, <3>1
  <2> QED
    BY <1>7, <2>1, <2>2
<1> QED
  BY <1>3, <1>6, <1>7

\* The live entries are finitely many.
LEMMA LiveFinite == IsFiniteSet(Live) /\ Cardinality(Live) \in Nat
<1>1. Live \subseteq Keys
  BY DEF Live
<1> QED
  BY <1>1, KeysAssumption, FS_Subset, FS_CardinalityType

\* A rebuilt heap speaks for every entry, exactly once.
LEMMA RebuiltHeap ==
    ASSUME TypeOK, NEW L \in SUBSET Live
    PROVE  LET h == SetToSeq({Ref(k) : k \in L})
           IN  /\ h \in Seq(HeapRef)
               /\ Len(h) = Cardinality(L)
               /\ \A k \in L : \E i \in 1..Len(h) : h[i] = Ref(k)
<1> DEFINE S == {Ref(k) : k \in L}
           n == Cardinality(L)
           g == [k \in L |-> Ref(k)]
           h == SetToSeq(S)
<1>1. IsFiniteSet(L) /\ n \in Nat
  BY LiveFinite, FS_Subset, FS_CardinalityType
<1>2. S \subseteq HeapRef
  BY DEF TypeOK, Live, Ref, HeapRef, Entry
<1>3. IsFiniteSet(S) /\ Cardinality(S) = n
  <2>1. g \in Bijection(L, S)
    <3>1. g \in [L -> S]
      OBVIOUS
    <3>2. \A a, b \in L : g[a] = g[b] => a = b
      BY DEF Ref
    <3>3. \A y \in S : \E k \in L : g[k] = y
      OBVIOUS
    <3> QED
      BY <3>1, <3>2, <3>3, Fun_IsBij
  <2>2. ExistsBijection(L, S)
    BY <2>1 DEF ExistsBijection
  <2> QED
    BY <1>1, <2>2, FS_Bijection
<1>4. h \in [1..n -> S] /\ IsInjective(h)
  <2>1. PICK f : f \in Bijection(1..n, S)
    BY <1>3, FS_CardinalityType DEF ExistsBijection
  <2>2. f \in [1..n -> S] /\ IsInjective(f)
    BY <2>1 DEF Bijection, Injection
  <2> QED
    BY <1>3, <2>2 DEF SetToSeq
<1>5. h \in Seq(S) /\ Len(h) = n
  <2> HIDE DEF h, S, n
  <2>1. h \in Seq(S)
    BY <1>1, <1>4
  <2> QED
    BY <1>1, <1>4, <2>1, LenProperties
<1>6. h \in Seq(HeapRef)
  BY <1>2, <1>5, SeqMonotonic
<1>7. \A y \in S : \E i \in 1..n : h[i] = y
  <2>1. h \in Injection(1..n, S)
    BY <1>4 DEF Injection
  <2>2. Cardinality(1..n) = n
    BY <1>1, FS_Interval
  <2>3. h \in Surjection(1..n, S)
    BY <1>3, <2>1, <2>2, FS_Injection
  <2> QED
    BY <2>3 DEF Surjection
<1> QED
  BY <1>5, <1>6, <1>7

-----------------------------------------------------------------------------
(* Types and threads *)

USE DEF vars, storeVars, feedbackVars

LEMMA InitTypes == Init => TypeOK /\ ThreadInv
<1> SUFFICES ASSUME Init PROVE TypeOK /\ ThreadInv
  OBVIOUS
<1> QED
  BY LockAssumption, EmptySeq
     DEF Init, TypeOK, ThreadInv, EvictorHoldsLock, CallsCarryEntries, DeliverersHaveWork

\* The pair store() pushes for its entry goes to the end of the list.
LEMMA PushedProperties ==
    ASSUME TypeOK, NEW c \in Call
    PROVE  /\ Pushed(c) \in Seq(HeapRef)
           /\ Len(Pushed(c)) = Len(heap) + 1
           /\ \A i \in 1..Len(heap) : Pushed(c)[i] = heap[i]
           /\ Pushed(c)[Len(heap) + 1] = [created |-> c.entry.created, key |-> c.key]
<1>1. heap \in Seq(HeapRef)
  BY DEF TypeOK
<1>2. [created |-> c.entry.created, key |-> c.key] \in HeapRef
  BY DEF Call, Entry, HeapRef
<1> QED
  BY <1>1, <1>2, AppendProperties DEF Pushed

\* So does an event that is queued.
LEMMA QueuedProperties ==
    ASSUME TypeOK, NEW k \in Keys, NEW kind \in {"full", "eviction_success"}
    PROVE  /\ EventOf(k, kind) \in Event
           /\ Append(pending, EventOf(k, kind)) \in Seq(Event)
<1>1. EventOf(k, kind) \in Event
  BY DEF EventOf, TypeOK, Event
<1>2. pending \in Seq(Event)
  BY DEF TypeOK
<1> QED
  BY <1>1, <1>2, AppendProperties

\* Every pair of the heap names a hash.
LEMMA HeapKeys ==
    ASSUME TypeOK, NEW i \in 1..Len(heap)
    PROVE  heap[i] \in HeapRef /\ heap[i].key \in Keys
<1>1. heap \in Seq(HeapRef)
  BY DEF TypeOK
<1>2. heap[i] \in HeapRef
  BY <1>1, ElementOfSeq
<1> QED
  BY <1>2 DEF HeapRef

\* What process_pending_feedback() collects is well formed, one item per event.
LEMMA CompletedBatch ==
    ASSUME TypeOK
    PROVE  LET b == [i \in 1..Len(pending) |-> Complete(pending[i])]
           IN  b \in Seq(Told) /\ Len(b) = Len(pending)
<1> DEFINE b == [i \in 1..Len(pending) |-> Complete(pending[i])]
<1>1. Len(pending) \in Nat
  BY LenProperties DEF TypeOK
<1>2. \A i \in 1..Len(pending) : Complete(pending[i]) \in Told
  <2>1. ASSUME NEW i \in 1..Len(pending)
        PROVE  Complete(pending[i]) \in Told
    <3>1. pending[i] \in Event
      <4>1. pending \in Seq(Event)
        BY DEF TypeOK
      <4> QED
        BY <4>1, ElementOfSeq
    <3>2. (pending[i].key \in Live /\ entries[pending[i].key].signed) \in BOOLEAN
      OBVIOUS
    <3> QED
      BY <3>1, <3>2 DEF Complete, Told
  <2> QED
    BY <2>1
<1>3. b \in [1..Len(pending) -> Told]
  BY <1>2
<1> QED
  BY <1>1, <1>3

\* Every step keeps the types and the threads' bookkeeping.
LEMMA TypesStep ==
    ASSUME TypeOK, ThreadInv, [Next]_vars
    PROVE  TypeOK' /\ ThreadInv'
<1> USE DEF ThreadInv, EvictorHoldsLock, CallsCarryEntries, DeliverersHaveWork
<1>1. CASE Tick
  BY <1>1 DEF Tick, TypeOK
<1>2. ASSUME NEW t \in Threads, NEW k \in Keys, StoreBegin(t, k)
      PROVE  TypeOK' /\ ThreadInv'
  <2>1. PICK c \in Call : arg' = [arg EXCEPT ![t] = c]
    <3>1. ASSUME NEW ttl \in TTLs, NEW signed \in Signed
          PROVE  [key |-> k, entry |-> [created |-> now, ttl |-> ttl,
                    retrieved |-> FALSE, signed |-> signed]] \in Call
      BY FlagAssumption DEF TypeOK, Entry, Call
    <3> QED
      BY <1>2, <3>1 DEF StoreBegin
  <2>2. /\ pc[t] = "idle" /\ lock' = lock /\ batch' = batch
        /\ \/ pc' = [pc EXCEPT ![t] = "take"]
           \/ pc' = [pc EXCEPT ![t] = "lock"]
    BY <1>2 DEF StoreBegin
  <2>3. TypeOK'
    BY <1>2, <2>1, <2>2 DEF StoreBegin, TypeOK
  <2>4. ThreadInv'
    BY <2>1, <2>2 DEF TypeOK
  <2> QED
    BY <2>3, <2>4
<1>3. ASSUME NEW t \in Threads, StoreOverwrite(t)
      PROVE  TypeOK' /\ ThreadInv'
  <2>1. arg[t] \in Call /\ arg[t].key \in Keys /\ arg[t].entry \in Entry
    BY <1>3 DEF StoreOverwrite, Call
  <2>2. heap' \in Seq(HeapRef)
    BY <1>3, <2>1, PushedProperties DEF StoreOverwrite
  <2>3. stale' \in Nat /\ entries' \in [Keys -> Entry \union {Absent}]
    BY <1>3, <2>1 DEF StoreOverwrite, TypeOK, StalePlus
  <2> QED
    <3>1. TypeOK'
      BY <1>3, <2>2, <2>3 DEF StoreOverwrite, TypeOK
    <3>2. pc' = [pc EXCEPT ![t] = "idle"] /\ pc \in [Threads -> {"idle", "take", "deliver", "lock", "evict"}]
      BY <1>3 DEF StoreOverwrite, TypeOK
    <3>3. arg' = [arg EXCEPT ![t] = NoCall] /\ arg \in [Threads -> Call \union {NoCall}]
      BY <1>3 DEF StoreOverwrite, TypeOK
    <3>4. lock' = lock /\ batch' = batch /\ pc[t] = "lock"
      BY <1>3 DEF StoreOverwrite
    <3>5. EvictorHoldsLock'
      BY <3>2, <3>4
    <3>6. CallsCarryEntries'
      BY <3>2, <3>3
    <3>7. DeliverersHaveWork'
      BY <3>2, <3>4
    <3> QED
      BY <3>1, <3>5, <3>6, <3>7
<1>4. ASSUME NEW t \in Threads, StoreLock(t)
      PROVE  TypeOK' /\ ThreadInv'
  <2>1. Cardinality(Dead) \in Nat
    BY LiveFinite, FS_Subset, FS_CardinalityType DEF Dead
  <2>2. heap' \in Seq(HeapRef) /\ stale' \in Nat
    <3>1. SetToSeq({Ref(k) : k \in Live \ Dead}) \in Seq(HeapRef)
      BY RebuiltHeap
    <3>2. stale + Cardinality(Dead) \in Nat /\ heap \in Seq(HeapRef)
      BY <2>1 DEF TypeOK
    <3> QED
      BY <1>4, <3>1, <3>2 DEF StoreLock, StalePlus
  <2> QED
    BY <1>4, <2>2, LockAssumption DEF StoreLock, TypeOK
<1>5. ASSUME NEW t \in Threads, EvictPop(t)
      PROVE  TypeOK' /\ ThreadInv'
  <2>1. heap' \in Seq(HeapRef)
    <3>1. heap \in Seq(HeapRef)
      BY DEF TypeOK
    <3> QED
      BY <1>5, <3>1, RemoveAtProperties DEF EvictPop, Popped
  <2>2. pending' \in Seq(Event) /\ logged' \in Nat
    <3>1. pending \in Seq(Event) /\ logged \in Nat
      BY DEF TypeOK
    <3>2. ASSUME NEW i \in 1..Len(heap)
          PROVE  Append(pending, EventOf(heap[i].key, "eviction_success")) \in Seq(Event)
      BY HeapKeys, QueuedProperties
    <3>3. PICK i \in 1..Len(heap) :
             \/ /\ pending' = Append(pending, EventOf(heap[i].key, "eviction_success"))
                /\ logged' = logged + 1
             \/ UNCHANGED <<pending, logged>>
      BY <1>5 DEF EvictPop
    <3>4. CASE UNCHANGED <<pending, logged>>
      BY <3>1, <3>4
    <3>5. CASE /\ pending' = Append(pending, EventOf(heap[i].key, "eviction_success"))
               /\ logged' = logged + 1
      <4>1. Append(pending, EventOf(heap[i].key, "eviction_success")) \in Seq(Event)
        BY <3>2
      <4> QED
        BY <3>1, <3>5, <4>1
    <3> QED
      BY <3>3, <3>4, <3>5
  <2>3. stale' \in Nat /\ entries' \in [Keys -> Entry \union {Absent}]
    <3>1. stale \in Nat /\ entries \in [Keys -> Entry \union {Absent}]
      BY DEF TypeOK
    <3> QED
      BY <1>5, <3>1 DEF EvictPop
  <2> QED
    BY <1>5, <2>1, <2>2, <2>3 DEF EvictPop, TypeOK
<1>6. ASSUME NEW t \in Threads, StoreInsert(t)
      PROVE  TypeOK' /\ ThreadInv'
  <2>1. arg[t] \in Call /\ arg[t].key \in Keys /\ arg[t].entry \in Entry
    BY <1>6 DEF StoreInsert, Call
  <2>2. heap' \in Seq(HeapRef)
    BY <1>6, <2>1, PushedProperties DEF StoreInsert
  <2>3. entries' \in [Keys -> Entry \union {Absent}]
    BY <1>6, <2>1 DEF StoreInsert, TypeOK
  <2> QED
    BY <1>6, <2>2, <2>3, LockAssumption DEF StoreInsert, TypeOK
<1>7. ASSUME NEW t \in Threads, NEW k \in Keys, Retrieve(t, k)
      PROVE  TypeOK' /\ ThreadInv'
  <2>1. pending' \in Seq(Event) /\ logged' \in Nat
    <3>1. pending \in Seq(Event) /\ logged \in Nat
      BY DEF TypeOK
    <3>2. PICK q \in Seq(Event) : q = Append(pending, EventOf(k, "full"))
      BY QueuedProperties
    <3>3. \/ pending' = q /\ logged' = logged + 1
          \/ pending' = pending /\ logged' = logged
      BY <1>7, <3>2 DEF Retrieve
    <3> QED
      BY <3>1, <3>3
  <2>2. entries' \in [Keys -> Entry \union {Absent}]
    <3>1. entries[k] \in Entry
      BY <1>7 DEF Retrieve, TypeOK
    <3>2. [entries[k] EXCEPT !.retrieved = TRUE] \in Entry
      BY <3>1 DEF Entry
    <3> QED
      BY <1>7, <3>2 DEF Retrieve, TypeOK
  <2>3. pc' \in [Threads -> {"idle", "take", "deliver", "lock", "evict"}] /\ ThreadInv'
    BY <1>7 DEF Retrieve, TypeOK
  <2> QED
    BY <1>7, <2>1, <2>2, <2>3 DEF Retrieve, TypeOK
<1>8. ASSUME NEW t \in Threads, NEW k \in Keys, ExpireOnAccess(t, k)
      PROVE  TypeOK' /\ ThreadInv'
  BY <1>8 DEF ExpireOnAccess, TypeOK, StalePlus
<1>9. ASSUME NEW t \in Threads, GetStats(t)
      PROVE  TypeOK' /\ ThreadInv'
  <2>1. Cardinality(Dead) \in Nat
    BY LiveFinite, FS_Subset, FS_CardinalityType DEF Dead
  <2> QED
    BY <1>9, <2>1 DEF GetStats, TypeOK, StalePlus
<1>10. ASSUME NEW t \in Threads, Clear(t)
       PROVE  TypeOK' /\ ThreadInv'
  <2>1. {pending[i].id : i \in 1..Len(pending)} \subseteq Nat
    <3>1. pending \in Seq(Event)
      BY DEF TypeOK
    <3>2. ASSUME NEW i \in 1..Len(pending)
          PROVE  pending[i].id \in Nat
      <4>1. pending[i] \in Event
        BY <3>1, ElementOfSeq
      <4> QED
        BY <4>1 DEF Event
    <3> QED
      BY <3>2
  <2>2. <<>> \in Seq(HeapRef) /\ <<>> \in Seq(Event)
    BY EmptySeq
  <2> QED
    BY <1>10, <2>1, <2>2 DEF Clear, TypeOK
<1>11. ASSUME NEW t \in Threads, TakeFeedback(t)
       PROVE  TypeOK' /\ ThreadInv'
  <2> DEFINE b == [i \in 1..Len(pending) |-> Complete(pending[i])]
  <2>1. b \in Seq(Told) /\ Len(b) = Len(pending)
    BY CompletedBatch
  <2>2. AfterFeedback(t) \in {"idle", "lock"} /\ (AfterFeedback(t) = "lock" => arg[t] \in Call)
    BY DEF AfterFeedback, TypeOK
  <2>3. pending # <<>> => b # <<>>
    BY <2>1, EmptySeq DEF TypeOK
  <2>4. batch' = [batch EXCEPT ![t] = b] /\ pending' = <<>>
    BY <1>11 DEF TakeFeedback
  <2> HIDE DEF b
  <2> QED
    <3>1. <<>> \in Seq(Event)
      BY EmptySeq
    <3> QED
      BY <1>11, <2>1, <2>2, <2>3, <2>4, <3>1 DEF TakeFeedback, TypeOK
<1>12. ASSUME NEW t \in Threads, Deliver(t)
       PROVE  TypeOK' /\ ThreadInv'
  <2>1. batch[t] \in Seq(Told) /\ batch[t] # <<>>
    BY <1>12 DEF Deliver, TypeOK
  <2>2. /\ Head(batch[t]) \in Told
        /\ Tail(batch[t]) \in Seq(Told)
        /\ Len(batch[t]) # 1 => Tail(batch[t]) # <<>>
    <3>1. /\ Head(batch[t]) \in Told
          /\ Tail(batch[t]) \in Seq(Told)
          /\ Len(Tail(batch[t])) = Len(batch[t]) - 1
      BY <2>1, HeadTailProperties
    <3>2. Len(batch[t]) \in Nat
      BY <2>1, LenProperties
    <3>3. ASSUME Len(batch[t]) # 1
          PROVE  Tail(batch[t]) # <<>>
      <4>1. Len(Tail(batch[t])) # 0
        BY <3>1, <3>2, <3>3
      <4> QED
        BY <4>1, EmptySeq
    <3> QED
      BY <3>1, <3>3
  <2>3. AfterFeedback(t) \in {"idle", "lock"} /\ (AfterFeedback(t) = "lock" => arg[t] \in Call)
    BY DEF AfterFeedback, TypeOK
  <2> QED
    BY <1>12, <2>2, <2>3 DEF Deliver, TypeOK
<1>13. CASE UNCHANGED vars
  BY <1>13 DEF TypeOK
<1> QED
  BY <1>1, <1>2, <1>3, <1>4, <1>5, <1>6, <1>7, <1>8, <1>9, <1>10, <1>11, <1>12, <1>13
     DEF Next, StoreStep, FeedbackStep, Access

-----------------------------------------------------------------------------
(* The eviction heap *)

\* While the lock is free no eviction runs.
LEMMA NoEvictorWhenFree ==
    ASSUME ThreadInv, lock = NoThread
    PROVE  \A t \in Threads : pc[t] # "evict"
BY LockAssumption DEF ThreadInv, EvictorHoldsLock

\* Pigeonhole: a popped pair that speaks for no entry is surplus, because every
\* entry has another pair of its own.
LEMMA StalePairIsSurplus ==
    ASSUME TypeOK, HeapCoversLive, NEW i \in 1..Len(heap), ~SpeaksForEntry(i)
    PROVE  Cardinality(Live) <= Len(heap) - 1
<1> DEFINE n == Len(heap)
           T == (1..n) \ {i}
           f == [k \in Live |-> CHOOSE j \in 1..n : heap[j] = Ref(k)]
<1>1. n \in Nat
  BY LenProperties DEF TypeOK
<1>2. ASSUME NEW k \in Live
      PROVE  f[k] \in 1..n /\ heap[f[k]] = Ref(k)
  BY DEF HeapCoversLive
<1>3. ASSUME NEW k \in Live
      PROVE  f[k] # i
  <2>1. heap[i] # Ref(k)
    BY DEF SpeaksForEntry, Ref
  <2> QED
    BY <1>2, <2>1
<1>4. f \in [Live -> T]
  BY <1>2, <1>3
<1>5. \A a, b \in Live : f[a] = f[b] => a = b
  BY <1>2 DEF Ref
<1>6. f \in Injection(Live, T)
  <2> HIDE DEF f, T
  <2> QED
    BY <1>4, <1>5, Fun_IsInj
<1>7. IsFiniteSet(T) /\ Cardinality(T) = n - 1
  <2>1. IsFiniteSet(1..n) /\ Cardinality(1..n) = n
    <3> HIDE DEF n
    <3>1. IsFiniteSet(1..n) /\ Cardinality(1..n) = IF 1 > n THEN 0 ELSE n - 1 + 1
      BY <1>1, FS_Interval
    <3> QED
      BY <1>1, <3>1
  <2> QED
    BY <1>1, <2>1, FS_RemoveElement
<1>8. Cardinality(Live) <= Cardinality(T)
  <2> HIDE DEF f, T
  <2> QED
    BY <1>6, <1>7, FS_Injection
<1> QED
  BY <1>7, <1>8

\* Deleting entries takes them out of the count and disturbs no other pair.
LEMMA DropEntries ==
    ASSUME TypeOK, NEW D \in SUBSET Live,
           entries' = [k \in Keys |-> IF k \in D THEN Absent ELSE entries[k]]
    PROVE  /\ Live' = Live \ D
           /\ Cardinality(D) \in Nat /\ Cardinality(Live') \in Nat
           /\ Cardinality(Live') = Cardinality(Live) - Cardinality(D)
           /\ \A k \in Live' : Ref(k)' = Ref(k)
<1>1. Live' = Live \ D
  BY DEF Live
<1>2. IsFiniteSet(D) /\ Cardinality(D) \in Nat
  BY LiveFinite, FS_Subset, FS_CardinalityType
<1>3. /\ Cardinality(Live \ D) \in Nat
      /\ Cardinality(Live \ D) = Cardinality(Live) - Cardinality(D)
  <2>1. Live \cap D = D
    OBVIOUS
  <2> QED
    BY <2>1, LiveFinite, FS_Difference, FS_CardinalityType
<1>4. \A k \in Live' : Ref(k)' = Ref(k)
  BY <1>1 DEF Ref, Live
<1> QED
  BY <1>1, <1>2, <1>3, <1>4

\* A step that leaves the hashes, their creation times and the heap alone, and
\* starts no eviction, keeps the heap invariant.
LEMMA HeapFrame ==
    ASSUME IndInv, UNCHANGED <<heap, stale, lock>>, Live' = Live,
           \A k \in Live : entries'[k].created = entries[k].created,
           \A t \in Threads : pc'[t] = "evict" => pc[t] = "evict" /\ arg'[t] = arg[t]
    PROVE  HeapInv'
<1>1. \A k \in Live : Ref(k)' = Ref(k)
  BY DEF Ref
<1>2. EvictorAddsNewHash'
  <2>1. ASSUME NEW t \in Threads, pc'[t] = "evict"
        PROVE  entries'[arg'[t].key] = Absent
    <3>1. arg[t].key \in Keys /\ entries[arg[t].key] = Absent
      BY <2>1 DEF IndInv, ThreadInv, CallsCarryEntries, HeapInv, EvictorAddsNewHash, Call
    <3> QED
      BY <2>1, <3>1 DEF Live
  <2> QED
    BY <2>1 DEF EvictorAddsNewHash
<1>3. HeapCoversLive'
  BY <1>1 DEF IndInv, HeapInv, HeapCoversLive
<1> QED
  BY <1>2, <1>3 DEF IndInv, HeapInv, CapacityBound, StaleAccounting, HeapBoundedAtEviction

\* A sweep by a thread that runs no eviction.
LEMMA SweepStep ==
    ASSUME IndInv, NEW D \in SUBSET Live, UNCHANGED <<heap, lock, pc, arg>>,
           entries' = [k \in Keys |-> IF k \in D THEN Absent ELSE entries[k]],
           stale' = stale + Cardinality(D), lock = NoThread
    PROVE  HeapInv'
<1>1. /\ Live' = Live \ D
      /\ Cardinality(D) \in Nat
      /\ Cardinality(Live') = Cardinality(Live) - Cardinality(D)
      /\ \A k \in Live' : Ref(k)' = Ref(k)
  BY DropEntries DEF IndInv
<1>2. stale \in Nat /\ Cardinality(Live) \in Nat /\ Len(heap) \in Nat
  BY LiveFinite, LenProperties DEF IndInv, TypeOK
<1>3. EvictorAddsNewHash'
  BY NoEvictorWhenFree DEF EvictorAddsNewHash, IndInv
<1>4. CapacityBound'
  BY <1>1, <1>2, CapacityAssumption DEF IndInv, HeapInv, CapacityBound
<1>5. HeapCoversLive'
  BY <1>1 DEF IndInv, HeapInv, HeapCoversLive
<1>6. StaleAccounting'
  BY <1>1, <1>2 DEF IndInv, HeapInv, StaleAccounting
<1>7. HeapBoundedAtEviction'
  BY DEF HeapBoundedAtEviction
<1> QED
  BY <1>3, <1>4, <1>5, <1>6, <1>7 DEF HeapInv

\* Overwriting a known hash: one pair more, one stale more, the same entries.
LEMMA OverwriteStep ==
    ASSUME IndInv, NEW t \in Threads, StoreOverwrite(t)
    PROVE  HeapInv'
<1> DEFINE c == arg[t]
<1>1. c \in Call /\ c.key \in Live /\ c.entry \in Entry
  BY DEF IndInv, ThreadInv, CallsCarryEntries, StoreOverwrite, IsNew, Live, Call
<1>2. /\ entries' = [entries EXCEPT ![c.key] = c.entry]
      /\ heap' = Pushed(c) /\ stale' = stale + 1
      /\ lock' = lock /\ lock = NoThread
      /\ \A u \in Threads : pc'[u] = "evict" => pc[u] = "evict"
  BY DEF StoreOverwrite, StalePlus, IndInv, TypeOK
<1>3. /\ Len(heap') = Len(heap) + 1
      /\ \A i \in 1..Len(heap) : heap'[i] = heap[i]
      /\ heap'[Len(heap) + 1] = [created |-> c.entry.created, key |-> c.key]
      /\ Len(heap) \in Nat
  <2>1. heap \in Seq(HeapRef)
    BY DEF IndInv, TypeOK
  <2> HIDE DEF c
  <2> QED
    BY <1>1, <1>2, <2>1, PushedProperties, LenProperties DEF IndInv
<1>4. Live' = Live
  BY <1>1, <1>2, AbsentAssumption DEF IndInv, TypeOK, Live
<1>5. EvictorAddsNewHash'
  BY <1>2, NoEvictorWhenFree DEF EvictorAddsNewHash, IndInv
<1>6. HeapCoversLive'
  <2>1. ASSUME NEW k \in Live
        PROVE  \E i \in 1..Len(heap') : heap'[i] = Ref(k)'
    <3>1. CASE k = c.key
      <4>1. Ref(k)' = [created |-> c.entry.created, key |-> c.key]
        BY <1>1, <1>2, <3>1 DEF Ref, Live, IndInv, TypeOK
      <4> QED
        BY <1>3, <4>1
    <3>2. CASE k # c.key
      <4>1. Ref(k)' = Ref(k)
        BY <1>2, <3>2 DEF Ref, Live, IndInv, TypeOK
      <4>2. PICK i \in 1..Len(heap) : heap[i] = Ref(k)
        BY DEF IndInv, HeapInv, HeapCoversLive
      <4> QED
        BY <1>3, <4>1, <4>2
    <3> QED
      BY <3>1, <3>2
  <2> QED
    BY <1>4, <2>1 DEF HeapCoversLive
<1>7. StaleAccounting'
  BY <1>2, <1>3, <1>4, LiveFinite DEF IndInv, TypeOK, HeapInv, StaleAccounting
<1>8. CapacityBound'
  BY <1>4 DEF IndInv, HeapInv, CapacityBound
<1>9. HeapBoundedAtEviction'
  BY <1>2 DEF HeapBoundedAtEviction
<1> QED
  BY <1>5, <1>6, <1>7, <1>8, <1>9 DEF HeapInv

\* Starting an eviction: the sweep, and the rebuild when it is due.
LEMMA LockStep ==
    ASSUME IndInv, NEW t \in Threads, StoreLock(t)
    PROVE  HeapInv'
<1>1. Dead \in SUBSET Live
  BY DEF Dead
<1>2. entries' = [k \in Keys |-> IF k \in Dead THEN Absent ELSE entries[k]]
  BY DEF StoreLock
<1>3. /\ Live' = Live \ Dead
      /\ Cardinality(Dead) \in Nat /\ Cardinality(Live') \in Nat
      /\ Cardinality(Live') = Cardinality(Live) - Cardinality(Dead)
      /\ \A k \in Live' : Ref(k)' = Ref(k)
  BY <1>1, <1>2, DropEntries DEF IndInv
<1>4. /\ stale \in Nat /\ Cardinality(Live) \in Nat /\ Len(heap) \in Nat
      /\ Len(heap) = Cardinality(Live) + stale
  BY LiveFinite, LenProperties DEF IndInv, TypeOK, HeapInv, StaleAccounting
<1>5. EvictorAddsNewHash'
  <2>1. arg[t].key \in Keys /\ arg' = arg /\ lock = NoThread
    BY DEF StoreLock, IndInv, ThreadInv, CallsCarryEntries, Call
  <2>2. entries'[arg'[t].key] = Absent
    BY <1>2, <2>1 DEF StoreLock, IsNew
  <2>3. \A u \in Threads : pc'[u] = "evict" => u = t
    BY <2>1, NoEvictorWhenFree DEF StoreLock, IndInv, TypeOK
  <2> QED
    BY <2>2, <2>3 DEF EvictorAddsNewHash
<1>6. CapacityBound'
  BY <1>3, <1>4, CapacityAssumption DEF IndInv, HeapInv, CapacityBound
<1> DEFINE staleNow == stale + Cardinality(Dead)
<1>7. CASE RebuildDue(staleNow)
  <2> DEFINE h == SetToSeq({Ref(k) : k \in Live \ Dead})
  <2>1. heap' = h /\ stale' = 0
    BY <1>7 DEF StoreLock, StalePlus
  <2>2. /\ Len(h) = Cardinality(Live \ Dead)
        /\ \A k \in Live \ Dead : \E i \in 1..Len(h) : h[i] = Ref(k)
    BY RebuiltHeap DEF IndInv
  <2> HIDE DEF h
  <2>3. HeapCoversLive'
    BY <1>3, <2>1, <2>2 DEF HeapCoversLive
  <2>4. StaleAccounting'
    BY <1>3, <1>4, <2>1, <2>2 DEF StaleAccounting
  <2>5. HeapBoundedAtEviction'
    BY <1>3, <1>4, <1>6, <2>1, <2>2, CapacityAssumption
       DEF HeapBoundedAtEviction, CapacityBound
  <2> QED
    BY <1>5, <1>6, <2>3, <2>4, <2>5 DEF HeapInv
<1>8. CASE ~RebuildDue(staleNow)
  <2>1. heap' = heap /\ stale' = staleNow
    BY <1>8 DEF StoreLock, StalePlus
  <2>2. HeapCoversLive'
    BY <1>3, <2>1 DEF IndInv, HeapInv, HeapCoversLive
  <2>3. StaleAccounting'
    BY <1>3, <1>4, <2>1 DEF StaleAccounting
  <2>4. HeapBoundedAtEviction'
    <3>1. Len(heap) <= 2 * Cardinality(Live')
      BY <1>3, <1>4, <1>8 DEF RebuildDue
    <3>2. Cardinality(Live') <= MaxEntries
      BY <1>6 DEF CapacityBound
    <3> QED
      BY <1>3, <1>4, <2>1, <3>1, <3>2, CapacityAssumption DEF HeapBoundedAtEviction
  <2> QED
    BY <1>5, <1>6, <2>2, <2>3, <2>4 DEF HeapInv
<1> QED
  BY <1>7, <1>8

\* One pop.  Either it takes an entry and its pair, or a pair in surplus.
LEMMA PopStep ==
    ASSUME IndInv, NEW t \in Threads, EvictPop(t)
    PROVE  HeapInv'
<1>1. PICK i \in 1..Len(heap) :
         /\ heap' = RemoveAt(heap, i)
         /\ IF SpeaksForEntry(i)
            THEN entries' = [entries EXCEPT ![heap[i].key] = Absent] /\ stale' = stale
            ELSE entries' = entries /\ stale' = IF stale > 0 THEN stale - 1 ELSE 0
  BY DEF EvictPop, Popped
<1>2. /\ heap \in Seq(HeapRef) /\ Len(heap) \in Nat
      /\ stale \in Nat /\ Cardinality(Live) \in Nat
      /\ Len(heap) = Cardinality(Live) + stale
  BY LiveFinite, LenProperties DEF IndInv, TypeOK, HeapInv, StaleAccounting
<1>3. /\ Len(heap') = Len(heap) - 1
      /\ \A j \in 1..Len(heap) : j # i => \E m \in 1..Len(heap') : heap'[m] = heap[j]
  BY <1>1, <1>2, RemoveAtProperties
<1>4. lock' = lock /\ pc' = pc /\ arg' = arg /\ lock # NoThread
  BY LockAssumption DEF EvictPop, IndInv, ThreadInv, EvictorHoldsLock
<1>5. HeapBoundedAtEviction'
  BY <1>2, <1>3, <1>4, CapacityAssumption DEF IndInv, HeapInv, HeapBoundedAtEviction
<1>6. CASE SpeaksForEntry(i)
  <2> DEFINE k == heap[i].key
  <2>1. k \in Live /\ heap[i] = Ref(k)
    BY <1>6 DEF SpeaksForEntry
  <2>2. Live' = Live \ {k} /\ Cardinality(Live') = Cardinality(Live) - 1
    <3>1. Live' = Live \ {k}
      BY <1>1, <1>6, <2>1 DEF IndInv, TypeOK, Live
    <3>2. Cardinality(Live \ {k}) = Cardinality(Live) - 1
      BY <2>1, LiveFinite, FS_RemoveElement
    <3> QED
      BY <3>1, <3>2
  <2>3. EvictorAddsNewHash'
    <3>1. \A u \in Threads : pc[u] = "evict" => arg[u].key \in Keys /\ entries[arg[u].key] = Absent
      BY DEF IndInv, ThreadInv, CallsCarryEntries, Call, HeapInv, EvictorAddsNewHash
    <3> QED
      BY <1>1, <1>4, <1>6, <3>1 DEF EvictorAddsNewHash, IndInv, TypeOK
  <2>4. HeapCoversLive'
    <3>1. ASSUME NEW j \in Live'
          PROVE  \E m \in 1..Len(heap') : heap'[m] = Ref(j)'
      <4>1. j \in Live /\ j # k
        BY <2>2
      <4>2. PICK n \in 1..Len(heap) : heap[n] = Ref(j)
        BY <4>1 DEF IndInv, HeapInv, HeapCoversLive
      <4>3. n # i
        BY <2>1, <4>1, <4>2 DEF Ref
      <4>4. Ref(j)' = Ref(j)
        BY <1>1, <1>6, <4>1 DEF Ref, Live, IndInv, TypeOK
      <4> QED
        BY <1>3, <4>2, <4>3, <4>4
    <3> QED
      BY <3>1 DEF HeapCoversLive
  <2>5. StaleAccounting'
    BY <1>1, <1>2, <1>3, <1>6, <2>2 DEF StaleAccounting
  <2>6. CapacityBound'
    BY <1>2, <2>2, CapacityAssumption DEF IndInv, HeapInv, CapacityBound
  <2> QED
    BY <1>5, <2>3, <2>4, <2>5, <2>6 DEF HeapInv
<1>7. CASE ~SpeaksForEntry(i)
  <2>1. entries' = entries /\ Live' = Live
    BY <1>1, <1>7 DEF Live
  <2>2. Cardinality(Live) <= Len(heap) - 1
    BY <1>7, StalePairIsSurplus DEF IndInv, HeapInv
  <2>3. stale' = stale - 1
    BY <1>1, <1>2, <1>7, <2>2
  <2>4. HeapCoversLive'
    <3>1. ASSUME NEW j \in Live
          PROVE  \E m \in 1..Len(heap') : heap'[m] = Ref(j)
      <4>1. PICK n \in 1..Len(heap) : heap[n] = Ref(j)
        BY DEF IndInv, HeapInv, HeapCoversLive
      <4>2. n # i
        BY <1>7, <4>1 DEF SpeaksForEntry, Ref
      <4> QED
        BY <1>3, <4>1, <4>2
    <3> QED
      BY <2>1, <3>1 DEF HeapCoversLive, Ref
  <2>5. StaleAccounting'
    BY <1>2, <1>3, <2>1, <2>3 DEF StaleAccounting
  <2>6. CapacityBound' /\ EvictorAddsNewHash'
    BY <1>4, <2>1 DEF IndInv, HeapInv, CapacityBound, EvictorAddsNewHash
  <2> QED
    BY <1>5, <2>4, <2>5, <2>6 DEF HeapInv
<1> QED
  BY <1>6, <1>7

\* When the loop ends there is room for the new hash.
LEMMA RoomToInsert ==
    ASSUME IndInv, NEW t \in Threads, StoreInsert(t)
    PROVE  Cardinality(Live) < MaxEntries
<1>1. /\ stale \in Nat /\ Cardinality(Live) \in Nat
      /\ Len(heap) = Cardinality(Live) + stale
  BY LiveFinite DEF IndInv, TypeOK, HeapInv, StaleAccounting
<1>2. heap = <<>> => Len(heap) = 0
  BY EmptySeq
<1> QED
  BY <1>1, <1>2, CapacityAssumption DEF StoreInsert, AtCapacity

\* The end of an eviction: there is room, and the new hash takes it.
LEMMA InsertStep ==
    ASSUME IndInv, NEW t \in Threads, StoreInsert(t)
    PROVE  HeapInv'
<1> DEFINE c == arg[t]
<1>1. c \in Call /\ c.key \in Keys /\ c.entry \in Entry /\ entries[c.key] = Absent
  BY DEF IndInv, ThreadInv, CallsCarryEntries, StoreInsert, Call, HeapInv, EvictorAddsNewHash
<1>2. /\ entries' = [entries EXCEPT ![c.key] = c.entry]
      /\ heap' = Pushed(c) /\ stale' = stale /\ lock' = NoThread
  BY DEF StoreInsert
<1>3. /\ Len(heap') = Len(heap) + 1
      /\ \A i \in 1..Len(heap) : heap'[i] = heap[i]
      /\ heap'[Len(heap) + 1] = [created |-> c.entry.created, key |-> c.key]
      /\ Len(heap) \in Nat
  <2>1. heap \in Seq(HeapRef)
    BY DEF IndInv, TypeOK
  <2> HIDE DEF c
  <2> QED
    BY <1>1, <1>2, <2>1, PushedProperties, LenProperties DEF IndInv
<1>4. /\ stale \in Nat /\ Cardinality(Live) \in Nat
      /\ Len(heap) = Cardinality(Live) + stale
  BY LiveFinite DEF IndInv, TypeOK, HeapInv, StaleAccounting
<1>5. Cardinality(Live) < MaxEntries
  BY RoomToInsert
<1>6. Live' = Live \union {c.key} /\ Cardinality(Live') = Cardinality(Live) + 1
  <2>1. Live' = Live \union {c.key}
    BY <1>1, <1>2, AbsentAssumption DEF IndInv, TypeOK, Live
  <2>2. c.key \notin Live
    BY <1>1 DEF Live
  <2>3. Cardinality(Live \union {c.key}) = Cardinality(Live) + 1
    BY <2>2, LiveFinite, FS_AddElement
  <2> QED
    BY <2>1, <2>3
<1>7. EvictorAddsNewHash'
  BY <1>2 DEF StoreInsert, IndInv, TypeOK, ThreadInv, EvictorHoldsLock, EvictorAddsNewHash
<1>8. HeapCoversLive'
  <2>1. ASSUME NEW k \in Live'
        PROVE  \E i \in 1..Len(heap') : heap'[i] = Ref(k)'
    <3>1. CASE k = c.key
      <4>1. Ref(k)' = [created |-> c.entry.created, key |-> c.key]
        BY <1>1, <1>2, <3>1 DEF Ref, IndInv, TypeOK
      <4> QED
        BY <1>3, <4>1
    <3>2. CASE k # c.key
      <4>1. k \in Live /\ Ref(k)' = Ref(k)
        BY <1>2, <1>6, <3>2 DEF Ref, Live, IndInv, TypeOK
      <4>2. PICK i \in 1..Len(heap) : heap[i] = Ref(k)
        BY <4>1 DEF IndInv, HeapInv, HeapCoversLive
      <4> QED
        BY <1>3, <4>1, <4>2
    <3> QED
      BY <3>1, <3>2
  <2> QED
    BY <2>1 DEF HeapCoversLive
<1>9. StaleAccounting' /\ CapacityBound' /\ HeapBoundedAtEviction'
  <2>1. StaleAccounting'
    BY <1>2, <1>3, <1>4, <1>6 DEF StaleAccounting
  <2>2. CapacityBound'
    BY <1>4, <1>5, <1>6, CapacityAssumption DEF CapacityBound
  <2>3. HeapBoundedAtEviction'
    BY <1>2 DEF HeapBoundedAtEviction
  <2> QED
    BY <2>1, <2>2, <2>3
<1> QED
  BY <1>7, <1>8, <1>9 DEF HeapInv

\* Clearing leaves nothing to keep track of.
LEMMA ClearStep ==
    ASSUME IndInv, NEW t \in Threads, Clear(t)
    PROVE  HeapInv'
<1>1. Live' = {} /\ heap' = <<>> /\ stale' = 0
  BY DEF Clear, Live
<1>2. Cardinality(Live') = 0 /\ Len(heap') = 0
  BY <1>1, FS_EmptySet, EmptySeq
<1>3. lock' = NoThread /\ \A u \in Threads : pc'[u] # "evict"
  BY NoEvictorWhenFree DEF Clear, IndInv
<1> QED
  BY <1>1, <1>2, <1>3, CapacityAssumption
     DEF HeapInv, EvictorAddsNewHash, CapacityBound, HeapCoversLive,
         StaleAccounting, HeapBoundedAtEviction

\* An entry found expired goes; its pair stays behind.
LEMMA ExpireStep ==
    ASSUME IndInv, NEW t \in Threads, NEW k \in Keys, ExpireOnAccess(t, k)
    PROVE  HeapInv'
<1>1. {k} \in SUBSET Live /\ Cardinality({k}) = 1
  BY FS_Singleton DEF ExpireOnAccess, Live
<1>2. entries' = [j \in Keys |-> IF j \in {k} THEN Absent ELSE entries[j]]
  BY DEF ExpireOnAccess, IndInv, TypeOK
<1>3. stale' = stale + Cardinality({k})
  BY <1>1 DEF ExpireOnAccess, StalePlus
<1> QED
  BY <1>1, <1>2, <1>3, SweepStep DEF ExpireOnAccess

\* Every step keeps the heap invariant.
LEMMA HeapStep ==
    ASSUME IndInv, [Next]_vars
    PROVE  HeapInv'
<1>1. CASE Tick
  BY <1>1, HeapFrame DEF Tick, Live
<1>2. ASSUME NEW t \in Threads, NEW k \in Keys, StoreBegin(t, k)
      PROVE  HeapInv'
  BY <1>2, HeapFrame DEF StoreBegin, Live, IndInv, TypeOK
<1>3. ASSUME NEW t \in Threads, NEW k \in Keys, Retrieve(t, k)
      PROVE  HeapInv'
  <2>1. entries' = [entries EXCEPT ![k].retrieved = TRUE] /\ entries[k] \in Entry
    BY <1>3 DEF Retrieve, IndInv, TypeOK
  <2>2. entries'[k] \in Entry /\ entries'[k].created = entries[k].created
    BY <2>1 DEF IndInv, TypeOK, Entry
  <2>3. \A j \in Keys : j # k => entries'[j] = entries[j]
    BY <2>1 DEF IndInv, TypeOK
  <2>4. Live' = Live
    BY <2>1, <2>2, <2>3, AbsentAssumption DEF Live
  <2>5. \A j \in Live : entries'[j].created = entries[j].created
    BY <2>2, <2>3 DEF Live
  <2>6. \A u \in Threads : pc'[u] = "evict" => pc[u] = "evict" /\ arg'[u] = arg[u]
    BY <1>3 DEF Retrieve, IndInv, TypeOK
  <2> QED
    BY <1>3, <2>4, <2>5, <2>6, HeapFrame DEF Retrieve
<1>4. ASSUME NEW t \in Threads, GetStats(t)
      PROVE  HeapInv'
  BY <1>4, SweepStep DEF GetStats, StalePlus, Dead
<1>5. ASSUME NEW t \in Threads, FeedbackStep(t)
      PROVE  HeapInv'
  BY <1>5, HeapFrame
     DEF FeedbackStep, TakeFeedback, Deliver, AfterFeedback, Live, IndInv, TypeOK
<1>6. CASE UNCHANGED vars
  BY <1>6, HeapFrame DEF Live
<1> QED
  BY <1>1, <1>2, <1>3, <1>4, <1>5, <1>6, ExpireStep, ClearStep,
     OverwriteStep, LockStep, PopStep, InsertStep
     DEF Next, StoreStep, Access

-----------------------------------------------------------------------------
(* The hand-over of events *)

\* P, D, C and the B[t] share the numbers up to n out among them.
SharedOut(n, P, D, C, B) ==
    /\ \A x : x \in 1..n <=> x \in P \/ x \in D \/ x \in C \/ \E t \in Threads : x \in B[t]
    /\ \A x : ~(x \in P /\ x \in D) /\ ~(x \in P /\ x \in C) /\ ~(x \in D /\ x \in C)
    /\ \A t \in Threads : \A x \in B[t] : x \notin P /\ x \notin D /\ x \notin C
    /\ \A t, u \in Threads : \A x : x \in B[t] /\ x \in B[u] => t = u

Batches == [t \in Threads |-> BatchIds(t)]

\* No place holds an event twice, and only a deliverer has a batch: what a thread
\* delivers leaves its batch, and what it takes is all its batch then holds.
EventsInv ==
    /\ SharedOut(logged, PendingIds, DoneIds, cleared, Batches)
    /\ \A i, j \in 1..Len(pending) : pending[i].id = pending[j].id => i = j
    /\ \A t \in Threads : \A i, j \in 1..Len(batch[t]) :
          batch[t][i].event.id = batch[t][j].event.id => i = j
    /\ \A t \in Threads : pc[t] # "deliver" => batch[t] = <<>>

\* The property, said place by place.
LEMMA SharedOutIs ==
    SharedOut(logged, PendingIds, DoneIds, cleared, Batches) => EventsHandedOverOnce
<1> SUFFICES ASSUME SharedOut(logged, PendingIds, DoneIds, cleared, Batches)
             PROVE  EventsHandedOverOnce
  OBVIOUS
<1> DEFINE places == <<PendingIds, DoneIds, cleared>>
<1>1. \A t \in Threads : Batches[t] = BatchIds(t)
  BY DEF Batches
<1> USE DEF SharedOut
<1>2. 1..logged = PendingIds \union DoneIds \union cleared
                    \union UNION {BatchIds(t) : t \in Threads}
  <2>1. ASSUME NEW x
        PROVE  x \in 1..logged <=> x \in PendingIds \union DoneIds \union cleared
                                        \union UNION {BatchIds(t) : t \in Threads}
    BY <1>1
  <2> QED
    BY <2>1
<1>3. /\ PendingIds \intersect DoneIds = {} /\ PendingIds \intersect cleared = {}
      /\ DoneIds \intersect cleared = {}
  OBVIOUS
<1>4. ASSUME NEW i \in 1..3, NEW j \in 1..3, i # j
      PROVE  places[i] \intersect places[j] = {}
  <2>1. i \in {1, 2, 3} /\ j \in {1, 2, 3}
    OBVIOUS
  <2> HIDE DEF SharedOut
  <2> QED
    BY <1>3, <1>4, <2>1
<1>5. ASSUME NEW t \in Threads
      PROVE  /\ \A i \in 1..3 : BatchIds(t) \intersect places[i] = {}
             /\ \A u \in Threads \ {t} : BatchIds(t) \intersect BatchIds(u) = {}
  <2>1. /\ BatchIds(t) \intersect PendingIds = {} /\ BatchIds(t) \intersect DoneIds = {}
        /\ BatchIds(t) \intersect cleared = {}
    BY <1>1
  <2>2. \A u \in Threads \ {t} : BatchIds(t) \intersect BatchIds(u) = {}
    BY <1>1
  <2>3. ASSUME NEW i \in 1..3
        PROVE  BatchIds(t) \intersect places[i] = {}
    <3>1. i \in {1, 2, 3}
      OBVIOUS
    <3> HIDE DEF SharedOut
    <3> QED
      BY <2>1, <3>1
  <2> QED
    BY <2>2, <2>3
<1> HIDE DEF SharedOut
<1> QED
  BY <1>2, <1>4, <1>5 DEF EventsHandedOverOnce

\* At the start there is nothing to share out.
LEMMA InitEvents == Init => EventsInv
<1> SUFFICES ASSUME Init PROVE EventsInv
  OBVIOUS
<1>1. pending = <<>> /\ Len(<<>>) = 0 /\ done = {} /\ cleared = {} /\ logged = 0
      /\ \A t \in Threads : batch[t] = <<>>
  BY DEF Init
<1>2. PendingIds = {} /\ DoneIds = {} /\ \A t \in Threads : Batches[t] = {}
  BY <1>1 DEF PendingIds, DoneIds, Batches, BatchIds
<1>3. SharedOut(logged, PendingIds, DoneIds, cleared, Batches)
  BY <1>1, <1>2 DEF SharedOut
<1> QED
  BY <1>1, <1>3 DEF EventsInv

\* A step that leaves the events alone, and nobody begins or ends delivering.
LEMMA QuietStep ==
    ASSUME EventsInv, UNCHANGED feedbackVars,
           \A t \in Threads : pc'[t] # "deliver" => pc[t] # "deliver"
    PROVE  EventsInv'
<1>1. UNCHANGED <<PendingIds, DoneIds, Batches>>
  BY DEF PendingIds, DoneIds, Batches, BatchIds
<1>2. SharedOut(logged, PendingIds, DoneIds, cleared, Batches)'
  BY <1>1 DEF EventsInv, SharedOut
<1> QED
  BY <1>2 DEF EventsInv

\* A new event gets the next number.
LEMMA QueuedStep ==
    ASSUME TypeOK, EventsInv, NEW k \in Keys, NEW kind \in {"full", "eviction_success"},
           pending' = Append(pending, EventOf(k, kind)), logged' = logged + 1,
           UNCHANGED <<batch, done, cleared>>,
           \A t \in Threads : pc'[t] # "deliver" => pc[t] # "deliver"
    PROVE  EventsInv'
<1> DEFINE n == Len(pending)
<1>1. n \in Nat /\ logged \in Nat /\ EventOf(k, kind).id = logged + 1
  BY LenProperties DEF TypeOK, EventOf
<1>2. /\ Len(pending') = n + 1 /\ pending'[n + 1] = EventOf(k, kind)
      /\ \A i \in 1..n : pending'[i] = pending[i]
  <2>1. pending \in Seq(Event) /\ EventOf(k, kind) \in Event
    BY QueuedProperties DEF TypeOK
  <2> QED
    BY <2>1, AppendProperties
<1> HIDE DEF n
<1>3. PendingIds' = PendingIds \union {logged + 1}
  <2>1. PendingIds = {pending[i].id : i \in 1..n}
        /\ PendingIds' = {pending'[i].id : i \in 1..n + 1}
    BY <1>2 DEF PendingIds, n
  <2>2. 1..n + 1 = 1..n \union {n + 1}
    BY <1>1
  <2> QED
    BY <1>1, <1>2, <2>1, <2>2
<1>4. SharedOut(logged, PendingIds, DoneIds, cleared, Batches)
  BY DEF EventsInv
<1>5. DoneIds' = DoneIds /\ cleared' = cleared /\ Batches' = Batches
  BY DEF DoneIds, Batches, BatchIds
<1>6. SharedOut(logged, PendingIds, DoneIds, cleared, Batches)'
  <2>1. \A x : x \in 1..logged' <=> x \in 1..logged \/ x = logged + 1
    BY <1>1
  <2>2. logged + 1 \notin 1..logged
    BY <1>1
  <2> QED
    BY <1>3, <1>4, <1>5, <2>1, <2>2 DEF SharedOut
<1>7. \A i, j \in 1..Len(pending') : pending'[i].id = pending'[j].id => i = j
  <2>1. \A i \in 1..n : pending[i].id # logged + 1
    <3>1. \A i \in 1..n : pending[i].id \in PendingIds
      BY DEF PendingIds, n
    <3>2. logged + 1 \notin PendingIds
      BY <1>1, <1>4 DEF SharedOut
    <3> QED
      BY <3>1, <3>2
  <2>2. \A i, j \in 1..n : pending[i].id = pending[j].id => i = j
    BY DEF EventsInv, n
  <2>3. \A i \in 1..Len(pending') : i \in 1..n \/ i = n + 1
    BY <1>1, <1>2
  <2> QED
    BY <1>1, <1>2, <2>1, <2>2, <2>3
<1> QED
  BY <1>6, <1>7 DEF EventsInv

\* A thread without a batch takes the queue for its batch.
LEMMA TakeStep ==
    ASSUME TypeOK, EventsInv, NEW t \in Threads, TakeFeedback(t)
    PROVE  EventsInv'
<1> DEFINE b == [i \in 1..Len(pending) |-> Complete(pending[i])]
<1>1. /\ pc[t] = "take" /\ batch' = [batch EXCEPT ![t] = b] /\ pending' = <<>>
      /\ done' = done /\ cleared' = cleared /\ logged' = logged
      /\ pc' = [pc EXCEPT ![t] = IF pending = <<>> THEN AfterFeedback(t) ELSE "deliver"]
  BY DEF TakeFeedback
<1>2. Len(b) = Len(pending) /\ Len(pending) \in Nat
      /\ \A i \in 1..Len(pending) : b[i].event = pending[i]
  BY CompletedBatch, LenProperties DEF TypeOK, Complete
<1>3. b # <<>> => pending # <<>>
  OBVIOUS
<1> HIDE DEF b
<1>4. batch[t] = <<>>
  BY <1>1 DEF EventsInv
<1>5. batch'[t] = b /\ \A u \in Threads : u # t => batch'[u] = batch[u]
  BY <1>1 DEF TypeOK
<1>6. PendingIds' = {} /\ DoneIds' = DoneIds
  BY <1>1 DEF PendingIds, DoneIds
<1>7. \A u \in Threads : Batches'[u] = IF u = t THEN PendingIds ELSE Batches[u]
  <2>1. BatchIds(t)' = PendingIds
    BY <1>2, <1>5 DEF BatchIds, PendingIds
  <2>2. ASSUME NEW u \in Threads, u # t
        PROVE  BatchIds(u)' = BatchIds(u)
    BY <1>5, <2>2 DEF BatchIds
  <2> QED
    BY <2>1, <2>2 DEF Batches
<1>8. Batches[t] = {}
  BY <1>4 DEF Batches, BatchIds
<1>9. SharedOut(logged, PendingIds, DoneIds, cleared, Batches)'
  BY <1>1, <1>6, <1>7, <1>8 DEF EventsInv, SharedOut
<1>10. \A u \in Threads : \A i, j \in 1..Len(batch'[u]) :
          batch'[u][i].event.id = batch'[u][j].event.id => i = j
  BY <1>2, <1>5 DEF EventsInv
<1>11. \A u \in Threads : pc'[u] # "deliver" => batch'[u] = <<>>
  BY <1>1, <1>3, <1>5 DEF EventsInv, TypeOK
<1>12. \A i, j \in 1..Len(pending') : pending'[i].id = pending'[j].id => i = j
  BY <1>1
<1> QED
  BY <1>9, <1>10, <1>11, <1>12 DEF EventsInv

\* The first event of a batch goes to the learners.
LEMMA DeliverStep ==
    ASSUME TypeOK, ThreadInv, EventsInv, NEW t \in Threads, Deliver(t)
    PROVE  EventsInv'
<1> DEFINE b == batch[t]
           x == Head(b).event.id
<1>1. /\ pc[t] = "deliver" /\ done' = done \union {Head(b)}
      /\ batch' = [batch EXCEPT ![t] = Tail(b)]
      /\ pending' = pending /\ cleared' = cleared /\ logged' = logged
      /\ pc' = [pc EXCEPT ![t] = IF Len(b) = 1 THEN AfterFeedback(t) ELSE "deliver"]
  BY DEF Deliver
<1>2. b \in Seq(Told) /\ b # <<>>
  BY <1>1 DEF TypeOK, ThreadInv, DeliverersHaveWork
<1>3. /\ Len(b) \in Nat \ {0} /\ Head(b) = b[1] /\ Len(Tail(b)) = Len(b) - 1
      /\ \A i \in 1..Len(b) - 1 : Tail(b)[i] = b[i + 1]
      /\ Len(b) = 1 => Tail(b) = <<>>
  <2> HIDE DEF b
  <2>1. Len(b) \in Nat \ {0} /\ Head(b) = b[1]
    BY <1>2, EmptySeq
  <2>2. Tail(b) \in Seq(Told) /\ Len(Tail(b)) = Len(b) - 1
        /\ \A i \in 1..Len(b) - 1 : Tail(b)[i] = b[i + 1]
    BY <1>2, <2>1, HeadTailProperties
  <2>3. ASSUME Len(b) = 1
        PROVE  Tail(b) = <<>>
    <3>1. Len(Tail(b)) = 0
      BY <2>2, <2>3
    <3> QED
      BY <2>2, <3>1, EmptySeq
  <2> QED
    BY <2>1, <2>2, <2>3
<1>4. \A i, j \in 1..Len(b) : b[i].event.id = b[j].event.id => i = j
  BY DEF EventsInv
<1>5. batch'[t] = Tail(b) /\ \A u \in Threads : u # t => batch'[u] = batch[u]
  BY <1>1 DEF TypeOK
<1>6. PendingIds' = PendingIds /\ DoneIds' = DoneIds \union {x}
  BY <1>1 DEF PendingIds, DoneIds
<1>7. x \in Batches[t]
  BY <1>3 DEF Batches, BatchIds
<1>8. \A u \in Threads : Batches'[u] = IF u = t THEN Batches[t] \ {x} ELSE Batches[u]
  <2>1. BatchIds(t)' = BatchIds(t) \ {x}
    <3>1. BatchIds(t) = {b[i].event.id : i \in 1..Len(b)}
          /\ BatchIds(t)' = {Tail(b)[i].event.id : i \in 1..Len(b) - 1}
      BY <1>3, <1>5 DEF BatchIds
    <3>2. x = b[1].event.id
      BY <1>3
    <3> HIDE DEF b, x
    <3>3. ASSUME NEW y \in BatchIds(t)'
          PROVE  y \in BatchIds(t) /\ y # x
      <4>1. PICK i \in 1..Len(b) - 1 : y = Tail(b)[i].event.id
        BY <3>1
      <4>2. i + 1 \in 1..Len(b) /\ y = b[i + 1].event.id /\ 1 \in 1..Len(b) /\ i + 1 # 1
        BY <1>3, <4>1
      <4> QED
        BY <1>4, <3>1, <3>2, <4>2
    <3>4. ASSUME NEW y \in BatchIds(t), y # x
          PROVE  y \in BatchIds(t)'
      <4>1. PICK i \in 1..Len(b) : y = b[i].event.id
        BY <3>1
      <4>2. i # 1
        BY <3>2, <3>4, <4>1
      <4>3. i - 1 \in 1..Len(b) - 1 /\ Tail(b)[i - 1] = b[i]
        BY <1>3, <4>2
      <4> QED
        BY <3>1, <4>1, <4>3
    <3> QED
      BY <3>3, <3>4
  <2>2. ASSUME NEW u \in Threads, u # t
        PROVE  BatchIds(u)' = BatchIds(u)
    BY <1>5, <2>2 DEF BatchIds
  <2> QED
    BY <2>1, <2>2 DEF Batches
<1> HIDE DEF b, x
<1>9. SharedOut(logged, PendingIds, DoneIds, cleared, Batches)'
  BY <1>1, <1>6, <1>7, <1>8 DEF EventsInv, SharedOut
<1>10. \A u \in Threads : \A i, j \in 1..Len(batch'[u]) :
          batch'[u][i].event.id = batch'[u][j].event.id => i = j
  <2>1. ASSUME NEW i \in 1..Len(b) - 1, NEW j \in 1..Len(b) - 1,
               Tail(b)[i].event.id = Tail(b)[j].event.id
        PROVE  i = j
    <3>1. i + 1 \in 1..Len(b) /\ j + 1 \in 1..Len(b)
          /\ b[i + 1].event.id = b[j + 1].event.id
      BY <1>3, <2>1
    <3>2. i + 1 = j + 1
      BY <1>4, <3>1
    <3> QED
      BY <3>2
  <2>2. ASSUME NEW i \in 1..Len(batch'[t]), NEW j \in 1..Len(batch'[t]),
               batch'[t][i].event.id = batch'[t][j].event.id
        PROVE  i = j
    <3>1. i \in 1..Len(b) - 1 /\ j \in 1..Len(b) - 1
      BY <1>3, <1>5
    <3> QED
      BY <1>5, <2>1, <2>2, <3>1
  <2>3. ASSUME NEW u \in Threads, u # t
        PROVE  \A i, j \in 1..Len(batch'[u]) :
                  batch'[u][i].event.id = batch'[u][j].event.id => i = j
    BY <1>5, <2>3 DEF EventsInv
  <2> QED
    BY <2>2, <2>3
<1>11. \A u \in Threads : pc'[u] # "deliver" => batch'[u] = <<>>
  BY <1>1, <1>3, <1>5 DEF EventsInv, TypeOK
<1> QED
  BY <1>1, <1>9, <1>10, <1>11 DEF EventsInv

\* clear() throws the queue away.
LEMMA ClearedStep ==
    ASSUME EventsInv, NEW t \in Threads, Clear(t)
    PROVE  EventsInv'
<1>1. /\ pending' = <<>> /\ cleared' = cleared \union PendingIds
      /\ UNCHANGED <<pc, batch, logged, done>>
  BY DEF Clear, PendingIds
<1>2. PendingIds' = {} /\ DoneIds' = DoneIds /\ Batches' = Batches
  BY <1>1 DEF PendingIds, DoneIds, Batches, BatchIds
<1>3. SharedOut(logged, PendingIds, DoneIds, cleared, Batches)'
  BY <1>1, <1>2 DEF EventsInv, SharedOut
<1> QED
  BY <1>1, <1>3 DEF EventsInv

\* Every step keeps the events shared out.
LEMMA EventsStep ==
    ASSUME IndInv, EventsInv, [Next]_vars
    PROVE  EventsInv'
<1>1. TypeOK /\ ThreadInv
  BY DEF IndInv
<1>2. CASE Tick \/ UNCHANGED vars
  BY <1>2, QuietStep DEF Tick
<1>3. ASSUME NEW t \in Threads, EvictPop(t)
      PROVE  EventsInv'
  <2>1. UNCHANGED <<pc, batch, done, cleared>>
    BY <1>3 DEF EvictPop
  <2>2. PICK i \in 1..Len(heap) :
           \/ /\ pending' = Append(pending, EventOf(heap[i].key, "eviction_success"))
              /\ logged' = logged + 1
           \/ UNCHANGED <<pending, logged>>
    BY <1>3 DEF EvictPop
  <2>3. heap[i].key \in Keys
    BY <1>1, HeapKeys
  <2> QED
    BY <1>1, <2>1, <2>2, <2>3, QueuedStep, QuietStep
<1>4. ASSUME NEW t \in Threads, NEW k \in Keys, Retrieve(t, k)
      PROVE  EventsInv'
  <2>1. /\ UNCHANGED <<batch, done, cleared>> /\ pc[t] = "idle"
        /\ pc' = pc \/ pc' = [pc EXCEPT ![t] = "take"]
        /\ \/ /\ pending' = Append(pending, EventOf(k, "full"))
              /\ logged' = logged + 1
           \/ UNCHANGED <<pending, logged>>
    BY <1>4 DEF Retrieve
  <2>2. \A u \in Threads : pc'[u] # "deliver" => pc[u] # "deliver"
    BY <1>1, <2>1 DEF TypeOK
  <2> QED
    BY <1>1, <2>1, <2>2, QueuedStep, QuietStep
<1>5. ASSUME NEW t \in Threads,
             \/ StoreOverwrite(t) \/ StoreLock(t) \/ StoreInsert(t) \/ GetStats(t)
             \/ \E k \in Keys : StoreBegin(t, k) \/ ExpireOnAccess(t, k)
      PROVE  EventsInv'
  <2>1. /\ UNCHANGED feedbackVars
        /\ \/ pc' = pc
           \/ pc[t] # "deliver" /\ \E label : pc' = [pc EXCEPT ![t] = label]
    BY <1>5 DEF StoreOverwrite, StoreLock, StoreInsert, GetStats, StoreBegin, ExpireOnAccess
  <2>2. \A u \in Threads : pc'[u] # "deliver" => pc[u] # "deliver"
    BY <1>1, <2>1 DEF TypeOK
  <2> QED
    BY <2>1, <2>2, QuietStep
<1>6. ASSUME NEW t \in Threads, FeedbackStep(t) \/ Clear(t)
      PROVE  EventsInv'
  BY <1>1, <1>6, TakeStep, DeliverStep, ClearedStep DEF FeedbackStep
<1> QED
  BY <1>2, <1>3, <1>4, <1>5, <1>6 DEF Next, StoreStep, Access

-----------------------------------------------------------------------------
(* Theorems *)

\* The inductive invariant holds initially and every step keeps it.
THEOREM Invariance == Spec => []IndInv
<1>1. Init => IndInv
  <2>1. ASSUME Init PROVE HeapInv
    <3>1. Live = {} /\ heap = <<>> /\ stale = 0 /\ lock = NoThread
      BY <2>1 DEF Init, Live
    <3>2. Cardinality(Live) = 0 /\ Len(heap) = 0
      BY <3>1, FS_EmptySet, EmptySeq
    <3>3. EvictorAddsNewHash
      BY <2>1 DEF Init, EvictorAddsNewHash
    <3> QED
      BY <3>1, <3>2, <3>3, CapacityAssumption
         DEF HeapInv, CapacityBound, HeapCoversLive, StaleAccounting, HeapBoundedAtEviction
  <2> QED
    BY <2>1, InitTypes DEF IndInv
<1>2. IndInv /\ [Next]_vars => IndInv'
  BY TypesStep, HeapStep DEF IndInv
<1> QED
  BY <1>1, <1>2, PTL DEF Spec

\* The store never holds more than max_entries originals, for any number of
\* threads, whatever the heap has gone through.
THEOREM Capacity == Spec => []CapacityBound
BY Invariance, PTL DEF IndInv, HeapInv

\* Every stored entry stays reachable for the eviction loop.
THEOREM Coverage == Spec => []HeapCoversLive
BY Invariance, PTL DEF IndInv, HeapInv

\* The stale counter is the surplus of the heap, never an estimate.
THEOREM Accounting == Spec => []StaleAccounting
BY Invariance, PTL DEF IndInv, HeapInv

\* During an eviction the heap is at most twice the capacity.
THEOREM HeapBound == Spec => []HeapBoundedAtEviction
BY Invariance, PTL DEF IndInv, HeapInv

\* Type correctness.
THEOREM TypeCorrectness == Spec => []TypeOK
BY Invariance, PTL DEF IndInv

\* process_pending_feedback(), clear() and the learners share the queued events
\* out among them: none is lost, none is handed over twice.
THEOREM HandOver == Spec => []EventsHandedOverOnce
<1>1. EventsInv => EventsHandedOverOnce
  BY SharedOutIs DEF EventsInv
<1>2. Spec => []EventsInv
  <2>1. IndInv /\ EventsInv /\ [Next]_vars => EventsInv'
    BY EventsStep
  <2> QED
    BY <2>1, InitEvents, Invariance, PTL DEF Spec
<1> QED
  BY <1>1, <1>2, PTL

-----------------------------------------------------------------------------
(* The promise of RedeemableStore: every step, seen through HeldView, is one *)
(* the promise allows or none at all; what a step may do to fresh content.   *)

\* The call of a store() is never mistaken for no call.
LEMMA CallIsNotNoCall ==
    ASSUME NEW c \in Call
    PROVE  c # NoCall
<1>1. "key" \in DOMAIN c
  BY DEF Call
<1>2. DOMAIN <<>> = {}
  <2>1. <<>> \in Seq({}) /\ Len(<<>>) = 0
    BY EmptySeq
  <2> QED
    BY <2>1, LenProperties
<1> QED
  BY <1>1, <1>2 DEF NoCall

\* Stamps are taken from the clock, and the clock does not go back.
LEMMA StampsStep ==
    ASSUME IndInv, StampsInPast, [Next]_vars
    PROVE  StampsInPast'
<1>1. CASE Tick
  <2>1. ASSUME NEW t \in Threads, arg[t] # NoCall
        PROVE  arg[t].entry.created <= now + 1
    <3>1. arg[t].entry.created \in Nat
      BY <2>1 DEF IndInv, TypeOK, Call, Entry
    <3> QED
      BY <2>1, <3>1 DEF StampsInPast, IndInv, TypeOK
  <2> QED
    BY <1>1, <2>1 DEF Tick, StampsInPast
<1>2. ASSUME NEW t \in Threads, NEW k \in Keys, StoreBegin(t, k)
      PROVE  StampsInPast'
  <2>1. PICK ttl \in TTLs, signed \in Signed :
           arg' = [arg EXCEPT ![t] =
                    [key |-> k, entry |-> [created |-> now, ttl |-> ttl,
                                           retrieved |-> FALSE, signed |-> signed]]]
    BY <1>2 DEF StoreBegin
  <2>2. now' = now
    BY <1>2 DEF StoreBegin
  <2>3. ASSUME NEW u \in Threads, arg'[u] # NoCall
        PROVE  arg'[u].entry.created <= now
    <3>1. CASE u = t
      <4>1. arg'[t].entry.created = now
        BY <2>1 DEF IndInv, TypeOK
      <4> QED
        BY <3>1, <4>1 DEF IndInv, TypeOK
    <3>2. CASE u # t
      <4>1. arg'[u] = arg[u]
        BY <2>1, <3>2 DEF IndInv, TypeOK
      <4> QED
        BY <2>3, <4>1 DEF StampsInPast
    <3> QED
      BY <3>1, <3>2
  <2> QED
    BY <2>2, <2>3 DEF StampsInPast
<1>3. ASSUME NEW t \in Threads, StoreOverwrite(t) \/ StoreInsert(t)
      PROVE  StampsInPast'
  BY <1>3 DEF StoreOverwrite, StoreInsert, StampsInPast, IndInv, TypeOK
<1>4. ASSUME UNCHANGED <<now, arg>>
      PROVE  StampsInPast'
  BY <1>4 DEF StampsInPast
<1> QED
  BY <1>1, <1>2, <1>3, <1>4
     DEF Next, StoreStep, FeedbackStep, Access, StoreLock, EvictPop, Retrieve,
         ExpireOnAccess, GetStats, Clear, TakeFeedback, Deliver

\* A thread about to set its entry carries one, stamped in the past.
LEMMA CarriedEntry ==
    ASSUME IndInv, StampsInPast, NEW t \in Threads, pc[t] \in {"lock", "evict"}
    PROVE  /\ arg[t].key \in Keys /\ arg[t].entry \in Entry
           /\ arg[t].entry.created \in 0..now /\ arg[t].entry.ttl \in TTLs
<1>1. arg[t] \in Call
  BY DEF IndInv, ThreadInv, CallsCarryEntries
<1>2. arg[t].entry.created <= now
  BY <1>1, CallIsNotNoCall DEF StampsInPast
<1> QED
  BY <1>1, <1>2 DEF Call, Entry, IndInv, TypeOK

\* The abstract module counts with its own copy of FiniteSets.
LEMMA SameCardinality == \A S : Promise!Cardinality(S) = Cardinality(S)
BY DEF Promise!Cardinality, Cardinality

\* The abstract view has the same hashes and the same expiries.
LEMMA ViewProperties ==
    ASSUME IndInv
    PROVE  /\ Promise!Stored = Live
           /\ \A k \in Live : /\ HeldView[k] = [created |-> entries[k].created,
                                                ttl |-> entries[k].ttl]
                              /\ HeldView[k].created = entries[k].created
                              /\ HeldView[k].ttl = entries[k].ttl
                              /\ Promise!Lapsed(k) <=> Expired(k)
           /\ \A k \in Keys \ Live : HeldView[k] = Absent
<1>1. \A k \in Live : [created |-> entries[k].created, ttl |-> entries[k].ttl] # Absent
  BY AbsentAssumption DEF Live, IndInv, TypeOK, Entry
<1>2. \A k \in Live : HeldView[k] = [created |-> entries[k].created, ttl |-> entries[k].ttl]
  BY DEF HeldView, Live
<1>6. ASSUME NEW k \in Live
      PROVE  HeldView[k].created = entries[k].created /\ HeldView[k].ttl = entries[k].ttl
  <2> DEFINE a == entries[k].created
             b == entries[k].ttl
  <2>1. HeldView[k] = [created |-> a, ttl |-> b]
    BY <1>2
  <2> HIDE DEF a, b
  <2>2. HeldView[k].created = a /\ HeldView[k].ttl = b
    BY <2>1
  <2> QED
    BY <2>2 DEF a, b
<1>3. \A k \in Keys \ Live : HeldView[k] = Absent
  BY DEF HeldView, Live
<1>4. Promise!Stored = Live
  BY <1>1, <1>2, <1>3 DEF Promise!Stored, Live
<1>5. \A k \in Live : Promise!Lapsed(k) <=> Expired(k)
  <2>1. ASSUME NEW k \in Live
        PROVE  Promise!Lapsed(k) <=> Expired(k)
    <3>1. HeldView[k].created = entries[k].created /\ HeldView[k].ttl = entries[k].ttl
      BY <1>6
    <3> QED
      BY <3>1 DEF Promise!Lapsed, Expired
  <2> QED
    BY <2>1
<1> QED
  BY <1>2, <1>3, <1>4, <1>5, <1>6

\* What a step may do to the view, one entry at a time.
LEMMA ViewSet ==
    ASSUME IndInv, NEW k \in Keys, NEW e \in Entry, entries' = [entries EXCEPT ![k] = e]
    PROVE  HeldView' = [HeldView EXCEPT ![k] = [created |-> e.created, ttl |-> e.ttl]]
BY AbsentAssumption DEF HeldView, IndInv, TypeOK

LEMMA ViewDrop ==
    ASSUME IndInv, NEW D \in SUBSET Keys,
           entries' = [k \in Keys |-> IF k \in D THEN Absent ELSE entries[k]]
    PROVE  HeldView' = [k \in Keys |-> IF k \in D THEN Absent ELSE HeldView[k]]
BY DEF HeldView

\* A pop that takes an entry takes the oldest of a full store, for the sake of
\* a hash that is not stored.
LEMMA PoppedEntry ==
    ASSUME IndInv, NEW t \in Threads, EvictPop(t), entries' # entries
    PROVE  \E k \in Live :
              /\ entries' = [entries EXCEPT ![k] = Absent]
              /\ Cardinality(Live) = MaxEntries
              /\ \A j \in Live : entries[k].created <= entries[j].created
              /\ lock = t /\ arg[t].key \notin Live
<1>1. PICK i \in 1..Len(heap) :
         /\ IsOldest(i)
         /\ SpeaksForEntry(i) /\ entries' = [entries EXCEPT ![heap[i].key] = Absent]
  BY DEF EvictPop
<1> DEFINE k == heap[i].key
<1>2. k \in Live /\ heap[i] = Ref(k)
  BY <1>1 DEF SpeaksForEntry
<1>3. Cardinality(Live) = MaxEntries
  BY LiveFinite, CapacityAssumption DEF EvictPop, AtCapacity, IndInv, HeapInv, CapacityBound
<1>4. ASSUME NEW j \in Live
      PROVE  entries[k].created <= entries[j].created
  <2>1. PICK n \in 1..Len(heap) : heap[n] = Ref(j)
    BY DEF IndInv, HeapInv, HeapCoversLive
  <2>2. heap[i].created <= heap[n].created
    BY <1>1 DEF IsOldest
  <2> QED
    BY <1>2, <2>1, <2>2 DEF Ref
<1>5. lock = t /\ arg[t].key \notin Live
  BY DEF EvictPop, IndInv, ThreadInv, EvictorHoldsLock, HeapInv, EvictorAddsNewHash, Live
<1> QED
  BY <1>1, <1>2, <1>3, <1>4, <1>5

LEMMA InitPromise == Init => Promise!PromiseInit
BY DEF Init, Promise!PromiseInit, HeldView

\* Every step of the store is a step of the promise, or changes nothing in it.
LEMMA StepPromise ==
    ASSUME IndInv, StampsInPast, [Next]_vars
    PROVE  [Promise!PromiseNext]_(Promise!promiseVars)
<1> DEFINE Goal == [Promise!PromiseNext]_(Promise!promiseVars)
<1>1. CASE Tick
  <2>1. Promise!Advance
    <3>1. HeldView' = HeldView
      BY <1>1 DEF Tick, HeldView
    <3> QED
      BY <1>1, <3>1 DEF Tick, Promise!Advance
  <2> QED
    BY <2>1 DEF Promise!PromiseNext
<1>2. ASSUME UNCHANGED <<now, entries>>
      PROVE  Goal
  BY <1>2 DEF HeldView, Promise!promiseVars
<1>3. ASSUME NEW t \in Threads, StoreOverwrite(t)
      PROVE  Goal
  <2>1. /\ arg[t].key \in Keys /\ arg[t].entry \in Entry
        /\ arg[t].entry.created \in 0..now /\ arg[t].entry.ttl \in TTLs
    BY <1>3, CarriedEntry DEF StoreOverwrite
  <2>2. HeldView' = [HeldView EXCEPT ![arg[t].key] =
                       [created |-> arg[t].entry.created, ttl |-> arg[t].entry.ttl]]
    BY <1>3, <2>1, ViewSet DEF StoreOverwrite
  <2>3. HeldView[arg[t].key] # Absent
    <3>1. arg[t].key \in Promise!Stored
      BY <1>3, <2>1, ViewProperties DEF StoreOverwrite, IsNew, Live
    <3> QED
      BY <3>1 DEF Promise!Stored
  <2>4. Promise!Overwrite(arg[t].key)
    BY <1>3, <2>1, <2>2, <2>3 DEF Promise!Overwrite, StoreOverwrite
  <2> QED
    BY <2>1, <2>4 DEF Promise!PromiseNext
<1>4. ASSUME NEW D \in SUBSET Live, \A k \in D : Expired(k), now' = now,
             entries' = [k \in Keys |-> IF k \in D THEN Absent ELSE entries[k]]
      PROVE  Goal
  <2>1. D \in SUBSET Keys
    BY DEF Live
  <2>2. HeldView' = [k \in Keys |-> IF k \in D THEN Absent ELSE HeldView[k]]
    BY <1>4, <2>1, ViewDrop
  <2>3. \A k \in D : HeldView[k] # Absent /\ Promise!Lapsed(k)
    <3>1. Promise!Stored = Live /\ \A k \in Live : Promise!Lapsed(k) <=> Expired(k)
      BY ViewProperties
    <3> QED
      BY <1>4, <3>1 DEF Promise!Stored
  <2>4. Promise!Expire(D)
    BY <1>4, <2>2, <2>3 DEF Promise!Expire
  <2> QED
    BY <2>1, <2>4 DEF Promise!PromiseNext
<1>5. ASSUME NEW t \in Threads, StoreLock(t) \/ GetStats(t)
      PROVE  Goal
  BY <1>4, <1>5 DEF StoreLock, GetStats, Dead
<1>6. ASSUME NEW t \in Threads, NEW k \in Keys, ExpireOnAccess(t, k)
      PROVE  Goal
  <2>1. entries' = [j \in Keys |-> IF j \in {k} THEN Absent ELSE entries[j]]
    BY <1>6 DEF ExpireOnAccess, IndInv, TypeOK
  <2>2. {k} \in SUBSET Live
    BY <1>6 DEF ExpireOnAccess, Live
  <2> QED
    BY <1>4, <1>6, <2>1, <2>2 DEF ExpireOnAccess
<1>7. ASSUME NEW t \in Threads, EvictPop(t)
      PROVE  Goal
  <2>1. CASE entries' = entries
    BY <1>2, <1>7, <2>1 DEF EvictPop
  <2>2. CASE entries' # entries
    <3>1. PICK k \in Live :
             /\ entries' = [entries EXCEPT ![k] = Absent]
             /\ Cardinality(Live) = MaxEntries
             /\ \A j \in Live : entries[k].created <= entries[j].created
      BY <1>7, <2>2, PoppedEntry
    <3>2. k \in Keys /\ HeldView' = [HeldView EXCEPT ![k] = Absent]
      BY <3>1 DEF HeldView, Live, IndInv, TypeOK
    <3>3. Promise!Stored = Live /\ \A j \in Live : HeldView[j].created = entries[j].created
      BY ViewProperties
    <3>4. Promise!EvictOldest(k)
      <4>1. HeldView[k] # Absent
        BY <3>3 DEF Promise!Stored
      <4>2. \A j \in Promise!Stored : HeldView[k].created <= HeldView[j].created
        BY <3>1, <3>3
      <4>3. now' = now /\ Cardinality(Promise!Stored) = MaxEntries
        BY <1>7, <3>1, <3>3 DEF EvictPop
      <4> QED
        BY <3>2, <4>1, <4>2, <4>3, SameCardinality DEF Promise!EvictOldest
    <3> QED
      BY <3>2, <3>4 DEF Promise!PromiseNext
  <2> QED
    BY <2>1, <2>2
<1>8. ASSUME NEW t \in Threads, StoreInsert(t)
      PROVE  Goal
  <2>1. /\ arg[t].key \in Keys /\ arg[t].entry \in Entry
        /\ arg[t].entry.created \in 0..now /\ arg[t].entry.ttl \in TTLs
    BY <1>8, CarriedEntry DEF StoreInsert
  <2>2. HeldView' = [HeldView EXCEPT ![arg[t].key] =
                       [created |-> arg[t].entry.created, ttl |-> arg[t].entry.ttl]]
    BY <1>8, <2>1, ViewSet DEF StoreInsert
  <2>3. HeldView[arg[t].key] = Absent
    BY <1>8, <2>1 DEF HeldView, StoreInsert, IndInv, HeapInv, EvictorAddsNewHash
  <2>4. Cardinality(Promise!Stored) < MaxEntries
    BY <1>8, RoomToInsert, ViewProperties
  <2>5. Promise!Insert(arg[t].key)
    <3>1. \E u \in 0..now, ttl \in TTLs :
             HeldView' = [HeldView EXCEPT ![arg[t].key] = [created |-> u, ttl |-> ttl]]
      BY <2>1, <2>2
    <3>2. now' = now
      BY <1>8 DEF StoreInsert
    <3> QED
      BY <2>3, <2>4, <3>1, <3>2, SameCardinality DEF Promise!Insert
  <2> QED
    BY <2>1, <2>5 DEF Promise!PromiseNext
<1>9. ASSUME NEW t \in Threads, Clear(t)
      PROVE  Goal
  <2>1. Promise!ForgetAll
    BY <1>9 DEF Clear, Promise!ForgetAll, HeldView
  <2> QED
    BY <2>1 DEF Promise!PromiseNext
<1>10. ASSUME NEW t \in Threads, NEW k \in Keys, Retrieve(t, k)
       PROVE  Goal
  <2>1. entries' = [entries EXCEPT ![k] = [entries[k] EXCEPT !.retrieved = TRUE]]
    BY <1>10 DEF Retrieve
  <2>2. entries[k] \in Entry
    BY <1>10 DEF Retrieve, IndInv, TypeOK
  <2>3. [entries[k] EXCEPT !.retrieved = TRUE] \in Entry
    BY <2>2 DEF Entry
  <2>4. HeldView' = [HeldView EXCEPT ![k] = [created |-> entries[k].created,
                                             ttl |-> entries[k].ttl]]
    BY <2>1, <2>2, <2>3, ViewSet DEF Entry
  <2>5. HeldView[k] = [created |-> entries[k].created, ttl |-> entries[k].ttl]
    BY <1>10 DEF Retrieve, HeldView
  <2>6. HeldView' = HeldView
    BY <2>4, <2>5 DEF HeldView
  <2> QED
    BY <1>10, <2>6 DEF Retrieve, Promise!promiseVars
<1>11. ASSUME NEW t \in Threads, NEW k \in Keys, StoreBegin(t, k)
       PROVE  Goal
  BY <1>2, <1>11 DEF StoreBegin
<1>12. ASSUME NEW t \in Threads, FeedbackStep(t)
       PROVE  Goal
  BY <1>2, <1>12 DEF FeedbackStep, TakeFeedback, Deliver
<1> QED
  BY <1>1, <1>2, <1>3, <1>5, <1>6, <1>7, <1>8, <1>9, <1>10, <1>11, <1>12
     DEF Next, StoreStep, Access

-----------------------------------------------------------------------------
(* Theorems *)

\* The store with its heap, its lock and its threads implements the promise:
\* content leaves by expiry, as the oldest entry of a full store, or by clear().
THEOREM Refinement == Spec => ImplementsPromise
<1>1. Init => StampsInPast
  BY DEF Init, StampsInPast
<1>2. IndInv /\ StampsInPast /\ [Next]_vars => StampsInPast'
  BY StampsStep
<1>3. IndInv /\ StampsInPast /\ [Next]_vars => [Promise!PromiseNext]_(Promise!promiseVars)
  BY StepPromise
<1>4. Init => Promise!PromiseInit
  BY InitPromise
<1> QED
  BY <1>1, <1>2, <1>3, <1>4, Invariance, PTL
     DEF Spec, ImplementsPromise, Promise!PromiseSpec

\* What one step does to an entry that is still fresh.
LEMMA FreshLossStep ==
    ASSUME IndInv, [Next]_vars, NEW k \in Live, entries'[k] = Absent, ~Expired(k)
    PROVE  \/ /\ lock = NoThread
              /\ \A j \in Keys : entries'[j] = Absent
           \/ /\ Cardinality(Live) = MaxEntries
              /\ \E t \in Threads : lock = t /\ arg[t].key \notin Live
              /\ \A j \in Live : entries[k].created <= entries[j].created
<1>1. k \in Keys /\ entries[k] # Absent /\ entries[k] \in Entry
  BY DEF Live, IndInv, TypeOK
<1>2. ~ UNCHANGED entries
  BY <1>1
<1>3. ASSUME NEW t \in Threads, StoreOverwrite(t) \/ StoreInsert(t)
      PROVE  FALSE
  <2>1. arg[t] \in Call
    BY <1>3 DEF StoreOverwrite, StoreInsert, IndInv, ThreadInv, CallsCarryEntries
  <2>2. arg[t].entry # Absent
    BY <2>1, AbsentAssumption DEF Call
  <2> QED
    BY <1>1, <1>3, <2>2 DEF StoreOverwrite, StoreInsert, IndInv, TypeOK
<1>4. ASSUME NEW t \in Threads, NEW j \in Keys, Retrieve(t, j)
      PROVE  FALSE
  <2>1. [entries[j] EXCEPT !.retrieved = TRUE] \in Entry
    BY <1>4 DEF Retrieve, IndInv, TypeOK, Entry
  <2>2. entries' = [entries EXCEPT ![j] = [entries[j] EXCEPT !.retrieved = TRUE]]
    BY <1>4 DEF Retrieve
  <2>3. k # j => entries'[k] = entries[k]
    BY <1>1, <2>2 DEF IndInv, TypeOK
  <2>4. entries'[j] = [entries[j] EXCEPT !.retrieved = TRUE]
    BY <2>2 DEF IndInv, TypeOK
  <2>5. entries'[j] # Absent
    BY <2>1, <2>4, AbsentAssumption
  <2> QED
    BY <1>1, <2>3, <2>5
<1>5. ASSUME NEW t \in Threads, StoreLock(t) \/ GetStats(t)
      PROVE  FALSE
  BY <1>1, <1>5 DEF StoreLock, GetStats, Dead
<1>6. ASSUME NEW t \in Threads, NEW j \in Keys, ExpireOnAccess(t, j)
      PROVE  FALSE
  BY <1>1, <1>6 DEF ExpireOnAccess, IndInv, TypeOK
<1>7. ASSUME NEW t \in Threads, EvictPop(t)
      PROVE  /\ Cardinality(Live) = MaxEntries
             /\ \E u \in Threads : lock = u /\ arg[u].key \notin Live
             /\ \A j \in Live : entries[k].created <= entries[j].created
  <2>1. PICK m \in Live :
           /\ entries' = [entries EXCEPT ![m] = Absent]
           /\ Cardinality(Live) = MaxEntries
           /\ \A j \in Live : entries[m].created <= entries[j].created
           /\ lock = t /\ arg[t].key \notin Live
    BY <1>2, <1>7, PoppedEntry
  <2>2. m = k
    BY <1>1, <2>1 DEF IndInv, TypeOK
  <2> QED
    BY <2>1, <2>2
<1>8. ASSUME NEW t \in Threads, Clear(t)
      PROVE  lock = NoThread /\ \A j \in Keys : entries'[j] = Absent
  BY <1>8 DEF Clear
<1>9. ASSUME NEW t \in Threads, FeedbackStep(t)
      PROVE  FALSE
  BY <1>2, <1>9 DEF FeedbackStep, TakeFeedback, Deliver, storeVars
<1>10. ASSUME NEW t \in Threads, NEW j \in Keys, StoreBegin(t, j)
       PROVE  FALSE
  BY <1>2, <1>10 DEF StoreBegin
<1> QED
  BY <1>2, <1>3, <1>4, <1>5, <1>6, <1>7, <1>8, <1>9, <1>10
     DEF Next, StoreStep, Access, Tick

\* Fresh content is given up only for room, and then it is the oldest.
THEOREM FreshLoss == Spec => FreshLossOnlyForRoom
<1>1. IndInv /\ [Next]_vars =>
        [\A k \in Live :
           (entries'[k] = Absent /\ ~Expired(k)) =>
             \/ /\ lock = NoThread
                /\ \A j \in Keys : entries'[j] = Absent
             \/ /\ Cardinality(Live) = MaxEntries
                /\ \E t \in Threads : lock = t /\ arg[t].key \notin Live
                /\ \A j \in Live : entries[k].created <= entries[j].created]_vars
  BY FreshLossStep
<1> QED
  BY <1>1, Invariance, PTL DEF Spec, FreshLossOnlyForRoom
=============================================================================
