------------------------- MODULE RustCcrStoreProofs -------------------------
(***************************************************************************)
(* Proofs about RustCcrStore, for any number of threads and hashes and any *)
(* capacity.  The inductive invariant joins the queue's coverage of the    *)
(* map with the count of pending inserts: the count needs the coverage     *)
(* when the eviction loop runs into an empty queue.                        *)
(***************************************************************************)
EXTENDS RustCcrStore, FiniteSetTheorems, FunctionTheorems, SequenceTheorems, TLAPS

USE DEF vars, Goto

-----------------------------------------------------------------------------
(* Sets that are counted *)

\* All counted sets are finite.
LEMMA Counted ==
    /\ IsFiniteSet(Present) /\ Cardinality(Present) \in Nat
    /\ IsFiniteSet(Inserters) /\ Cardinality(Inserters) \in Nat
    /\ Cardinality(Inserters) <= Cardinality(Threads)
    /\ Cardinality(Threads) \in Nat
<1>1. Present \subseteq Keys /\ Inserters \subseteq Threads
  BY DEF Present, Inserters
<1> QED
  BY <1>1, RustKeysAssumption, RustThreadsAssumption, FS_Subset, FS_CardinalityType

\* Only a new entry or a new pending insert can use up room.
LEMMA RoomKept ==
    ASSUME RoomForInserters, Present' \subseteq Present, Inserters' \subseteq Inserters
    PROVE  RoomForInserters'
<1>1. /\ Cardinality(Present') <= Cardinality(Present)
      /\ Cardinality(Inserters') <= Cardinality(Inserters)
      /\ Cardinality(Present') \in Nat /\ Cardinality(Inserters') \in Nat
  BY Counted, FS_Subset, FS_CardinalityType
<1> QED
  BY <1>1, Counted, RustCapacityAssumption DEF RoomForInserters

\* A thread that sees room may go on to insert.
LEMMA RoomSeen ==
    ASSUME ~Full, Present' = Present, Inserters' \subseteq Threads
    PROVE  RoomForInserters'
<1>1. /\ Cardinality(Inserters') <= Cardinality(Threads)
      /\ Cardinality(Inserters') \in Nat
  BY RustThreadsAssumption, FS_Subset, FS_CardinalityType
<1>2. Cardinality(Present) <= Capacity - 1
  BY Counted, RustCapacityAssumption DEF Full
<1> QED
  BY <1>1, <1>2, Counted, RustCapacityAssumption DEF RoomForInserters

-----------------------------------------------------------------------------
(* Types and places *)

LEMMA InitTypes == Init => TypeOK /\ PlacesOK
<1>1. \A t \in Threads : NoThread # t
  BY RustThreadsAssumption
<1> QED
  BY <1>1, RustKeysAssumption DEF Init, TypeOK, PlacesOK

\* Every step keeps the types and the threads' places.
LEMMA TypesStep ==
    ASSUME TypeOK, PlacesOK, [Next]_vars
    PROVE  TypeOK' /\ PlacesOK'
<1> USE RustKeysAssumption, RustThreadsAssumption DEF TypeOK, PlacesOK
<1>1. CASE Tick
  BY <1>1 DEF Tick
<1>2. ASSUME NEW t \in Threads, NEW k \in Keys, PutRefresh(t, k)
      PROVE  TypeOK' /\ PlacesOK'
  BY <1>2 DEF PutRefresh, Entry
<1>3. ASSUME NEW t \in Threads, NEW k \in Keys, PutMiss(t, k)
      PROVE  TypeOK' /\ PlacesOK'
  BY <1>3 DEF PutMiss
<1>4. ASSUME NEW t \in Threads, NEW k \in Keys, GetRead(t, k)
      PROVE  TypeOK' /\ PlacesOK'
  BY <1>4 DEF GetRead
<1>5. ASSUME NEW t \in Threads, PutCheck(t)
      PROVE  TypeOK' /\ PlacesOK'
  BY <1>5 DEF PutCheck
<1>6. ASSUME NEW t \in Threads, EvictLock(t)
      PROVE  TypeOK' /\ PlacesOK'
  BY <1>6 DEF EvictLock
<1>7. ASSUME NEW t \in Threads, EvictPop(t)
      PROVE  TypeOK' /\ PlacesOK'
  <2>1. Head(order) \in Keys /\ Tail(order) \in Seq(Keys)
    BY <1>7, HeadTailProperties DEF EvictPop
  <2> QED
    BY <1>7, <2>1 DEF EvictPop, WithoutFront
<1>8. ASSUME NEW t \in Threads, EvictRemove(t)
      PROVE  TypeOK' /\ PlacesOK'
  BY <1>8 DEF EvictRemove
<1>9. ASSUME NEW t \in Threads, EvictDone(t)
      PROVE  TypeOK' /\ PlacesOK'
  BY <1>9 DEF EvictDone
<1>10. ASSUME NEW t \in Threads, PutInsert(t)
       PROVE  TypeOK' /\ PlacesOK'
  <2>1. arg[t] \in Keys
    BY <1>10 DEF PutInsert
  <2>2. map' \in [Keys -> Entry \union {Absent}] /\ ranks' \in Nat
    BY <1>10, <2>1 DEF PutInsert, Entry
  <2> QED
    BY <1>10, <2>1, <2>2 DEF PutInsert
<1>11. ASSUME NEW t \in Threads, PutAppend(t)
       PROVE  TypeOK' /\ PlacesOK'
  <2>1. arg[t] \in Keys
    BY <1>11 DEF PutAppend
  <2>2. order' \in Seq(Keys)
    BY <1>11, <2>1, AppendProperties DEF PutAppend
  <2> QED
    BY <1>11, <2>2 DEF PutAppend
<1>12. ASSUME NEW t \in Threads, GetExpire(t)
       PROVE  TypeOK' /\ PlacesOK'
  BY <1>12 DEF GetExpire
<1>13. CASE UNCHANGED vars
  BY <1>13
<1> QED
  BY <1>1, <1>2, <1>3, <1>4, <1>5, <1>6, <1>7, <1>8, <1>9, <1>10, <1>11, <1>12,
     <1>13 DEF Next, Step, Begin

-----------------------------------------------------------------------------
(* The queue covers the map *)

\* A step that adds no entry, keeps the queue and moves no thread away from
\* "append" or "remove" keeps the coverage.
LEMMA CoverKept ==
    ASSUME TypeOK, OrderCoversMap, Present' \subseteq Present, order' = order,
           \A u \in Threads : pc[u] \in {"append", "remove"} =>
              pc'[u] = pc[u] /\ arg'[u] = arg[u] /\ victim'[u] = victim[u]
    PROVE  OrderCoversMap'
BY DEF OrderCoversMap, Queued, Appending, Removing

\* Every step keeps the coverage.
LEMMA CoverStep ==
    ASSUME TypeOK, PlacesOK, OrderCoversMap, [Next]_vars
    PROVE  OrderCoversMap'
<1> USE DEF Present
<1>1. CASE Tick
  BY <1>1, CoverKept DEF Tick
<1>2. ASSUME NEW t \in Threads, NEW k \in Keys, PutRefresh(t, k)
      PROVE  OrderCoversMap'
  <2>1. Present' \subseteq Present
    BY <1>2 DEF PutRefresh, TypeOK
  <2> QED
    BY <1>2, <2>1, CoverKept DEF PutRefresh
<1>3. ASSUME NEW t \in Threads, NEW k \in Keys, PutMiss(t, k) \/ GetRead(t, k)
      PROVE  OrderCoversMap'
  BY <1>3, CoverKept DEF PutMiss, GetRead, TypeOK
<1>4. ASSUME NEW t \in Threads, PutCheck(t) \/ EvictLock(t) \/ EvictDone(t)
      PROVE  OrderCoversMap'
  BY <1>4, CoverKept DEF PutCheck, EvictLock, EvictDone, TypeOK
<1>5. ASSUME NEW t \in Threads, GetExpire(t)
      PROVE  OrderCoversMap'
  <2>1. Present' \subseteq Present
    BY <1>5 DEF GetExpire, TypeOK
  <2> QED
    BY <1>5, <2>1, CoverKept DEF GetExpire, TypeOK
<1>6. ASSUME NEW t \in Threads, EvictPop(t)
      PROVE  OrderCoversMap'
  <2>1. SUFFICES ASSUME NEW k \in Present
                 PROVE  Queued(k)' \/ Appending(k)' \/ Removing(k)'
    BY <1>6 DEF EvictPop, OrderCoversMap
  <2>2. CASE Queued(k)
    <3>1. PICK i \in 1..Len(order) : order[i] = k
      BY <2>2 DEF Queued
    <3>2. CASE i = 1
      <4>1. victim'[t] = k /\ pc'[t] = "remove"
        BY <1>6, <3>1, <3>2 DEF EvictPop, TypeOK
      <4> QED
        BY <4>1 DEF Removing
    <3>3. CASE i # 1
      <4>1. /\ order' = Tail(order) /\ Len(Tail(order)) = Len(order) - 1
            /\ i - 1 \in 1..(Len(order) - 1)
            /\ Tail(order)[i - 1] = order[(i - 1) + 1]
        BY <1>6, <3>1, <3>3, HeadTailProperties, LenProperties
           DEF EvictPop, WithoutFront, TypeOK
      <4>2. (i - 1) + 1 = i
        BY LenProperties DEF TypeOK
      <4> QED
        BY <3>1, <4>1, <4>2 DEF Queued
    <3> QED
      BY <3>2, <3>3
  <2>3. CASE Appending(k)
    <3>1. PICK u \in Threads : pc[u] = "append" /\ arg[u] = k
      BY <2>3 DEF Appending
    <3>2. pc'[u] = "append" /\ arg'[u] = k
      BY <1>6, <3>1 DEF EvictPop, TypeOK
    <3> QED
      BY <3>2 DEF Appending
  <2>4. CASE Removing(k)
    \* The mutex admits one evictor.
    BY <1>6, <2>4 DEF Removing, PlacesOK, EvictPop
  <2> QED
    BY <2>2, <2>3, <2>4 DEF OrderCoversMap
<1>7. ASSUME NEW t \in Threads, EvictRemove(t)
      PROVE  OrderCoversMap'
  <2>1. SUFFICES ASSUME NEW k \in Present'
                 PROVE  Queued(k)' \/ Appending(k)' \/ Removing(k)'
    BY DEF OrderCoversMap
  <2>2. k \in Present /\ k # victim[t]
    BY <1>7, <2>1 DEF EvictRemove, TypeOK
  <2>3. CASE Queued(k)
    BY <1>7, <2>3 DEF EvictRemove, Queued
  <2>4. CASE Appending(k)
    BY <1>7, <2>4 DEF EvictRemove, Appending, TypeOK
  <2>5. CASE Removing(k)
    BY <1>7, <2>2, <2>5 DEF EvictRemove, Removing, PlacesOK
  <2> QED
    BY <2>2, <2>3, <2>4, <2>5 DEF OrderCoversMap
<1>8. ASSUME NEW t \in Threads, PutInsert(t)
      PROVE  OrderCoversMap'
  <2>1. SUFFICES ASSUME NEW k \in Present'
                 PROVE  Queued(k)' \/ Appending(k)' \/ Removing(k)'
    BY DEF OrderCoversMap
  <2>2. CASE k \notin Present
    <3>1. k = arg[t] /\ map[k] = Absent
      BY <1>8, <2>1, <2>2 DEF PutInsert, TypeOK
    <3>2. pc'[t] = "append" /\ arg'[t] = k
      BY <1>8, <3>1 DEF PutInsert, IsTrulyNew, TypeOK
    <3> QED
      BY <3>2 DEF Appending
  <2>3. CASE k \in Present
    <3>1. \A u \in Threads : pc[u] \in {"append", "remove"} =>
             pc'[u] = pc[u] /\ arg'[u] = arg[u] /\ victim'[u] = victim[u]
      BY <1>8 DEF PutInsert, TypeOK
    <3>2. order' = order
      BY <1>8 DEF PutInsert
    <3> QED
      BY <2>3, <3>1, <3>2 DEF OrderCoversMap, Queued, Appending, Removing
  <2> QED
    BY <2>2, <2>3
<1>9. ASSUME NEW t \in Threads, PutAppend(t)
      PROVE  OrderCoversMap'
  <2>1. SUFFICES ASSUME NEW k \in Present
                 PROVE  Queued(k)' \/ Appending(k)' \/ Removing(k)'
    BY <1>9 DEF PutAppend, OrderCoversMap
  <2>2. /\ Len(order') = Len(order) + 1 /\ Len(order) \in Nat
        /\ \A i \in 1..Len(order) : order'[i] = order[i]
        /\ order'[Len(order) + 1] = arg[t]
    <3>1. arg[t] \in Keys
      BY <1>9 DEF PutAppend, PlacesOK
    <3> QED
      BY <1>9, <3>1, AppendProperties, LenProperties DEF PutAppend, TypeOK
  <2>3. CASE Queued(k)
    BY <2>2, <2>3 DEF Queued
  <2>4. CASE arg[t] = k
    <3>1. Len(order) + 1 \in 1..Len(order')
      BY <2>2
    <3> QED
      BY <2>2, <2>4, <3>1 DEF Queued
  <2>5. CASE Appending(k) /\ arg[t] # k
    BY <1>9, <2>5 DEF PutAppend, Appending, TypeOK
  <2>6. CASE Removing(k)
    BY <1>9, <2>6 DEF PutAppend, Removing, TypeOK
  <2> QED
    BY <2>3, <2>4, <2>5, <2>6 DEF OrderCoversMap
<1>10. CASE UNCHANGED vars
  BY <1>10, CoverKept
<1> QED
  BY <1>1, <1>2, <1>3, <1>4, <1>5, <1>6, <1>7, <1>8, <1>9, <1>10 DEF Next, Step, Begin

-----------------------------------------------------------------------------
(* Room for the inserters *)

\* When the loop finds the queue empty, all that is in the map is yet to be
\* queued by a thread of its own, so there are at least as many of those.
LEMMA EmptyQueue ==
    ASSUME TypeOK, PlacesOK, OrderCoversMap, NEW t \in Threads, EvictDone(t),
           order = <<>>
    PROVE  RoomForInserters'
<1> DEFINE Appenders == {u \in Threads : pc[u] = "append"}
           A == {arg[u] : u \in Appenders}
<1>1. /\ IsFiniteSet(Appenders) /\ Cardinality(Appenders) \in Nat
      /\ IsFiniteSet(A) /\ Cardinality(A) <= Cardinality(Appenders)
      /\ Cardinality(A) \in Nat
  <2>1. IsFiniteSet(Appenders) /\ Cardinality(Appenders) \in Nat
    BY RustThreadsAssumption, FS_Subset, FS_CardinalityType
  <2>2. DEFINE f == [u \in Appenders |-> arg[u]]
  <2>3. f \in Surjection(Appenders, A)
    BY Fun_IsSurj
  <2>4. IsFiniteSet(A) /\ Cardinality(A) <= Cardinality(Appenders)
    BY <2>1, <2>3, FS_Surjection
  <2> QED
    BY <2>1, <2>4, FS_CardinalityType
<1>2. Present \subseteq A
  <2>1. ASSUME NEW k \in Present
        PROVE  k \in A
    <3>1. ~Queued(k)
      BY <1>1, EmptySeq DEF EvictDone, Queued
    <3>2. ~Removing(k)
      BY DEF Removing, PlacesOK, EvictDone
    <3> QED
      BY <3>1, <3>2 DEF OrderCoversMap, Appending
  <2> QED
    BY <2>1
<1>3. Cardinality(Present) <= Cardinality(Appenders)
  BY <1>1, <1>2, Counted, FS_Subset
<1>4. Present' = Present /\ Inserters' \subseteq Threads /\ Appenders \cap Inserters' = {}
  BY DEF EvictDone, Present, Inserters, TypeOK
<1>5. Cardinality(Appenders) + Cardinality(Inserters') <= Cardinality(Threads)
  <2>1. IsFiniteSet(Inserters') /\ Cardinality(Inserters') \in Nat
    BY <1>4, RustThreadsAssumption, FS_Subset, FS_CardinalityType
  <2>2. Cardinality(Appenders \cup Inserters')
           = Cardinality(Appenders) + Cardinality(Inserters')
    <3>1. ASSUME NEW S, NEW T, IsFiniteSet(S), IsFiniteSet(T), S \cap T = {},
                 Cardinality(S) \in Nat, Cardinality(T) \in Nat
          PROVE  Cardinality(S \cup T) = Cardinality(S) + Cardinality(T)
      <4>1. Cardinality(S \cap T) = 0
        BY <3>1, FS_EmptySet
      <4>2. Cardinality(S \cup T)
               = Cardinality(S) + Cardinality(T) - Cardinality(S \cap T)
        BY <3>1, FS_Union
      <4> QED
        BY <3>1, <4>1, <4>2
    <3> HIDE DEF Appenders
    <3> QED
      BY <1>1, <1>4, <2>1, <3>1
  <2>3. Appenders \cup Inserters' \subseteq Threads
    BY <1>4
  <2>4. Cardinality(Appenders \cup Inserters') <= Cardinality(Threads)
    BY <2>3, RustThreadsAssumption, FS_Subset
  <2> QED
    BY <2>2, <2>4
<1>6. Cardinality(Inserters') \in Nat
  BY <1>4, RustThreadsAssumption, FS_Subset, FS_CardinalityType
<1> QED
  BY <1>1, <1>3, <1>4, <1>5, <1>6, Counted, RustCapacityAssumption DEF RoomForInserters

\* Every step keeps room for the pending inserts.
LEMMA RoomStep ==
    ASSUME TypeOK, PlacesOK, OrderCoversMap, RoomForInserters, [Next]_vars
    PROVE  RoomForInserters'
<1> USE DEF Present, Inserters
<1>1. CASE Tick
  BY <1>1, RoomKept DEF Tick
<1>2. ASSUME NEW t \in Threads, NEW k \in Keys,
             PutRefresh(t, k) \/ PutMiss(t, k) \/ GetRead(t, k)
      PROVE  RoomForInserters'
  <2>1. Present' \subseteq Present /\ Inserters' \subseteq Inserters
    BY <1>2 DEF PutRefresh, PutMiss, GetRead, TypeOK
  <2> QED
    BY <2>1, RoomKept
<1>3. ASSUME NEW t \in Threads,
             \/ EvictLock(t) \/ EvictPop(t) \/ EvictRemove(t)
             \/ PutAppend(t) \/ GetExpire(t)
      PROVE  RoomForInserters'
  <2>1. Present' \subseteq Present /\ Inserters' \subseteq Inserters
    BY <1>3 DEF EvictLock, EvictPop, EvictRemove, PutAppend, GetExpire, TypeOK
  <2> QED
    BY <2>1, RoomKept
<1>4. ASSUME NEW t \in Threads, PutCheck(t)
      PROVE  RoomForInserters'
  <2>1. CASE Full
    <3>1. Present' \subseteq Present /\ Inserters' \subseteq Inserters
      BY <1>4, <2>1 DEF PutCheck, TypeOK
    <3> QED
      BY <3>1, RoomKept
  <2>2. CASE ~Full
    BY <1>4, <2>2, RoomSeen DEF PutCheck
  <2> QED
    BY <2>1, <2>2
<1>5. ASSUME NEW t \in Threads, EvictDone(t)
      PROVE  RoomForInserters'
  <2>1. CASE order = <<>>
    BY <1>5, <2>1, EmptyQueue
  <2>2. CASE ~Full
    BY <1>5, <2>2, RoomSeen DEF EvictDone
  <2> QED
    BY <1>5, <2>1, <2>2 DEF EvictDone
<1>6. ASSUME NEW t \in Threads, PutInsert(t)
      PROVE  RoomForInserters'
  <2>1. /\ Present' = Present \cup {arg[t]}
        /\ t \in Inserters /\ Inserters' = Inserters \ {t}
    <3>1. arg[t] \in Keys /\ map'[arg[t]] # Absent
      <4>1. arg[t] \in Keys
        BY <1>6 DEF PutInsert, PlacesOK
      <4>2. map'[arg[t]] \in Entry
        BY <1>6, <4>1 DEF PutInsert, TypeOK, Entry
      <4> QED
        BY <4>1, <4>2, RustAbsentAssumption
    <3>2. Present' = Present \cup {arg[t]}
      BY <1>6, <3>1 DEF PutInsert, TypeOK
    <3> QED
      BY <1>6, <3>2 DEF PutInsert, TypeOK
  <2>2. /\ Cardinality(Present') <= Cardinality(Present) + 1
        /\ Cardinality(Present') \in Nat
    <3> HIDE DEF Present
    <3>1. /\ IsFiniteSet(Present \cup {arg[t]})
          /\ Cardinality(Present \cup {arg[t]})
                = IF arg[t] \in Present THEN Cardinality(Present)
                  ELSE Cardinality(Present) + 1
      BY Counted, FS_AddElement
    <3> QED
      BY <2>1, <3>1, Counted
  <2>3. Cardinality(Inserters') = Cardinality(Inserters) - 1
    BY <2>1, Counted, FS_RemoveElement
  <2> HIDE DEF Present, Inserters
  <2> QED
    BY <2>2, <2>3, Counted, RustCapacityAssumption DEF RoomForInserters
<1>7. CASE UNCHANGED vars
  BY <1>7, RoomKept
<1> QED
  BY <1>1, <1>2, <1>3, <1>4, <1>5, <1>6, <1>7 DEF Next, Step, Begin

-----------------------------------------------------------------------------
(* Theorems *)

\* At the start the map is empty and no thread is in a call.
LEMMA InitIndInv == Init => IndInv
<1> SUFFICES ASSUME Init PROVE IndInv
  OBVIOUS
<1>1. TypeOK /\ PlacesOK
  BY InitTypes
<1>2. Present = {} /\ Inserters = {}
  BY DEF Init, Present, Inserters
<1>3. OrderCoversMap
  BY <1>2 DEF OrderCoversMap
<1>4. RoomForInserters
  <2>1. Cardinality(Present) = 0 /\ Cardinality(Inserters) = 0
    BY <1>2, FS_EmptySet
  <2> QED
    BY <2>1, Counted, RustCapacityAssumption DEF RoomForInserters
<1> QED
  BY <1>1, <1>3, <1>4 DEF IndInv

\* The inductive invariant: whatever the interleaving of put() and get().
THEOREM RustInvariance == Spec => []IndInv
<1>1. IndInv /\ [Next]_vars => IndInv'
  BY TypesStep, CoverStep, RoomStep DEF IndInv
<1> QED
  BY InitIndInv, <1>1, PTL DEF Spec

\* No entry of the map is beyond the reach of the eviction loop for good.
THEOREM Coverage == Spec => []OrderCoversMap
BY RustInvariance, PTL DEF IndInv

\* Concurrent puts overshoot the capacity by at most one entry per other thread.
THEOREM Overshoot == Spec => []OvershootBound
<1>1. IndInv => OvershootBound
  BY Counted, RustCapacityAssumption DEF IndInv, RoomForInserters, OvershootBound
<1> QED
  BY RustInvariance, <1>1, PTL

\* A get() on an expired entry never wipes one put() meanwhile.
THEOREM GetWipesNothingFresh == Spec => FreshLossOnlyByEviction
<1> DEFINE Loss == \A k \in Present :
                      (map'[k] = Absent /\ ~Expired(map[k])) => Removing(k)
<1>1. ASSUME IndInv, [Next]_vars
      PROVE  [Loss]_vars
  <2> USE <1>1, RustAbsentAssumption DEF IndInv, TypeOK, Present
  <2>1. ASSUME NEW t \in Threads, EvictRemove(t)
        PROVE  Loss
    BY <2>1 DEF EvictRemove, Removing
  <2>2. ASSUME NEW t \in Threads, GetExpire(t)
        PROVE  Loss
    BY <2>2 DEF GetExpire, RemoveIfExpired
  <2>3. ASSUME NEW t \in Threads, PutInsert(t)
        PROVE  Loss
    <3>1. map'[arg[t]] # Absent
      <4>1. arg[t] \in Keys
        BY <2>3 DEF PutInsert, PlacesOK
      <4>2. map'[arg[t]] \in Entry
        BY <2>3, <4>1 DEF PutInsert, Entry
      <4> QED
        BY <4>2
    <3> QED
      BY <2>3, <3>1 DEF PutInsert
  <2>4. ASSUME NEW t \in Threads, NEW k \in Keys, PutRefresh(t, k)
        PROVE  Loss
    <3>1. map'[k] \in Entry
      BY <2>4 DEF PutRefresh, Entry
    <3> QED
      BY <2>4, <3>1 DEF PutRefresh
  <2>5. CASE map' = map
    BY <2>5
  <2>6. ASSUME NEW t \in Threads,
               \/ PutCheck(t) \/ EvictLock(t) \/ EvictPop(t) \/ EvictDone(t)
               \/ PutAppend(t)
        PROVE  Loss
    BY <2>5, <2>6 DEF PutCheck, EvictLock, EvictPop, EvictDone, PutAppend
  <2>7. ASSUME NEW t \in Threads, NEW k \in Keys, PutMiss(t, k) \/ GetRead(t, k)
        PROVE  Loss
    BY <2>5, <2>7 DEF PutMiss, GetRead
  <2>8. CASE Tick
    BY <2>5, <2>8 DEF Tick
  <2> QED
    BY <2>1, <2>2, <2>3, <2>4, <2>6, <2>7, <2>8 DEF Next, Step, Begin
<1> QED
  BY RustInvariance, <1>1, PTL DEF Spec, FreshLossOnlyByEviction
=============================================================================
