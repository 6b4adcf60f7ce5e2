------------------------ MODULE SharedCcrStoreProofs ------------------------
(***************************************************************************)
(* Proofs about SharedCcrStore.  Types hold for any number of workers, and *)
(* each access of a call brings its end nearer, whatever the others do.    *)
(* The capacity, what a step may do to fresh content and the promise of    *)
(* RedeemableStore are proved for one worker, any number of hashes, any    *)
(* capacity and any number of restarts and failed accesses; with a second  *)
(* worker they are false, as SharedCcrStore says.                          *)
(***************************************************************************)
EXTENDS SharedCcrStore, FiniteSetTheorems, TLAPS

-----------------------------------------------------------------------------
(* Bags *)

LEMMA SetToBagProperties ==
    ASSUME NEW S
    PROVE  IsABag(SetToBag(S)) /\ BagToSet(SetToBag(S)) = S
BY DEF SetToBag, IsABag, BagToSet

\* Pushing a pair.
LEMMA PushProperties ==
    ASSUME NEW B, IsABag(B), NEW x
    PROVE  /\ IsABag(B (+) SetToBag({x}))
           /\ BagToSet(B (+) SetToBag({x})) = BagToSet(B) \union {x}
BY DEF IsABag, BagToSet, SetToBag, (+)

\* Popping a pair loses no other.
LEMMA PopProperties ==
    ASSUME NEW B, IsABag(B), NEW x
    PROVE  /\ IsABag(B (-) SetToBag({x}))
           /\ BagToSet(B (-) SetToBag({x})) \subseteq BagToSet(B)
           /\ BagToSet(B) \ {x} \subseteq BagToSet(B (-) SetToBag({x}))
BY DEF IsABag, BagToSet, SetToBag, (-)

LEMMA EmptyBagProperties == IsABag(EmptyBag) /\ BagToSet(EmptyBag) = {}
BY SetToBagProperties DEF EmptyBag

-----------------------------------------------------------------------------
(* Types, for any number of workers *)

USE DEF vars

Labels == {"idle", "sweep", "delete", "room", "count", "victim", "evict", "set",
           "purge", "expire"}

Call == [op : {"none", "store", "retrieve", "stats"}, key : Keys \union {Absent},
         entry : Entry \union {Absent}, todo : SUBSET Keys,
         pair : Pair \union {Absent}]

\* The locals a call has at each of its accesses.
CallFits(c, label) ==
    /\ label = "delete" <=> c.todo # {}
    /\ c.op \in {"store", "retrieve"} => c.key \in Keys /\ c.entry \in Entry
    /\ label \in {"room", "count", "victim", "evict"} => c.op = "store"
    /\ label = "set" => c.op \in {"store", "retrieve"}
    /\ label = "expire" => c.op = "retrieve"
    /\ label \in {"victim", "evict"} => c.pair \in Pair

HeapFits == /\ DOMAIN heap = Workers
            /\ \A w \in Workers : IsABag(heap[w]) /\ BagToSet(heap[w]) \subseteq Pair

CallsFit == /\ pc \in [Workers -> Labels]
            /\ call \in [Workers -> Call]
            /\ \A w \in Workers : CallFits(call[w], pc[w])

TypeInv ==
    /\ now \in Nat
    /\ db \in [Keys -> Entry \union {Absent}]
    /\ HeapFits
    /\ stale \in [Workers -> Nat]
    /\ CallsFit
    /\ restarts \in Nat /\ faults \in Nat

\* An access never lowers the count of failures.
LEMMA AccessCounts ==
    ASSUME TypeInv, NEW ok \in BOOLEAN, Access(ok)
    PROVE  /\ faults' \in Nat
           /\ ok => faults' = faults
           /\ ~ok => faults' = faults + 1
BY DEF Access, TypeInv

\* What the records of the calls become.
LEMMA CallWithTodo ==
    ASSUME NEW c \in Call, NEW T \in SUBSET Keys
    PROVE  LET d == [c EXCEPT !.todo = T] IN
           /\ d \in Call
           /\ d.todo = T /\ d.pair = c.pair
           /\ d.op = c.op /\ d.key = c.key /\ d.entry = c.entry
BY DEF Call

LEMMA CallWithPair ==
    ASSUME NEW c \in Call, NEW p \in Pair
    PROVE  LET d == [c EXCEPT !.pair = p] IN
           /\ d \in Call
           /\ d.todo = c.todo /\ d.pair = p
           /\ d.op = c.op /\ d.key = c.key /\ d.entry = c.entry
BY DEF Call

LEMMA NewCall ==
    ASSUME NEW o \in {"none", "store", "retrieve", "stats"},
           NEW k \in Keys \union {Absent}, NEW e \in Entry \union {Absent}
    PROVE  /\ CallOf(o, k, e) \in Call
           /\ CallOf(o, k, e).op = o /\ CallOf(o, k, e).key = k
           /\ CallOf(o, k, e).entry = e /\ CallOf(o, k, e).todo = {}
BY DEF CallOf, Call

\* No call is the call of an idle worker.
LEMMA NoCallFits ==
    /\ NoCall \in Call
    /\ \A label \in {"idle", "purge"} : CallFits(NoCall, label)
<1>1. /\ NoCall \in Call
      /\ NoCall.op = "none" /\ NoCall.todo = {}
  BY NewCall DEF NoCall
<1> QED
  BY <1>1 DEF CallFits

\* A step that moves one worker to a label that fits its new locals.
LEMMA CallMoves ==
    ASSUME CallsFit, NEW w \in Workers, NEW label \in Labels, NEW c \in Call,
           CallFits(c, label), Goto(w, label), call' = [call EXCEPT ![w] = c]
    PROVE  CallsFit'
BY DEF CallsFit, Goto

LEMMA CallGoesOn ==
    ASSUME CallsFit, NEW w \in Workers, NEW label \in Labels,
           CallFits(call[w], label), Goto(w, label), UNCHANGED call
    PROVE  CallsFit'
<1>1. call' = [call EXCEPT ![w] = call[w]] /\ call[w] \in Call
  BY DEF CallsFit
<1> QED
  BY <1>1, CallMoves

LEMMA CallEnds ==
    ASSUME CallsFit, NEW w \in Workers, Finish(w)
    PROVE  CallsFit'
<1>1. "idle" \in Labels
  BY DEF Labels
<1> QED
  BY <1>1, NoCallFits, CallMoves DEF Finish

\* A step that gives one worker another heap.
LEMMA HeapMoves ==
    ASSUME HeapFits, NEW w \in Workers, NEW B, IsABag(B), BagToSet(B) \subseteq Pair,
           heap' = [heap EXCEPT ![w] = B]
    PROVE  HeapFits'
BY DEF HeapFits

LEMMA StaleCounts ==
    ASSUME TypeInv, NEW w \in Workers, CountStale(w)
    PROVE  stale' \in [Workers -> Nat]
BY DEF TypeInv, CountStale

\* A table with some rows deleted.
LEMMA WithoutIsTable ==
    ASSUME TypeInv, NEW K
    PROVE  Without(db, K) \in [Keys -> Entry \union {Absent}]
BY DEF TypeInv, Without

\* The row of a live hash is an entry, and gives a pair.
LEMMA LiveEntry ==
    ASSUME TypeInv, NEW k \in Live
    PROVE  k \in Keys /\ db[k] \in Entry /\ PairOf(k, db[k]) \in Pair
<1>1. k \in Keys /\ db[k] \in Entry
  BY DEF TypeInv, Live
<1>2. ASSUME NEW e \in Entry PROVE PairOf(k, e) \in Pair
  BY <1>1, <1>2 DEF PairOf, Pair, Entry
<1> QED
  BY <1>1, <1>2

LEMMA StoreLookupTypes ==
    ASSUME TypeInv, NEW w \in Workers, NEW k \in Keys, StoreLookup(w, k)
    PROVE  TypeInv'
<1>1. PICK ttl \in TTLs, ok \in BOOLEAN :
         /\ Access(ok)
         /\ call' = [call EXCEPT ![w] =
               CallOf("store", k, [created |-> now, ttl |-> ttl])]
         /\ IF StoreKnown(w, k, ok)
            THEN CountStale(w) /\ Goto(w, "set")
            ELSE UNCHANGED stale /\ Goto(w, "sweep")
  BY DEF StoreLookup
<1>2. PICK e \in Entry : e = [created |-> now, ttl |-> ttl]
  BY DEF Entry, TypeInv
<1> DEFINE c == CallOf("store", k, e)
<1>3. c \in Call /\ c.op = "store" /\ c.key = k /\ c.entry = e /\ c.todo = {}
  BY NewCall
<1>4. call' = [call EXCEPT ![w] = c]
  BY <1>1, <1>2
<1> HIDE DEF c
<1>5. CallFits(c, "set") /\ CallFits(c, "sweep")
  BY <1>3 DEF CallFits
<1>6. CallsFit'
  <2>1. "set" \in Labels /\ "sweep" \in Labels
    BY DEF Labels
  <2> QED
    BY <1>1, <1>3, <1>4, <1>5, <2>1, CallMoves DEF TypeInv
<1>7. stale' \in [Workers -> Nat]
  BY <1>1, StaleCounts DEF TypeInv
<1> QED
  BY <1>1, <1>6, <1>7, AccessCounts DEF StoreLookup, TypeInv, HeapFits

LEMMA SweepReadTypes ==
    ASSUME TypeInv, NEW w \in Workers, SweepRead(w)
    PROVE  TypeInv'
<1>1. PICK ok \in BOOLEAN, found \in SUBSET Keys :
         /\ Access(ok)
         /\ IF found # {}
            THEN /\ call' = [call EXCEPT ![w].todo = found]
                 /\ Goto(w, "delete")
            ELSE IF call[w].op = "store"
            THEN Goto(w, "room") /\ UNCHANGED call
            ELSE Finish(w)
  BY DEF SweepRead, Dead, Live
<1>2. call[w] \in Call /\ CallFits(call[w], pc[w])
  BY DEF TypeInv, CallsFit
<1>3. CASE found # {}
  <2>1. PICK c \in Call : /\ c = [call[w] EXCEPT !.todo = found] /\ c.todo = found
                          /\ c.op = call[w].op /\ c.key = call[w].key
                          /\ c.entry = call[w].entry
    <3>1. call[w] \in Call
      BY <1>2
    <3> DEFINE d == [call[w] EXCEPT !.todo = found]
    <3>2. d \in Call /\ d.todo = found /\ d.op = call[w].op /\ d.key = call[w].key
          /\ d.entry = call[w].entry
      BY <3>1, CallWithTodo
    <3> QED
      BY <3>2
  <2>2. call' = [call EXCEPT ![w] = c]
    BY <1>1, <1>3, <2>1
  <2>3. CallFits(c, "delete") /\ "delete" \in Labels
    BY <1>2, <1>3, <2>1 DEF CallFits, Labels
  <2> QED
    BY <1>1, <1>3, <2>2, <2>3, CallMoves, AccessCounts DEF SweepRead, TypeInv, HeapFits
<1>4. CASE found = {} /\ call[w].op = "store"
  <2>1. CallFits(call[w], "room") /\ "room" \in Labels
    BY <1>2, <1>4 DEF SweepRead, CallFits, Labels
  <2> QED
    BY <1>1, <1>4, <2>1, CallGoesOn, AccessCounts DEF SweepRead, TypeInv, HeapFits
<1>5. CASE found = {} /\ call[w].op # "store"
  BY <1>1, <1>5, CallEnds, AccessCounts DEF SweepRead, TypeInv, HeapFits
<1> QED
  BY <1>3, <1>4, <1>5

LEMMA SweepDeleteTypes ==
    ASSUME TypeInv, NEW w \in Workers, SweepDelete(w)
    PROVE  TypeInv'
<1>1. PICK k \in call[w].todo, ok \in BOOLEAN :
         /\ Access(ok)
         /\ db' = IF ok THEN Without(db, {k}) ELSE db
         /\ IF call[w].todo # {k}
            THEN call' = [call EXCEPT ![w].todo = @ \ {k}] /\ UNCHANGED pc
            ELSE IF call[w].op = "store"
            THEN call' = [call EXCEPT ![w].todo = {}] /\ Goto(w, "room")
            ELSE Finish(w)
  BY DEF SweepDelete
<1>2. call[w] \in Call /\ CallFits(call[w], pc[w]) /\ pc[w] = "delete"
  BY DEF TypeInv, CallsFit, SweepDelete
<1>3. ASSUME NEW T \in SUBSET Keys, NEW label \in Labels,
             T # {} <=> label = "delete",
             label \in {"delete", "room"}, label = "room" => call[w].op = "store",
             call' = [call EXCEPT ![w].todo = T], Goto(w, label)
      PROVE  CallsFit'
  <2>1. PICK c \in Call : /\ c = [call[w] EXCEPT !.todo = T] /\ c.todo = T
                          /\ c.op = call[w].op /\ c.key = call[w].key
                          /\ c.entry = call[w].entry
    <3>1. call[w] \in Call
      BY <1>2
    <3> DEFINE d == [call[w] EXCEPT !.todo = T]
    <3>2. d \in Call /\ d.todo = T /\ d.op = call[w].op /\ d.key = call[w].key
          /\ d.entry = call[w].entry
      BY <3>1, CallWithTodo
    <3> QED
      BY <3>2
  <2>2. call' = [call EXCEPT ![w] = c]
    BY <1>3, <2>1
  <2>3. CallFits(c, label)
    BY <1>2, <1>3, <2>1 DEF CallFits
  <2> QED
    BY <2>2, <2>3, <1>3, CallMoves DEF TypeInv
<1>4. CallsFit'
  <2>1. CASE call[w].todo # {k}
    <3>1. call[w].todo \ {k} \in SUBSET Keys /\ call[w].todo \ {k} # {}
      BY <1>2, <2>1 DEF Call
    <3>2. Goto(w, "delete") /\ "delete" \in Labels
      BY <1>1, <1>2, <2>1 DEF Goto, TypeInv, CallsFit, Labels
    <3> QED
      BY <1>1, <1>3, <2>1, <3>1, <3>2
  <2>2. CASE call[w].todo = {k} /\ call[w].op = "store"
    <3>1. "room" \in Labels
      BY DEF Labels
    <3> QED
      BY <1>1, <1>3, <2>2, <3>1
  <2>3. CASE call[w].todo = {k} /\ call[w].op # "store"
    BY <1>1, <2>3, CallEnds DEF TypeInv
  <2> QED
    BY <2>1, <2>2, <2>3
<1>5. db' \in [Keys -> Entry \union {Absent}]
  BY <1>1, WithoutIsTable DEF TypeInv
<1> QED
  BY <1>1, <1>4, <1>5, StaleCounts, AccessCounts DEF SweepDelete, TypeInv, HeapFits

\* The pairs of a rebuilt heap.
LEMMA RebuiltPairs ==
    ASSUME TypeInv, NEW ok \in BOOLEAN
    PROVE  LET B == SetToBag(IF ok THEN {PairOf(k, db[k]) : k \in Live} ELSE {})
           IN  /\ IsABag(B) /\ BagToSet(B) \subseteq Pair
               /\ BagToSet(B) = IF ok THEN {PairOf(k, db[k]) : k \in Live} ELSE {}
BY LiveEntry, SetToBagProperties

LEMMA RebuildTypes ==
    ASSUME TypeInv, NEW w \in Workers, Rebuild(w)
    PROVE  TypeInv'
<1>1. PICK ok \in BOOLEAN :
         /\ Access(ok)
         /\ heap' = [heap EXCEPT ![w] =
               SetToBag(IF ok THEN {PairOf(k, db[k]) : k \in Live} ELSE {})]
  BY DEF Rebuild
<1>2. HeapFits'
  BY <1>1, RebuiltPairs, HeapMoves DEF TypeInv
<1>3. CallsFit'
  <2>1. CallFits(call[w], "count") /\ "count" \in Labels
    BY DEF TypeInv, CallsFit, CallFits, Rebuild, Labels
  <2> QED
    BY <2>1, CallGoesOn DEF Rebuild, TypeInv
<1> QED
  BY <1>1, <1>2, <1>3, AccessCounts DEF Rebuild, TypeInv

LEMMA CheckRoomTypes ==
    ASSUME TypeInv, NEW w \in Workers, CheckRoom(w)
    PROVE  TypeInv'
<1>1. call[w] \in Call /\ CallFits(call[w], pc[w]) /\ pc[w] \in {"room", "count"}
  BY DEF TypeInv, CallsFit, CheckRoom
<1>2. PICK ok \in BOOLEAN :
         /\ Access(ok)
         /\ IF ok /\ Full /\ InHeap(w) # {}
            THEN \E p \in InHeap(w) :
                   /\ heap' = [heap EXCEPT ![w] = OutOfHeap(w, p)]
                   /\ call' = [call EXCEPT ![w].pair = p]
                   /\ Goto(w, "victim")
            ELSE Goto(w, "set") /\ UNCHANGED <<heap, call>>
  BY DEF CheckRoom
<1>3. ASSUME NEW p \in InHeap(w), heap' = [heap EXCEPT ![w] = OutOfHeap(w, p)],
             call' = [call EXCEPT ![w].pair = p], Goto(w, "victim")
      PROVE  HeapFits' /\ CallsFit'
  <2>1. IsABag(heap[w]) /\ BagToSet(heap[w]) \subseteq Pair /\ p \in Pair
    BY DEF TypeInv, HeapFits, InHeap
  <2>2. HeapFits'
    BY <1>3, <2>1, PopProperties, HeapMoves DEF OutOfHeap, TypeInv
  <2>3. PICK c \in Call : /\ c = [call[w] EXCEPT !.pair = p]
                          /\ c.todo = call[w].todo /\ c.pair = p
                          /\ c.op = call[w].op /\ c.key = call[w].key
                          /\ c.entry = call[w].entry
    <3>1. call[w] \in Call
      BY <1>1
    <3> DEFINE d == [call[w] EXCEPT !.pair = p]
    <3>2. d \in Call /\ d.todo = call[w].todo /\ d.pair = p
          /\ d.op = call[w].op /\ d.key = call[w].key /\ d.entry = call[w].entry
      BY <2>1, <3>1, CallWithPair
    <3> QED
      BY <3>2
  <2>4. call' = [call EXCEPT ![w] = c]
    BY <1>3, <2>3
  <2>5. CallFits(c, "victim") /\ "victim" \in Labels
    BY <1>1, <2>1, <2>3 DEF CallFits, Labels
  <2> QED
    BY <1>3, <2>2, <2>4, <2>5, CallMoves DEF TypeInv
<1>4. CASE Goto(w, "set") /\ UNCHANGED <<heap, call>>
  <2>1. CallFits(call[w], "set") /\ "set" \in Labels
    BY <1>1 DEF CallFits, Labels
  <2> QED
    BY <1>2, <1>4, <2>1, CallGoesOn, AccessCounts DEF CheckRoom, TypeInv, HeapFits
<1> QED
  BY <1>2, <1>3, <1>4, AccessCounts DEF CheckRoom, TypeInv

LEMMA VictimTypes ==
    ASSUME TypeInv, NEW w \in Workers, Victim(w)
    PROVE  TypeInv'
<1>1. PICK ok \in BOOLEAN :
         /\ Access(ok)
         /\ IF ok /\ Matches(call[w].pair)
            THEN Goto(w, "evict") /\ UNCHANGED stale
            ELSE /\ stale' = [stale EXCEPT ![w] = Decrement(@)]
                 /\ Goto(w, "count")
  BY DEF Victim
<1>2. /\ CallFits(call[w], "evict") /\ CallFits(call[w], "count")
      /\ "evict" \in Labels /\ "count" \in Labels
  BY DEF TypeInv, CallsFit, CallFits, Victim, Labels
<1>3. CallsFit'
  BY <1>1, <1>2, CallGoesOn DEF Victim, TypeInv
<1>4. stale' \in [Workers -> Nat]
  BY <1>1 DEF TypeInv, Decrement
<1> QED
  BY <1>1, <1>3, <1>4, AccessCounts DEF Victim, TypeInv, HeapFits

LEMMA EvictTypes ==
    ASSUME TypeInv, NEW w \in Workers, Evict(w)
    PROVE  TypeInv'
<1>1. PICK ok \in BOOLEAN :
         /\ Access(ok)
         /\ db' = IF ok THEN Without(db, {call[w].pair.key}) ELSE db
  BY DEF Evict
<1>2. CallFits(call[w], "count") /\ "count" \in Labels
  BY DEF TypeInv, CallsFit, CallFits, Evict, Labels
<1>3. CallsFit'
  BY <1>2, CallGoesOn DEF Evict, TypeInv
<1>4. db' \in [Keys -> Entry \union {Absent}]
  BY <1>1, WithoutIsTable DEF TypeInv
<1> QED
  BY <1>1, <1>3, <1>4, AccessCounts DEF Evict, TypeInv, HeapFits

LEMMA SetTypes ==
    ASSUME TypeInv, NEW w \in Workers, Set(w)
    PROVE  TypeInv'
<1>1. PICK ok \in BOOLEAN :
         /\ Access(ok)
         /\ db' = IF ok THEN [db EXCEPT ![call[w].key] = call[w].entry] ELSE db
         /\ \/ Finish(w)
            \/ ok /\ Goto(w, "purge") /\ UNCHANGED call
  BY DEF Set
<1>2. /\ call[w].key \in Keys /\ call[w].entry \in Entry
      /\ CallFits(call[w], "purge") /\ "purge" \in Labels
  BY DEF TypeInv, CallsFit, CallFits, Set, Labels
<1>3. CallsFit'
  BY <1>1, <1>2, CallEnds, CallGoesOn DEF Set, TypeInv
<1>4. db' \in [Keys -> Entry \union {Absent}]
  BY <1>1, <1>2 DEF TypeInv
<1>5. HeapFits'
  <2>1. ASSUME NEW k \in Keys, NEW e \in Entry PROVE PairOf(k, e) \in Pair
    BY <2>1 DEF PairOf, Pair, Entry
  <2>2. IsABag(heap[w]) /\ BagToSet(heap[w]) \subseteq Pair
    BY DEF TypeInv, HeapFits
  <2>3. CASE call[w].op = "store"
    <3>1. heap' = [heap EXCEPT ![w] =
                     heap[w] (+) SetToBag({PairOf(call[w].key, call[w].entry)})]
      BY <2>3 DEF Set
    <3>2. PICK p \in Pair : p = PairOf(call[w].key, call[w].entry)
      BY <1>2, <2>1
    <3>3. /\ IsABag(heap[w] (+) SetToBag({p}))
          /\ BagToSet(heap[w] (+) SetToBag({p})) = BagToSet(heap[w]) \union {p}
      BY <2>2, PushProperties
    <3>4. heap' = [heap EXCEPT ![w] = heap[w] (+) SetToBag({p})]
      BY <3>1, <3>2
    <3>5. BagToSet(heap[w] (+) SetToBag({p})) \subseteq Pair
      BY <2>2, <3>3
    <3> QED
      BY <3>3, <3>4, <3>5, HeapMoves DEF TypeInv
  <2>4. CASE call[w].op # "store"
    BY <2>4 DEF Set, TypeInv, HeapFits
  <2> QED
    BY <2>3, <2>4
<1> QED
  BY <1>1, <1>3, <1>4, <1>5, AccessCounts DEF Set, TypeInv

LEMMA PurgeTypes ==
    ASSUME TypeInv, NEW w \in Workers, Purge(w)
    PROVE  TypeInv'
<1>1. PICK ok \in BOOLEAN : Access(ok) /\ db' = IF ok THEN Without(db, Dead) ELSE db
  BY DEF Purge
<1>2. db' \in [Keys -> Entry \union {Absent}]
  BY <1>1, WithoutIsTable DEF TypeInv
<1> QED
  BY <1>1, <1>2, CallEnds, AccessCounts DEF Purge, TypeInv, HeapFits

LEMMA RetrieveReadTypes ==
    ASSUME TypeInv, NEW w \in Workers, NEW k \in Keys, RetrieveRead(w, k)
    PROVE  TypeInv'
<1>1. db[k] \in Entry
  BY DEF RetrieveRead, TypeInv
<1> DEFINE c == CallOf("retrieve", k, db[k])
<1>2. c \in Call /\ c.op = "retrieve" /\ c.key = k /\ c.entry = db[k] /\ c.todo = {}
  BY <1>1, NewCall
<1>3. PICK label \in {"expire", "set"} :
         call' = [call EXCEPT ![w] = c] /\ Goto(w, label)
  BY DEF RetrieveRead
<1> HIDE DEF c
<1>4. CallFits(c, label) /\ label \in Labels
  BY <1>1, <1>2 DEF CallFits, Labels
<1>5. CallsFit'
  BY <1>2, <1>3, <1>4, CallMoves DEF TypeInv
<1> QED
  BY <1>5 DEF RetrieveRead, TypeInv, HeapFits

LEMMA ExpireDeleteTypes ==
    ASSUME TypeInv, NEW w \in Workers, ExpireDelete(w)
    PROVE  TypeInv'
<1>1. PICK ok \in BOOLEAN :
         Access(ok) /\ db' = IF ok THEN Without(db, {call[w].key}) ELSE db
  BY DEF ExpireDelete
<1>2. db' \in [Keys -> Entry \union {Absent}]
  BY <1>1, WithoutIsTable DEF TypeInv
<1> QED
  BY <1>1, <1>2, CallEnds, StaleCounts, AccessCounts DEF ExpireDelete, TypeInv, HeapFits

LEMMA GetStatsTypes ==
    ASSUME TypeInv, NEW w \in Workers, GetStats(w)
    PROVE  TypeInv'
<1> DEFINE c == CallOf("stats", Absent, Absent)
<1>1. c \in Call /\ c.op = "stats" /\ c.todo = {}
  BY NewCall
<1>2. call' = [call EXCEPT ![w] = c] /\ Goto(w, "sweep")
  BY DEF GetStats
<1> HIDE DEF c
<1>3. CallFits(c, "sweep") /\ "sweep" \in Labels
  BY <1>1 DEF CallFits, Labels
<1>4. CallsFit'
  BY <1>1, <1>2, <1>3, CallMoves DEF TypeInv
<1> QED
  BY <1>4 DEF GetStats, TypeInv, HeapFits

LEMMA ClearTypes ==
    ASSUME TypeInv, NEW w \in Workers, Clear(w)
    PROVE  TypeInv'
<1>1. PICK ok \in BOOLEAN :
         Access(ok) /\ db' = IF ok THEN [k \in Keys |-> Absent] ELSE db
  BY DEF Clear
<1>2. db' \in [Keys -> Entry \union {Absent}]
  BY <1>1 DEF TypeInv
<1>3. HeapFits'
  BY EmptyBagProperties, HeapMoves DEF Clear, TypeInv
<1>4. stale' \in [Workers -> Nat]
  BY DEF Clear, TypeInv
<1> QED
  BY <1>1, <1>2, <1>3, <1>4, AccessCounts DEF Clear, TypeInv, CallsFit

LEMMA RestartTypes ==
    ASSUME TypeInv, NEW w \in Workers, Restart(w)
    PROVE  TypeInv'
<1>1. db' \in [Keys -> Entry \union {Absent}]
  BY WithoutIsTable DEF Restart
<1>2. HeapFits'
  BY EmptyBagProperties, HeapMoves DEF Restart, TypeInv
<1>3. stale' \in [Workers -> Nat]
  BY DEF Restart, TypeInv
<1> QED
  BY <1>1, <1>2, <1>3, CallEnds DEF Restart, TypeInv

LEMMA TypesStep ==
    ASSUME TypeInv, [Next]_vars
    PROVE  TypeInv'
<1>1. CASE Tick
  BY <1>1 DEF Tick, TypeInv, HeapFits, CallsFit
<1>2. CASE UNCHANGED vars
  BY <1>2 DEF TypeInv, HeapFits, CallsFit
<1>3. ASSUME NEW w \in Workers, Step(w)
      PROVE  TypeInv'
  BY <1>3, SweepReadTypes, SweepDeleteTypes, RebuildTypes, CheckRoomTypes, VictimTypes,
     EvictTypes, SetTypes, PurgeTypes, ExpireDeleteTypes DEF Step
<1>4. ASSUME NEW w \in Workers, GetStats(w) \/ Clear(w) \/ Restart(w)
      PROVE  TypeInv'
  BY <1>4, GetStatsTypes, ClearTypes, RestartTypes
<1>5. ASSUME NEW w \in Workers, NEW k \in Keys, StoreLookup(w, k) \/ RetrieveRead(w, k)
      PROVE  TypeInv'
  BY <1>5, StoreLookupTypes, RetrieveReadTypes
<1> QED
  BY <1>1, <1>2, <1>3, <1>4, <1>5 DEF Next

LEMMA InitTypes == Init => TypeInv
<1> SUFFICES ASSUME Init PROVE TypeInv
  OBVIOUS
<1>1. HeapFits
  BY EmptyBagProperties DEF Init, HeapFits
<1>2. CallsFit
  BY NoCallFits DEF Init, CallsFit, Labels
<1> QED
  BY <1>1, <1>2 DEF Init, TypeInv

LEMMA TypesInvariant == Spec => []TypeInv
BY InitTypes, TypesStep, PTL DEF Spec

\* Whatever the workers, the restarts and the failed accesses do to each other,
\* every variable stays in its type: a stale counter never drops below zero, a
\* call about to write has an entry to write, and a sweep about to delete has
\* something to delete.
THEOREM SharedTypes == Spec => []TypeOK
<1>1. TypeInv => TypeOK
  BY DEF TypeInv, HeapFits, CallsFit, CallFits, TypeOK
<1> QED
  BY <1>1, TypesInvariant, PTL

-----------------------------------------------------------------------------
(* Every call of every worker gets on *)

\* An action of worker v alone leaves the other workers where they are.
LEMMA OthersStay ==
    ASSUME TypeInv, NEW v \in Workers, NEW w \in Workers, v # w,
           \/ Step(v) \/ GetStats(v) \/ Clear(v) \/ Restart(v)
           \/ \E k \in Keys : StoreLookup(v, k) \/ RetrieveRead(v, k)
    PROVE  UNCHANGED <<pc[w], call[w], heap[w]>>
<1>1. w \in DOMAIN pc /\ w \in DOMAIN call /\ w \in DOMAIN heap
  BY DEF TypeInv, HeapFits, CallsFit
<1>2. ASSUME NEW label, Goto(v, label)
      PROVE  pc'[w] = pc[w]
  BY <1>1, <1>2 DEF Goto
<1>3. ASSUME Finish(v)
      PROVE  pc'[w] = pc[w] /\ call'[w] = call[w]
  BY <1>1, <1>2, <1>3 DEF Finish
<1>4. CASE SweepRead(v) \/ SweepDelete(v)
  BY <1>1, <1>2, <1>3, <1>4 DEF SweepRead, SweepDelete
<1>5. CASE Rebuild(v) \/ CheckRoom(v)
  BY <1>1, <1>2, <1>5 DEF Rebuild, CheckRoom
<1>6. CASE Victim(v) \/ Evict(v)
  BY <1>2, <1>6 DEF Victim, Evict
<1>7. CASE Set(v) \/ Purge(v) \/ ExpireDelete(v)
  BY <1>1, <1>2, <1>3, <1>7 DEF Set, Purge, ExpireDelete
<1>8. CASE GetStats(v) \/ Clear(v) \/ Restart(v)
  BY <1>1, <1>2, <1>3, <1>8 DEF GetStats, Clear, Restart
<1>9. CASE \E k \in Keys : StoreLookup(v, k) \/ RetrieveRead(v, k)
  BY <1>1, <1>2, <1>9 DEF StoreLookup, RetrieveRead
<1> QED
  BY <1>4, <1>5, <1>6, <1>7, <1>8, <1>9 DEF Step

LEMMA StepAdvances ==
    ASSUME TypeInv, NEW w \in Workers, Step(w)
    PROVE  Advances(w)
<1>1. w \in DOMAIN pc /\ w \in DOMAIN call /\ w \in DOMAIN heap
  BY DEF TypeInv, HeapFits, CallsFit
<1>2. \A label : Goto(w, label) => pc'[w] = label
  BY <1>1 DEF Goto
<1>3. Finish(w) => pc'[w] = "idle"
  BY <1>2 DEF Finish
<1>4. CASE SweepRead(w)
  <2>1. pc[w] = "sweep" /\ pc'[w] \in {"delete", "room", "idle"}
    BY <1>2, <1>3, <1>4 DEF SweepRead
  <2> QED
    BY <2>1 DEF Advances, Stages
<1>5. CASE SweepDelete(w)
  <2>1. PICK k \in call[w].todo :
           IF call[w].todo # {k}
           THEN call' = [call EXCEPT ![w].todo = @ \ {k}] /\ UNCHANGED pc
           ELSE Goto(w, "room") \/ Finish(w)
    BY <1>5 DEF SweepDelete
  <2>2. pc[w] = "delete"
    BY <1>5 DEF SweepDelete
  <2>3. CASE call[w].todo # {k}
    <3>1. call[w] \in Call /\ call[w].todo \ {k} \in SUBSET Keys
      BY DEF TypeInv, CallsFit, Call
    <3>2. call'[w] = [call[w] EXCEPT !.todo = call[w].todo \ {k}]
      BY <1>1, <2>1, <2>3
    <3>3. call'[w].todo = call[w].todo \ {k}
      BY <3>1, <3>2, CallWithTodo
    <3>4. pc'[w] = "delete"
      BY <2>1, <2>2, <2>3
    <3> QED
      BY <2>2, <3>3, <3>4 DEF Advances
  <2>4. CASE call[w].todo = {k}
    <3>1. pc'[w] \in {"room", "idle"}
      BY <1>2, <1>3, <2>1, <2>4
    <3> QED
      BY <2>2, <3>1 DEF Advances, Stages
  <2> QED
    BY <2>3, <2>4
<1>6. CASE Rebuild(w)
  <2>1. pc[w] = "room" /\ pc'[w] = "count"
    BY <1>2, <1>6 DEF Rebuild
  <2> QED
    BY <2>1 DEF Advances, Stages
<1>7. CASE CheckRoom(w)
  <2>1. CASE \E p \in InHeap(w) : heap' = [heap EXCEPT ![w] = OutOfHeap(w, p)]
                                  /\ Goto(w, "victim")
    <3>1. pc'[w] = "victim" /\ \E p \in InHeap(w) : heap'[w] = OutOfHeap(w, p)
      BY <1>1, <1>2, <2>1
    <3>2. pc[w] \in {"room", "count"}
      BY <1>7 DEF CheckRoom
    <3> QED
      BY <3>1, <3>2 DEF Advances, Stages
  <2>2. CASE Goto(w, "set")
    <3>1. pc[w] \in {"room", "count"} /\ pc'[w] = "set"
      BY <1>2, <1>7, <2>2 DEF CheckRoom
    <3> QED
      BY <3>1 DEF Advances, Stages
  <2> QED
    BY <1>7, <2>1, <2>2 DEF CheckRoom
<1>8. CASE Victim(w) \/ Evict(w)
  BY <1>2, <1>8 DEF Victim, Evict, Advances
<1>9. CASE Set(w)
  <2>1. pc[w] = "set" /\ pc'[w] \in {"idle", "purge"}
    BY <1>2, <1>3, <1>9 DEF Set
  <2> QED
    BY <2>1 DEF Advances, Stages
<1>10. CASE Purge(w) \/ ExpireDelete(w)
  <2>1. pc[w] \in {"purge", "expire"} /\ pc'[w] = "idle"
    BY <1>3, <1>10 DEF Purge, ExpireDelete
  <2> QED
    BY <2>1 DEF Advances, Stages
<1> QED
  BY <1>4, <1>5, <1>6, <1>7, <1>8, <1>9, <1>10 DEF Step

\* Any number of workers: whatever the others do to the table, every access of a
\* call brings its end nearer.  This is the variant of CallsEnd; that the worker
\* does take the access is its fairness.
THEOREM EachAccessAdvances == Spec => CallsAdvance
<1>1. ASSUME TypeInv, Next, NEW w \in Workers, pc[w] # "idle"
      PROVE  \/ Step(w)
             \/ pc'[w] = "idle"
             \/ UNCHANGED <<pc[w], call[w], heap[w]>>
  <2>1. CASE Tick
    BY <2>1 DEF Tick
  <2>2. ASSUME NEW v \in Workers, v # w,
               \/ Step(v) \/ GetStats(v) \/ Clear(v) \/ Restart(v)
               \/ \E k \in Keys : StoreLookup(v, k) \/ RetrieveRead(v, k)
        PROVE  UNCHANGED <<pc[w], call[w], heap[w]>>
    BY <1>1, <2>2, OthersStay
  <2>3. ~GetStats(w) /\ ~Clear(w) /\ \A k \in Keys : ~StoreLookup(w, k) /\ ~RetrieveRead(w, k)
    BY <1>1 DEF GetStats, Clear, StoreLookup, RetrieveRead
  <2>4. Restart(w) => pc'[w] = "idle"
    BY <1>1 DEF Restart, Finish, Goto, TypeInv, CallsFit
  <2> QED
    BY <1>1, <2>1, <2>2, <2>3, <2>4 DEF Next
<1>2. TypeInv /\ [Next]_vars =>
        [\A w \in Workers : pc[w] # "idle" =>
            /\ Step(w) => Advances(w)
            /\ \/ Step(w)
               \/ pc'[w] = "idle"
               \/ UNCHANGED <<pc[w], call[w], heap[w]>>]_vars
  BY <1>1, StepAdvances
<1> QED
  BY <1>2, TypesInvariant, PTL DEF Spec, CallsAdvance

\* A table is finite, and with it what is found to delete and what a heap holds.
FinitesInv == IsFiniteSet(Live) /\ WorkIsFinite

\* A table with one row more is still finite.
LEMMA FiniteTable ==
    ASSUME TypeInv, IsFiniteSet(Live), [Next]_vars
    PROVE  IsFiniteSet(Live')
<1>1. ASSUME NEW K, db' = Without(db, K)
      PROVE  IsFiniteSet(Live')
  <2>1. Live' \subseteq Live
    BY <1>1 DEF Live, Without
  <2> QED
    BY <2>1, FS_Subset
<1>2. ASSUME NEW k \in Keys, NEW e, db' = [db EXCEPT ![k] = e]
      PROVE  IsFiniteSet(Live')
  <2>1. Live' \subseteq Live \union {k}
    BY <1>2 DEF Live, TypeInv
  <2>2. IsFiniteSet(Live \union {k})
    BY FS_AddElement
  <2> QED
    BY <2>1, <2>2, FS_Subset
<1>3. ASSUME db' = [k \in Keys |-> Absent]
      PROVE  IsFiniteSet(Live')
  <2>1. Live' = {}
    BY <1>3 DEF Live
  <2> QED
    BY <2>1, FS_EmptySet
<1>4. ASSUME UNCHANGED db
      PROVE  IsFiniteSet(Live')
  BY <1>4 DEF Live
<1>5. ASSUME NEW w \in Workers, Step(w)
      PROVE  IsFiniteSet(Live')
  <2>1. CASE SweepRead(w) \/ Rebuild(w) \/ CheckRoom(w) \/ Victim(w)
    BY <1>4, <2>1 DEF SweepRead, Rebuild, CheckRoom, Victim
  <2>2. CASE SweepDelete(w) \/ Evict(w)
    BY <1>1, <1>4, <2>2 DEF SweepDelete, Evict
  <2>3. CASE Purge(w) \/ ExpireDelete(w)
    BY <1>1, <1>4, <2>3 DEF Purge, ExpireDelete
  <2>4. CASE Set(w)
    <3>1. call[w].key \in Keys
      BY <1>5, <2>4 DEF Set, TypeInv, CallsFit, CallFits
    <3> QED
      BY <1>2, <1>4, <2>4, <3>1 DEF Set
  <2> QED
    BY <1>5, <2>1, <2>2, <2>3, <2>4 DEF Step
<1>6. ASSUME NEW w \in Workers,
             \/ GetStats(w) \/ Clear(w) \/ Restart(w)
             \/ \E k \in Keys : StoreLookup(w, k) \/ RetrieveRead(w, k)
      PROVE  IsFiniteSet(Live')
  BY <1>1, <1>3, <1>4, <1>6 DEF GetStats, Clear, Restart, StoreLookup, RetrieveRead
<1>7. CASE Tick \/ UNCHANGED vars
  BY <1>4, <1>7 DEF Tick
<1> QED
  BY <1>5, <1>6, <1>7 DEF Next

\* The pairs of a rebuilt heap are no more than the rows.
LEMMA FinitePairs ==
    ASSUME IsFiniteSet(Live)
    PROVE  IsFiniteSet({PairOf(k, db[k]) : k \in Live})
<1> DEFINE T == {PairOf(k, db[k]) : k \in Live}
           f == [k \in Live |-> PairOf(k, db[k])]
<1>1. f \in [Live -> T] /\ \A t \in T : \E k \in Live : f[k] = t
  OBVIOUS
<1>2. f \in Surjection(Live, T)
  BY <1>1 DEF Surjection
<1> HIDE DEF f
<1> QED
  BY <1>2, FS_Surjection

\* The heap of the worker that takes a step.
LEMMA FiniteHeap ==
    ASSUME TypeInv, FinitesInv, NEW w \in Workers,
           \/ Step(w) \/ GetStats(w) \/ Clear(w) \/ Restart(w)
           \/ \E k \in Keys : StoreLookup(w, k) \/ RetrieveRead(w, k)
    PROVE  IsFiniteSet(BagToSet(heap'[w]))
<1>1. w \in DOMAIN heap /\ IsABag(heap[w]) /\ IsFiniteSet(BagToSet(heap[w]))
  BY DEF TypeInv, HeapFits, FinitesInv, WorkIsFinite, InHeap
<1>2. CASE UNCHANGED heap
  BY <1>1, <1>2
<1>3. CASE Clear(w) \/ Restart(w)
  <2>1. heap'[w] = EmptyBag
    BY <1>1, <1>3 DEF Clear, Restart
  <2> QED
    BY <2>1, EmptyBagProperties, FS_EmptySet
<1>4. CASE Rebuild(w)
  <2>1. PICK S : /\ heap'[w] = SetToBag(S)
                 /\ S = {PairOf(k, db[k]) : k \in Live} \/ S = {}
    BY <1>1, <1>4 DEF Rebuild
  <2>2. IsFiniteSet(S)
    BY <2>1, FinitePairs, FS_EmptySet DEF FinitesInv
  <2> QED
    BY <2>1, <2>2, SetToBagProperties
<1>5. CASE CheckRoom(w)
  <2>1. CASE \E p : heap'[w] = heap[w] (-) SetToBag({p})
    <3>1. BagToSet(heap'[w]) \subseteq BagToSet(heap[w])
      BY <1>1, <2>1, PopProperties
    <3> QED
      BY <1>1, <3>1, FS_Subset
  <2> QED
    BY <1>1, <1>2, <1>5, <2>1 DEF CheckRoom, OutOfHeap
<1>6. CASE Set(w)
  <2>1. ASSUME NEW p, heap' = [heap EXCEPT ![w] = @ (+) SetToBag({p})]
        PROVE  IsFiniteSet(BagToSet(heap'[w]))
    <3>1. heap'[w] = heap[w] (+) SetToBag({p})
      BY <1>1, <2>1
    <3>2. BagToSet(heap'[w]) = BagToSet(heap[w]) \union {p}
      BY <1>1, <3>1, PushProperties
    <3> QED
      BY <1>1, <3>2, FS_AddElement
  <2> QED
    BY <1>2, <1>6, <2>1 DEF Set
<1>7. CASE SweepRead(w) \/ SweepDelete(w) \/ Victim(w) \/ Evict(w)
  BY <1>2, <1>7 DEF SweepRead, SweepDelete, Victim, Evict
<1>8. CASE Purge(w) \/ ExpireDelete(w) \/ GetStats(w)
  BY <1>2, <1>8 DEF Purge, ExpireDelete, GetStats
<1>9. CASE \E k \in Keys : StoreLookup(w, k) \/ RetrieveRead(w, k)
  BY <1>2, <1>9 DEF StoreLookup, RetrieveRead
<1> QED
  BY <1>3, <1>4, <1>5, <1>6, <1>7, <1>8, <1>9 DEF Step

\* ... and what its call has left to delete.
LEMMA FiniteTodo ==
    ASSUME TypeInv, FinitesInv, NEW w \in Workers,
           \/ Step(w) \/ GetStats(w) \/ Clear(w) \/ Restart(w)
           \/ \E k \in Keys : StoreLookup(w, k) \/ RetrieveRead(w, k)
    PROVE  IsFiniteSet(call'[w].todo)
<1>1. w \in DOMAIN call /\ call[w] \in Call /\ IsFiniteSet(call[w].todo)
  BY DEF TypeInv, CallsFit, FinitesInv, WorkIsFinite
<1>2. CASE UNCHANGED call
  BY <1>1, <1>2
<1>3. ASSUME NEW T \in SUBSET Keys, IsFiniteSet(T), call' = [call EXCEPT ![w].todo = T]
      PROVE  IsFiniteSet(call'[w].todo)
  <2>1. call'[w] = [call[w] EXCEPT !.todo = T]
    BY <1>1, <1>3
  <2>2. call'[w].todo = T
    BY <1>1, <2>1, CallWithTodo
  <2> QED
    BY <1>3, <2>2
<1>4. ASSUME NEW o, NEW k, NEW e, call' = [call EXCEPT ![w] = CallOf(o, k, e)]
      PROVE  IsFiniteSet(call'[w].todo)
  <2>1. call'[w].todo = {}
    BY <1>1, <1>4 DEF CallOf
  <2> QED
    BY <2>1, FS_EmptySet
<1>5. ASSUME Finish(w)
      PROVE  IsFiniteSet(call'[w].todo)
  BY <1>4, <1>5 DEF Finish, NoCall
<1>6. CASE SweepRead(w)
  <2>1. Dead \in SUBSET Keys /\ IsFiniteSet(Dead)
    <3>1. Dead \in SUBSET Live /\ IsFiniteSet(Live)
      BY DEF Dead, FinitesInv
    <3> QED
      BY <3>1, FS_Subset DEF Live
  <2> QED
    BY <1>2, <1>3, <1>5, <1>6, <2>1 DEF SweepRead
<1>7. CASE SweepDelete(w)
  <2>1. ASSUME NEW k
        PROVE  call[w].todo \ {k} \in SUBSET Keys /\ IsFiniteSet(call[w].todo \ {k})
    <3>1. call[w].todo \ {k} \in SUBSET call[w].todo /\ call[w].todo \in SUBSET Keys
      BY <1>1 DEF Call
    <3> QED
      BY <1>1, <3>1, FS_Subset
  <2>2. {} \in SUBSET Keys /\ IsFiniteSet({})
    BY FS_EmptySet
  <2>3. PICK k : \/ call' = [call EXCEPT ![w].todo = call[w].todo \ {k}]
                 \/ call' = [call EXCEPT ![w].todo = {}]
                 \/ Finish(w)
    BY <1>7 DEF SweepDelete
  <2> QED
    BY <1>3, <1>5, <2>1, <2>2, <2>3
<1>8. CASE CheckRoom(w)
  <2>1. CASE \E p : call' = [call EXCEPT ![w].pair = p]
    <3>1. call'[w].todo = call[w].todo
      BY <1>1, <2>1 DEF Call
    <3> QED
      BY <1>1, <3>1
  <2> QED
    BY <1>2, <1>8, <2>1 DEF CheckRoom
<1>9. CASE Rebuild(w) \/ Victim(w) \/ Evict(w) \/ Clear(w)
  BY <1>2, <1>9 DEF Rebuild, Victim, Evict, Clear
<1>10. CASE Set(w) \/ Purge(w) \/ ExpireDelete(w) \/ Restart(w)
  BY <1>2, <1>5, <1>10 DEF Set, Purge, ExpireDelete, Restart
<1>11. CASE GetStats(w)
  BY <1>4, <1>11 DEF GetStats
<1>12. CASE \E k \in Keys : StoreLookup(w, k) \/ RetrieveRead(w, k)
  BY <1>4, <1>12 DEF StoreLookup, RetrieveRead
<1> QED
  BY <1>6, <1>7, <1>8, <1>9, <1>10, <1>11, <1>12 DEF Step

\* Any number of workers: the heap a call may have to pop its way through, and
\* what it may have to delete, are finite even where the set of hashes is not.
\* With EachAccessAdvances, no call goes round for ever.
THEOREM WorkStaysFinite == Spec => []WorkIsFinite
<1>1. Init => FinitesInv
  <2> SUFFICES ASSUME Init PROVE FinitesInv
    OBVIOUS
  <2>1. Live = {}
    BY DEF Init, Live
  <2>2. \A w \in Workers : InHeap(w) = {} /\ call[w].todo = {}
    BY EmptyBagProperties DEF Init, InHeap, NoCall, CallOf
  <2> QED
    BY <2>1, <2>2, FS_EmptySet DEF FinitesInv, WorkIsFinite
<1>2. ASSUME TypeInv, FinitesInv, [Next]_vars
      PROVE  FinitesInv'
  <2>1. IsFiniteSet(Live')
    BY <1>2, FiniteTable DEF FinitesInv
  <2>2. ASSUME NEW w \in Workers
        PROVE  IsFiniteSet(BagToSet(heap'[w])) /\ IsFiniteSet(call'[w].todo)
    <3>1. CASE UNCHANGED <<call[w], heap[w]>>
      BY <1>2, <3>1 DEF FinitesInv, WorkIsFinite, InHeap
    <3>2. CASE Tick \/ UNCHANGED vars
      BY <3>1, <3>2 DEF Tick
    <3>3. ASSUME NEW v \in Workers,
                 \/ Step(v) \/ GetStats(v) \/ Clear(v) \/ Restart(v)
                 \/ \E k \in Keys : StoreLookup(v, k) \/ RetrieveRead(v, k)
          PROVE  IsFiniteSet(BagToSet(heap'[w])) /\ IsFiniteSet(call'[w].todo)
      <4>1. CASE v = w
        BY <1>2, <3>3, <4>1, FiniteHeap, FiniteTodo
      <4>2. CASE v # w
        BY <1>2, <3>1, <3>3, <4>2, OthersStay
      <4> QED
        BY <4>1, <4>2
    <3> QED
      BY <1>2, <3>2, <3>3 DEF Next
  <2> QED
    BY <2>1, <2>2 DEF FinitesInv, WorkIsFinite, InHeap
<1>3. FinitesInv => WorkIsFinite
  BY DEF FinitesInv
<1> QED
  BY <1>1, <1>2, <1>3, TypesInvariant, PTL DEF Spec

-----------------------------------------------------------------------------
(* One worker: how many rows, and which of them its heap can reach *)

Mishaps == restarts + faults

\* The pair a worker has popped and not yet dealt with.
Hand(w) == IF pc[w] \in {"victim", "evict"} THEN {call[w].pair} ELSE {}

Reach(w) == InHeap(w) \union Hand(w)

\* The rows the worker cannot find to evict.
Unreached(w) == {k \in Live : PairOf(k, db[k]) \notin Reach(w)}

RowsInv == IsFiniteSet(Live) /\ Cardinality(Live) <= MaxEntries + Mishaps

\* One place below the bound is always left to the rows out of reach: an
\* eviction loop that finds its heap empty leaves room for one more.
ReachInv(w) ==
    /\ Cardinality(Unreached(w)) <= MaxEntries + Mishaps - 1
    /\ Mishaps = 0 => Unreached(w) = {}

Gone(k) == db[k] = Absent \/ HasExpired(db[k])

\* What a call has read is still so when it acts on it.
CallInv(w) ==
    /\ pc[w] = "set" => \/ call[w].key \in Live
                        \/ Cardinality(Live) < MaxEntries + Mishaps
    /\ pc[w] = "set" /\ call[w].op = "retrieve" => db[call[w].key] = call[w].entry
    /\ pc[w] \in {"victim", "evict"} => Full
    /\ \A k \in call[w].todo : Gone(k)
    /\ pc[w] = "expire" => Gone(call[w].key)
    /\ call[w].op = "store" /\ pc[w] \notin {"set", "purge"} =>
          call[w].key \notin Live \/ faults > 0

\* The popped pair is an oldest one, and it is the victim's.
OrderInv(w) ==
    /\ pc[w] \in {"victim", "evict"} =>
          \A q \in InHeap(w) : call[w].pair.created <= q.created
    /\ pc[w] = "evict" => Matches(call[w].pair)

StampInv(w) ==
    /\ \A k \in Live : db[k].created <= now
    /\ call[w].op \in {"store", "retrieve"} => call[w].entry.created <= now

OneInv(w) == RowsInv /\ ReachInv(w) /\ CallInv(w) /\ OrderInv(w) /\ StampInv(w)

LEMMA SubsetCount ==
    ASSUME NEW S, IsFiniteSet(S), NEW T \in SUBSET S
    PROVE  /\ IsFiniteSet(T)
           /\ Cardinality(T) \in Nat /\ Cardinality(S) \in Nat
           /\ Cardinality(T) <= Cardinality(S)
BY FS_Subset, FS_CardinalityType

\* A pair names a hash and the time of one store of it.
LEMMA PairOfNames ==
    ASSUME NEW k, NEW e
    PROVE  PairOf(k, e).key = k /\ PairOf(k, e).created = e.created
BY DEF PairOf

LEMMA PairOfMatch ==
    ASSUME NEW p \in Pair, Matches(p)
    PROVE  p.key \in Live /\ PairOf(p.key, db[p.key]) = p
BY DEF PairOf, Pair, Matches, Live

\* Mishaps are only ever added.
MishapsGrow == /\ restarts' \in Nat /\ faults' \in Nat
               /\ restarts <= restarts' /\ faults <= faults'

LEMMA MishapsCount ==
    ASSUME TypeInv, MishapsGrow
    PROVE  /\ Mishaps \in Nat /\ Mishaps' \in Nat /\ Mishaps <= Mishaps'
           /\ restarts < restarts' \/ faults < faults' => Mishaps + 1 <= Mishaps'
           /\ MaxEntries \in Nat \ {0}
<1>1. MaxEntries \in Nat \ {0}
  BY SharedAssumption
<1>2. PICK a \in Nat, b \in Nat, c \in Nat, d \in Nat :
         a = restarts /\ b = faults /\ c = restarts' /\ d = faults'
  BY DEF MishapsGrow, TypeInv
<1>3. Mishaps = a + b /\ Mishaps' = c + d
  BY <1>2 DEF Mishaps
<1>4. a <= c /\ b <= d
  BY <1>2 DEF MishapsGrow
<1>5. /\ a + b \in Nat /\ c + d \in Nat /\ a + b <= c + d
      /\ a < c \/ b < d => (a + b) + 1 <= c + d
  BY <1>4
<1> QED
  BY <1>1, <1>2, <1>3, <1>5

\* The worker reaches what it reached.
LEMMA ReachKept ==
    ASSUME TypeInv, NEW w \in Workers, RowsInv, ReachInv(w), MishapsGrow,
           Unreached(w)' \subseteq Unreached(w)
    PROVE  ReachInv(w)'
<1>1. IsFiniteSet(Live) /\ Unreached(w) \subseteq Live
  BY DEF RowsInv, Unreached
<1>2. IsFiniteSet(Unreached(w))
  BY <1>1, SubsetCount
<1>3. /\ Cardinality(Unreached(w)') \in Nat /\ Cardinality(Unreached(w)) \in Nat
      /\ Cardinality(Unreached(w)') <= Cardinality(Unreached(w))
  BY <1>2, SubsetCount
<1>4. Mishaps \in Nat /\ Mishaps' \in Nat /\ Mishaps <= Mishaps' /\ MaxEntries \in Nat
  BY MishapsCount
<1> QED
  BY <1>3, <1>4 DEF ReachInv

\* Rows go, no row comes.
LEMMA RowsGo ==
    ASSUME TypeInv, NEW w \in Workers, RowsInv, ReachInv(w), MishapsGrow,
           Live' \subseteq Live, Unreached(w)' \subseteq Unreached(w)
    PROVE  RowsInv' /\ ReachInv(w)'
<1>1. /\ IsFiniteSet(Live') /\ Cardinality(Live') \in Nat /\ Cardinality(Live) \in Nat
      /\ Cardinality(Live') <= Cardinality(Live)
  BY SubsetCount DEF RowsInv
<1>2. Mishaps \in Nat /\ Mishaps' \in Nat /\ Mishaps <= Mishaps' /\ MaxEntries \in Nat
  BY MishapsCount
<1>3. RowsInv'
  BY <1>1, <1>2 DEF RowsInv
<1> QED
  BY <1>3, ReachKept

\* One row comes where there is room for it, or none.
LEMMA RowComes ==
    ASSUME TypeInv, RowsInv, MishapsGrow, NEW k \in Keys, Live' = Live \union {k},
           k \in Live \/ Cardinality(Live) < MaxEntries + Mishaps
    PROVE  RowsInv'
<1>1. /\ IsFiniteSet(Live') /\ Cardinality(Live) \in Nat
      /\ Cardinality(Live') = IF k \in Live THEN Cardinality(Live)
                                             ELSE Cardinality(Live) + 1
  BY FS_AddElement, FS_CardinalityType DEF RowsInv
<1>2. Mishaps \in Nat /\ Mishaps' \in Nat /\ Mishaps <= Mishaps' /\ MaxEntries \in Nat
  BY MishapsCount
<1>3. Cardinality(Live') <= MaxEntries + Mishaps'
  BY <1>1, <1>2 DEF RowsInv
<1> QED
  BY <1>1, <1>3 DEF RowsInv

\* A mishap pays for every row, wherever the pairs are after it.
LEMMA MishapPays ==
    ASSUME TypeInv, NEW w \in Workers, RowsInv, MishapsGrow,
           Live' \subseteq Live, Mishaps + 1 <= Mishaps'
    PROVE  RowsInv' /\ ReachInv(w)'
<1>1. IsFiniteSet(Live) /\ Unreached(w)' \subseteq Live
  BY DEF RowsInv, Unreached
<1>2. /\ IsFiniteSet(Live') /\ Cardinality(Live') \in Nat /\ Cardinality(Live) \in Nat
      /\ Cardinality(Live') <= Cardinality(Live)
  BY <1>1, SubsetCount
<1>3. /\ Cardinality(Unreached(w)') \in Nat
      /\ Cardinality(Unreached(w)') <= Cardinality(Live)
  BY <1>1, SubsetCount
<1>4. Mishaps \in Nat /\ Mishaps' \in Nat /\ MaxEntries \in Nat
  BY MishapsCount
<1>5. RowsInv'
  BY <1>2, <1>4 DEF RowsInv
<1>6. ReachInv(w)'
  BY <1>2, <1>3, <1>4 DEF RowsInv, ReachInv
<1> QED
  BY <1>5, <1>6

\* Nothing that could be reached gets out of reach.
LEMMA QuietRows ==
    ASSUME TypeInv, NEW w \in Workers, RowsInv, ReachInv(w), MishapsGrow,
           Live' \subseteq Live, \A k \in Live' : db'[k] = db[k],
           Reach(w) \subseteq Reach(w)'
    PROVE  RowsInv' /\ ReachInv(w)'
<1>1. ASSUME NEW k \in Unreached(w)'
      PROVE  k \in Unreached(w)
  <2>1. k \in Live' /\ PairOf(k, db'[k]) \notin Reach(w)'
    BY DEF Unreached, PairOf
  <2> QED
    BY <2>1 DEF Unreached
<1>2. Unreached(w)' \subseteq Unreached(w)
  BY <1>1
<1> QED
  BY <1>2, RowsGo

LEMMA AccessMishaps ==
    ASSUME TypeInv, NEW ok \in BOOLEAN, Access(ok), restarts' = restarts
    PROVE  /\ MishapsGrow
           /\ ok => Mishaps' = Mishaps /\ faults' = faults
           /\ ~ok => Mishaps + 1 <= Mishaps' /\ faults' > 0
<1>1. PICK a \in Nat, b \in Nat : a = restarts /\ b = faults
  BY DEF TypeInv
<1>2. restarts' = a /\ faults' = IF ok THEN b ELSE b + 1
  BY <1>1 DEF Access
<1>3. b + 1 \in Nat /\ b + 1 > 0 /\ b <= b + 1 /\ b <= b /\ a <= a
      /\ (a + b) + 1 <= a + (b + 1)
  OBVIOUS
<1>4. MishapsGrow
  BY <1>1, <1>2, <1>3 DEF MishapsGrow
<1>5. Mishaps = a + b /\ Mishaps' = restarts' + faults'
  BY <1>1 DEF Mishaps
<1> QED
  BY <1>1, <1>2, <1>3, <1>4, <1>5

\* Deleting rows.
LEMMA WithoutRows ==
    ASSUME NEW K, db' = Without(db, K)
    PROVE  /\ Live' = Live \ K
           /\ \A k \in Live' : db'[k] = db[k]
           /\ \A k \in Keys : db'[k] \in {db[k], Absent}
BY DEF Without, Live

\* What has expired or is gone stays so until it is stored again.
LEMMA GoneStays ==
    ASSUME TypeInv, NEW k \in Keys, Gone(k), db'[k] \in {db[k], Absent},
           NEW t \in Nat, now' = t, now <= t
    PROVE  Gone(k)'
<1>1. CASE db[k] = Absent
  BY <1>1 DEF Gone
<1>2. CASE db'[k] = db[k] /\ db[k] # Absent
  <2>1. db[k] \in Entry /\ now \in Nat
    BY <1>2 DEF TypeInv
  <2>2. PICK c \in Nat, l \in Nat : c = db[k].created /\ l = db[k].ttl
    BY <2>1, SharedAssumption DEF Entry
  <2>3. now - c > l
    BY <1>2, <2>2 DEF Gone, HasExpired
  <2>4. t - c > l
    BY <2>1, <2>3
  <2> QED
    BY <1>2, <2>2, <2>4 DEF Gone, HasExpired
<1>3. CASE db'[k] = Absent
  BY <1>3 DEF Gone
<1> QED
  BY <1>1, <1>2, <1>3

\* The locals of a call, for the proofs below.
LEMMA CallFacts ==
    ASSUME TypeInv, NEW w \in Workers
    PROVE  /\ call[w] \in Call /\ pc[w] \in Labels
           /\ CallFits(call[w], pc[w])
           /\ call[w].todo \subseteq Keys
           /\ IsABag(heap[w]) /\ InHeap(w) \subseteq Pair
           /\ DOMAIN heap = Workers /\ DOMAIN pc = Workers /\ DOMAIN call = Workers
BY DEF TypeInv, CallsFit, HeapFits, InHeap, Call

LEMMA TickOne ==
    ASSUME TypeInv, NEW w \in Workers, OneInv(w), Tick
    PROVE  OneInv(w)'
<1>1. /\ db' = db /\ heap' = heap /\ pc' = pc /\ call' = call
      /\ restarts' = restarts /\ faults' = faults
  BY DEF Tick
<1>2. PICK t \in Nat : t = now + 1 /\ now' = t /\ now <= t
  BY DEF Tick, TypeInv
<1>3. RowsInv' /\ ReachInv(w)'
  BY <1>1 DEF OneInv, RowsInv, ReachInv, Unreached, Reach, Hand, InHeap, Live, Mishaps
<1>4. CallInv(w)'
  <2>1. \A k \in call[w].todo : Gone(k)'
    BY <1>1, <1>2, GoneStays, CallFacts DEF OneInv, CallInv
  <2>2. pc[w] = "expire" => Gone(call[w].key)'
    <3>1. pc[w] = "expire" => call[w].key \in Keys
      BY CallFacts DEF CallFits
    <3> QED
      BY <1>1, <1>2, <3>1, GoneStays DEF OneInv, CallInv
  <2> QED
    BY <1>1, <2>1, <2>2 DEF OneInv, CallInv, Live, Full, Mishaps, Gone
<1>5. OrderInv(w)'
  BY <1>1 DEF OneInv, OrderInv, InHeap, Matches
<1>6. StampInv(w)'
  <2>1. ASSUME NEW k \in Live
        PROVE  db[k].created <= t
    <3>1. db[k].created \in Nat /\ db[k].created <= now /\ now \in Nat
      BY LiveEntry DEF OneInv, StampInv, Entry, TypeInv
    <3> QED
      BY <1>2, <3>1
  <2>2. ASSUME call[w].op \in {"store", "retrieve"}
        PROVE  call[w].entry.created <= t
    <3>1. call[w].entry.created \in Nat /\ call[w].entry.created <= now /\ now \in Nat
      BY <2>2, CallFacts DEF OneInv, StampInv, CallFits, Entry, TypeInv
    <3> QED
      BY <1>2, <3>1
  <2> QED
    BY <1>1, <1>2, <2>1, <2>2 DEF StampInv, Live
<1> QED
  BY <1>3, <1>4, <1>5, <1>6 DEF OneInv

\* Where a step leaves the worker, and with which locals.
LEMMA Arrives ==
    ASSUME TypeInv, NEW w \in Workers, NEW label, Goto(w, label)
    PROVE  pc'[w] = label
BY CallFacts DEF Goto

LEMMA Departs ==
    ASSUME TypeInv, NEW w \in Workers, Finish(w)
    PROVE  pc'[w] = "idle" /\ call'[w] = NoCall
BY CallFacts DEF Goto, Finish

LEMMA NoCallIs == NoCall.op = "none" /\ NoCall.todo = {}
BY NewCall DEF NoCall

\* No stamp is newer than the clock, if no row and no local is.
LEMMA StampsKept ==
    ASSUME TypeInv, NEW w \in Workers, OneInv(w), now' = now,
           Live' \subseteq Live, \A k \in Live' : db'[k] = db[k],
           call'[w].op \in {"store", "retrieve"} =>
              call[w].op \in {"store", "retrieve"} /\ call'[w].entry = call[w].entry
    PROVE  StampInv(w)'
BY DEF OneInv, StampInv

\* A call that ends leaves nothing to be known.
LEMMA EndedCall ==
    ASSUME NEW w \in Workers, pc'[w] = "idle", call'[w] = NoCall
    PROVE  CallInv(w)' /\ OrderInv(w)'
<1>1. call'[w].op = "none" /\ call'[w].todo = {}
  BY NoCallIs
<1> QED
  BY <1>1 DEF CallInv, OrderInv

LEMMA StoreLookupOne ==
    ASSUME TypeInv, NEW w \in Workers, OneInv(w), NEW k \in Keys, StoreLookup(w, k)
    PROVE  OneInv(w)'
<1>1. PICK ttl \in TTLs, ok \in BOOLEAN :
         /\ Access(ok)
         /\ call' = [call EXCEPT ![w] =
               CallOf("store", k, [created |-> now, ttl |-> ttl])]
         /\ IF StoreKnown(w, k, ok)
            THEN Goto(w, "set")
            ELSE Goto(w, "sweep")
  BY DEF StoreLookup
<1>2. PICK e \in Entry : e = [created |-> now, ttl |-> ttl] /\ e.created = now
  <2>1. [created |-> now, ttl |-> ttl] \in Entry
    BY DEF Entry, TypeInv
  <2>2. [created |-> now, ttl |-> ttl].created = now
    OBVIOUS
  <2> QED
    BY <2>1, <2>2
<1>3. PICK c \in Call : /\ c = CallOf("store", k, e)
                        /\ c.op = "store" /\ c.key = k /\ c.entry = e /\ c.todo = {}
  BY NewCall
<1>4. call'[w] = c
  BY <1>1, <1>2, <1>3, CallFacts
<1>5. PICK label \in {"set", "sweep"} : /\ pc'[w] = label
                                        /\ label = "set" <=> StoreKnown(w, k, ok)
  BY <1>1, Arrives
<1>6. /\ pc[w] = "idle" /\ db' = db /\ heap' = heap /\ now' = now
      /\ restarts' = restarts
  BY DEF StoreLookup
<1>7. MishapsGrow /\ ~ok => faults' > 0
  BY <1>1, <1>6, AccessMishaps
<1>8. RowsInv' /\ ReachInv(w)'
  <2>1. Reach(w)' = Reach(w)
    BY <1>5, <1>6 DEF Reach, Hand, InHeap
  <2>2. Live' = Live
    BY <1>6 DEF Live
  <2> QED
    BY <1>1, <1>6, <2>1, <2>2, AccessMishaps, QuietRows DEF OneInv
<1>9. CallInv(w)'
  <2>1. label = "set" => k \in Live'
    BY <1>5, <1>6 DEF StoreKnown, Live
  <2>2. label = "sweep" => k \notin Live' \/ faults' > 0
    BY <1>1, <1>5, <1>6, AccessMishaps DEF StoreKnown, Live
  <2> QED
    BY <1>3, <1>4, <1>5, <2>1, <2>2 DEF CallInv
<1>10. OrderInv(w)'
  BY <1>5 DEF OrderInv
<1>11. StampInv(w)'
  <2>1. now <= now
    BY DEF TypeInv
  <2> QED
    BY <1>2, <1>3, <1>4, <1>6, <2>1 DEF OneInv, StampInv, Live
<1> QED
  BY <1>8, <1>9, <1>10, <1>11 DEF OneInv

LEMMA RetrieveReadOne ==
    ASSUME TypeInv, NEW w \in Workers, OneInv(w), NEW k \in Keys, RetrieveRead(w, k)
    PROVE  OneInv(w)'
<1>1. k \in Live /\ db[k] \in Entry
  BY DEF RetrieveRead, TypeInv, Live
<1>2. PICK c \in Call : /\ c = CallOf("retrieve", k, db[k])
                        /\ c.op = "retrieve" /\ c.key = k /\ c.entry = db[k]
                        /\ c.todo = {}
  BY <1>1, NewCall
<1>3. call'[w] = c
  BY <1>2, CallFacts DEF RetrieveRead
<1>4. PICK label \in {"set", "expire"} : /\ pc'[w] = label
                                         /\ label = "expire" => HasExpired(db[k])
  BY Arrives DEF RetrieveRead
<1>5. /\ pc[w] = "idle" /\ db' = db /\ heap' = heap /\ now' = now
      /\ restarts' = restarts /\ faults' = faults
  BY DEF RetrieveRead
<1>6. RowsInv' /\ ReachInv(w)'
  <2>1. Reach(w)' = Reach(w)
    BY <1>4, <1>5 DEF Reach, Hand, InHeap
  <2> QED
    BY <1>5, <2>1 DEF OneInv, RowsInv, ReachInv, Unreached, Live, Mishaps
<1>7. CallInv(w)'
  <2>1. k \in Live' /\ db'[k] = db[k]
    BY <1>1, <1>5 DEF Live
  <2>2. label = "expire" => Gone(k)'
    BY <1>4, <1>5 DEF Gone, HasExpired
  <2> QED
    BY <1>2, <1>3, <1>4, <2>1, <2>2 DEF CallInv
<1>8. OrderInv(w)'
  BY <1>4 DEF OrderInv
<1>9. StampInv(w)'
  BY <1>1, <1>2, <1>3, <1>5 DEF OneInv, StampInv, Live
<1> QED
  BY <1>6, <1>7, <1>8, <1>9 DEF OneInv

LEMMA GetStatsOne ==
    ASSUME TypeInv, NEW w \in Workers, OneInv(w), GetStats(w)
    PROVE  OneInv(w)'
<1>1. PICK c \in Call : /\ c = CallOf("stats", Absent, Absent)
                        /\ c.op = "stats" /\ c.todo = {}
  BY NewCall
<1>2. call'[w] = c /\ pc'[w] = "sweep"
  BY <1>1, CallFacts, Arrives DEF GetStats
<1>3. /\ pc[w] = "idle" /\ db' = db /\ heap' = heap /\ now' = now
      /\ restarts' = restarts /\ faults' = faults
  BY DEF GetStats
<1>4. RowsInv' /\ ReachInv(w)'
  <2>1. Reach(w)' = Reach(w)
    BY <1>2, <1>3 DEF Reach, Hand, InHeap
  <2> QED
    BY <1>3, <2>1 DEF OneInv, RowsInv, ReachInv, Unreached, Live, Mishaps
<1>5. CallInv(w)' /\ OrderInv(w)'
  BY <1>1, <1>2 DEF CallInv, OrderInv
<1>6. StampInv(w)'
  BY <1>1, <1>2, <1>3 DEF OneInv, StampInv, Live
<1> QED
  BY <1>4, <1>5, <1>6 DEF OneInv

LEMMA SweepReadOne ==
    ASSUME TypeInv, NEW w \in Workers, OneInv(w), SweepRead(w)
    PROVE  OneInv(w)'
<1>1. PICK ok \in BOOLEAN, found \in SUBSET Dead :
         /\ Access(ok)
         /\ IF found # {}
            THEN /\ call' = [call EXCEPT ![w].todo = found]
                 /\ Goto(w, "delete")
            ELSE IF call[w].op = "store"
            THEN Goto(w, "room") /\ UNCHANGED call
            ELSE Finish(w)
  BY DEF SweepRead
<1>2. /\ pc[w] = "sweep" /\ db' = db /\ heap' = heap /\ now' = now
      /\ restarts' = restarts
  BY DEF SweepRead
<1>3. /\ MishapsGrow
      /\ faults > 0 => faults' > 0
  BY <1>1, <1>2, AccessMishaps
<1>4. Live' = Live
  BY <1>2 DEF Live
<1>5. ASSUME pc'[w] \in {"delete", "room", "idle"}
      PROVE  RowsInv' /\ ReachInv(w)'
  <2>1. Reach(w)' = Reach(w)
    BY <1>2, <1>5 DEF Reach, Hand, InHeap
  <2> QED
    BY <1>2, <1>3, <1>4, <2>1, QuietRows DEF OneInv
<1>6. CASE found # {}
  <2>1. found \in SUBSET Keys
    BY DEF Dead, Live
  <2>2. PICK c \in Call : /\ c = [call[w] EXCEPT !.todo = found] /\ c.todo = found
                          /\ c.op = call[w].op /\ c.key = call[w].key
                          /\ c.entry = call[w].entry
    <3>1. call[w] \in Call
      BY CallFacts
    <3> DEFINE d == [call[w] EXCEPT !.todo = found]
    <3>2. d \in Call /\ d.todo = found /\ d.op = call[w].op /\ d.key = call[w].key
          /\ d.entry = call[w].entry
      BY <2>1, <3>1, CallWithTodo
    <3> QED
      BY <3>2
  <2>3. call'[w] = c /\ pc'[w] = "delete"
    BY <1>1, <1>6, <2>2, CallFacts, Arrives
  <2>4. \A k \in found : Gone(k)'
    BY <1>2 DEF Dead, Gone, HasExpired
  <2>5. CallInv(w)' /\ OrderInv(w)'
    BY <1>2, <1>3, <1>4, <2>2, <2>3, <2>4 DEF OneInv, CallInv, OrderInv
  <2>6. StampInv(w)'
    BY <1>2, <1>4, <2>2, <2>3, StampsKept
  <2> QED
    BY <1>5, <2>3, <2>5, <2>6 DEF OneInv
<1>7. CASE found = {} /\ call[w].op = "store"
  <2>1. call' = call /\ pc'[w] = "room"
    BY <1>1, <1>7, Arrives
  <2>2. call[w].todo = {}
    BY <1>2, CallFacts DEF CallFits
  <2>3. CallInv(w)' /\ OrderInv(w)'
    BY <1>2, <1>3, <1>4, <2>1, <2>2 DEF OneInv, CallInv, OrderInv
  <2>4. StampInv(w)'
    BY <1>2, <1>4, <2>1, StampsKept
  <2> QED
    BY <1>5, <2>1, <2>3, <2>4 DEF OneInv
<1>8. CASE found = {} /\ call[w].op # "store"
  <2>1. pc'[w] = "idle" /\ call'[w] = NoCall
    BY <1>1, <1>8, Departs
  <2>2. StampInv(w)'
    BY <1>2, <1>4, <2>1, NoCallIs, StampsKept
  <2> QED
    BY <1>5, <2>1, <2>2, EndedCall DEF OneInv
<1> QED
  BY <1>6, <1>7, <1>8

LEMMA SweepDeleteOne ==
    ASSUME TypeInv, NEW w \in Workers, OneInv(w), SweepDelete(w)
    PROVE  OneInv(w)'
<1>1. PICK k \in call[w].todo, ok \in BOOLEAN :
         /\ Access(ok)
         /\ db' = IF ok THEN Without(db, {k}) ELSE db
         /\ IF call[w].todo # {k}
            THEN call' = [call EXCEPT ![w].todo = @ \ {k}] /\ UNCHANGED pc
            ELSE IF call[w].op = "store"
            THEN call' = [call EXCEPT ![w].todo = {}] /\ Goto(w, "room")
            ELSE Finish(w)
  BY DEF SweepDelete
<1>2. /\ pc[w] = "delete" /\ heap' = heap /\ now' = now /\ restarts' = restarts
      /\ now \in Nat
  BY DEF SweepDelete, TypeInv
<1>3. MishapsGrow /\ (faults > 0 => faults' > 0)
  BY <1>1, <1>2, AccessMishaps
<1>4. /\ Live' \subseteq Live /\ \A j \in Live' : db'[j] = db[j]
      /\ \A j \in Keys : db'[j] \in {db[j], Absent}
  <2>1. CASE ok
    BY <1>1, <2>1, WithoutRows
  <2>2. CASE ~ok
    BY <1>1, <2>2 DEF Live
  <2> QED
    BY <2>1, <2>2
<1>5. \A j \in call[w].todo : Gone(j)'
  <2>1. now <= now
    BY <1>2
  <2> QED
    BY <1>2, <1>4, <2>1, GoneStays, CallFacts DEF OneInv, CallInv
<1>6. ASSUME pc'[w] \in {"delete", "room", "idle"}
      PROVE  RowsInv' /\ ReachInv(w)'
  <2>1. Reach(w)' = Reach(w)
    BY <1>2, <1>6 DEF Reach, Hand, InHeap
  <2> QED
    BY <1>3, <1>4, <2>1, QuietRows DEF OneInv
<1>7. ASSUME NEW T \in SUBSET call[w].todo, call' = [call EXCEPT ![w].todo = T],
             pc'[w] \in {"delete", "room"}
      PROVE  OneInv(w)'
  <2>1. PICK c \in Call : /\ c = [call[w] EXCEPT !.todo = T] /\ c.todo = T
                          /\ c.op = call[w].op /\ c.key = call[w].key
                          /\ c.entry = call[w].entry
    <3>1. call[w] \in Call /\ T \in SUBSET Keys
      BY CallFacts
    <3> DEFINE d == [call[w] EXCEPT !.todo = T]
    <3>2. d \in Call /\ d.todo = T /\ d.op = call[w].op /\ d.key = call[w].key
          /\ d.entry = call[w].entry
      BY <3>1, CallWithTodo
    <3> QED
      BY <3>2
  <2>2. call'[w] = c
    BY <1>7, <2>1, CallFacts
  <2>3. CallInv(w)' /\ OrderInv(w)'
    BY <1>2, <1>3, <1>4, <1>5, <1>7, <2>1, <2>2 DEF OneInv, CallInv, OrderInv
  <2>4. StampInv(w)'
    BY <1>2, <1>4, <2>1, <2>2, StampsKept
  <2> QED
    BY <1>6, <1>7, <2>3, <2>4 DEF OneInv
<1>8. CASE call[w].todo # {k}
  BY <1>1, <1>2, <1>7, <1>8
<1>9. CASE call[w].todo = {k} /\ call[w].op = "store"
  <2>1. pc'[w] = "room" /\ call' = [call EXCEPT ![w].todo = {}]
    BY <1>1, <1>9, Arrives
  <2>2. {} \in SUBSET call[w].todo
    OBVIOUS
  <2> QED
    BY <1>7, <2>1, <2>2
<1>10. CASE call[w].todo = {k} /\ call[w].op # "store"
  <2>1. pc'[w] = "idle" /\ call'[w] = NoCall
    BY <1>1, <1>10, Departs
  <2>2. StampInv(w)'
    BY <1>2, <1>4, <2>1, NoCallIs, StampsKept
  <2> QED
    BY <1>6, <2>1, <2>2, EndedCall DEF OneInv
<1> QED
  BY <1>8, <1>9, <1>10

LEMMA RebuildOne ==
    ASSUME TypeInv, NEW w \in Workers, OneInv(w), Rebuild(w)
    PROVE  OneInv(w)'
<1>1. PICK ok \in BOOLEAN :
         /\ Access(ok)
         /\ heap' = [heap EXCEPT ![w] =
               SetToBag(IF ok THEN {PairOf(k, db[k]) : k \in Live} ELSE {})]
  BY DEF Rebuild
<1>2. /\ pc[w] = "room" /\ db' = db /\ call' = call /\ now' = now
      /\ restarts' = restarts /\ pc'[w] = "count"
  BY Arrives DEF Rebuild
<1>3. /\ MishapsGrow /\ (faults > 0 => faults' > 0)
      /\ ~ok => Mishaps + 1 <= Mishaps'
  BY <1>1, <1>2, AccessMishaps
<1>4. Live' = Live
  BY <1>2 DEF Live
<1>5. RowsInv' /\ ReachInv(w)'
  <2>1. CASE ok
    <3>1. InHeap(w)' = {PairOf(k, db[k]) : k \in Live}
      BY <1>1, <2>1, RebuiltPairs, CallFacts DEF InHeap
    <3>2. Unreached(w)' = {}
      BY <1>2, <1>4, <3>1 DEF Unreached, Reach, PairOf
    <3> QED
      BY <1>2, <1>3, <1>4, <3>2, RowsGo DEF OneInv
  <2>2. CASE ~ok
    BY <1>3, <1>4, <2>2, MishapPays DEF OneInv
  <2> QED
    BY <2>1, <2>2
<1>6. call[w].todo = {}
  BY <1>2, CallFacts DEF CallFits
<1>7. CallInv(w)' /\ OrderInv(w)'
  BY <1>2, <1>3, <1>4, <1>6 DEF OneInv, CallInv, OrderInv
<1>8. StampInv(w)'
  BY <1>2, <1>4, StampsKept
<1> QED
  BY <1>5, <1>7, <1>8 DEF OneInv

\* A count that finds no victim has room for one more row, or a mishap made it.
LEMMA CheckRoomOne ==
    ASSUME TypeInv, NEW w \in Workers, OneInv(w), CheckRoom(w)
    PROVE  OneInv(w)'
<1>1. PICK ok \in BOOLEAN :
         /\ Access(ok)
         /\ IF ok /\ Full /\ InHeap(w) # {}
            THEN \E p \in InHeap(w) :
                   /\ \A q \in InHeap(w) : p.created <= q.created
                   /\ heap' = [heap EXCEPT ![w] = OutOfHeap(w, p)]
                   /\ call' = [call EXCEPT ![w].pair = p]
                   /\ Goto(w, "victim")
            ELSE Goto(w, "set") /\ UNCHANGED <<heap, call>>
  BY DEF CheckRoom
<1>2. /\ pc[w] \in {"room", "count"} /\ db' = db /\ now' = now /\ restarts' = restarts
  BY DEF CheckRoom
<1>3. /\ call[w] \in Call /\ call[w].todo = {} /\ call[w].op = "store"
      /\ call[w].key \notin Live \/ faults > 0
  BY <1>2, CallFacts DEF CallFits, OneInv, CallInv
<1>4. /\ MishapsGrow /\ (faults > 0 => faults' > 0)
      /\ ok => Mishaps' = Mishaps
      /\ ~ok => Mishaps + 1 <= Mishaps'
  BY <1>1, <1>2, AccessMishaps
<1>5. Live' = Live
  BY <1>2 DEF Live
<1>6. Reach(w) = InHeap(w)
  BY <1>2 DEF Reach, Hand
<1>7. CASE ok /\ Full /\ InHeap(w) # {}
  <2>1. PICK p \in InHeap(w) :
           /\ \A q \in InHeap(w) : p.created <= q.created
           /\ heap' = [heap EXCEPT ![w] = OutOfHeap(w, p)]
           /\ call' = [call EXCEPT ![w].pair = p]
           /\ Goto(w, "victim")
    BY <1>1, <1>7
  <2>2. p \in Pair /\ IsABag(heap[w])
    BY CallFacts
  <2>3. PICK c \in Call : /\ c = [call[w] EXCEPT !.pair = p]
                          /\ c.todo = call[w].todo /\ c.pair = p
                          /\ c.op = call[w].op /\ c.key = call[w].key
                          /\ c.entry = call[w].entry
    <3> DEFINE d == [call[w] EXCEPT !.pair = p]
    <3>1. d \in Call /\ d.todo = call[w].todo /\ d.pair = p
          /\ d.op = call[w].op /\ d.key = call[w].key /\ d.entry = call[w].entry
      BY <1>3, <2>2, CallWithPair
    <3> QED
      BY <3>1
  <2>4. call'[w] = c /\ pc'[w] = "victim"
    BY <2>1, <2>3, CallFacts, Arrives
  <2>5. InHeap(w)' \subseteq InHeap(w) /\ InHeap(w) \subseteq InHeap(w)' \union {p}
    BY <2>1, <2>2, PopProperties, CallFacts DEF OutOfHeap, InHeap
  <2>6. Reach(w) \subseteq Reach(w)'
    BY <1>6, <2>3, <2>4, <2>5 DEF Reach, Hand
  <2>7. RowsInv' /\ ReachInv(w)'
    BY <1>2, <1>4, <1>5, <2>6, QuietRows DEF OneInv
  <2>8. Full'
    BY <1>5, <1>7 DEF Full
  <2>9. CallInv(w)'
    BY <1>3, <1>4, <1>5, <2>3, <2>4, <2>8 DEF CallInv
  <2>10. OrderInv(w)'
    BY <2>1, <2>3, <2>4, <2>5 DEF OrderInv
  <2>11. StampInv(w)'
    BY <1>2, <1>5, <2>3, <2>4, StampsKept
  <2> QED
    BY <2>7, <2>9, <2>10, <2>11 DEF OneInv
<1>8. CASE ~(ok /\ Full /\ InHeap(w) # {})
  <2>1. heap' = heap /\ call' = call /\ pc'[w] = "set"
    BY <1>1, <1>8, Arrives
  <2>2. /\ Mishaps \in Nat /\ Mishaps' \in Nat /\ Mishaps <= Mishaps'
        /\ MaxEntries \in Nat \ {0} /\ Cardinality(Live) \in Nat
        /\ Cardinality(Live) <= MaxEntries + Mishaps
    BY <1>4, MishapsCount, FS_CardinalityType DEF OneInv, RowsInv
  <2>3. Cardinality(Live) < MaxEntries + Mishaps'
    <3>1. CASE ~ok
      BY <1>4, <2>2, <3>1
    <3>2. CASE ~Full
      BY <2>2, <3>2 DEF Full
    <3>3. CASE InHeap(w) = {}
      <4>1. Unreached(w) = Live
        BY <1>6, <3>3 DEF Unreached
      <4>2. Cardinality(Live) <= MaxEntries + Mishaps - 1
        BY <4>1 DEF OneInv, ReachInv
      <4> QED
        BY <2>2, <4>2
    <3> QED
      BY <1>8, <3>1, <3>2, <3>3
  <2>4. Reach(w)' = Reach(w)
    BY <1>2, <2>1 DEF Reach, Hand, InHeap
  <2>5. RowsInv' /\ ReachInv(w)'
    BY <1>2, <1>4, <1>5, <2>4, QuietRows DEF OneInv
  <2>6. CallInv(w)' /\ OrderInv(w)'
    BY <1>3, <1>5, <2>1, <2>3 DEF CallInv, OrderInv
  <2>7. StampInv(w)'
    BY <1>2, <1>5, <2>1, StampsKept
  <2> QED
    BY <2>5, <2>6, <2>7 DEF OneInv
<1> QED
  BY <1>7, <1>8

LEMMA VictimOne ==
    ASSUME TypeInv, NEW w \in Workers, OneInv(w), Victim(w)
    PROVE  OneInv(w)'
<1>1. PICK ok \in BOOLEAN :
         /\ Access(ok)
         /\ IF ok /\ Matches(call[w].pair) THEN Goto(w, "evict") ELSE Goto(w, "count")
  BY DEF Victim
<1>2. /\ pc[w] = "victim" /\ db' = db /\ heap' = heap /\ call' = call /\ now' = now
      /\ restarts' = restarts
  BY DEF Victim
<1>3. /\ call[w].todo = {} /\ call[w].op = "store" /\ call[w].pair \in Pair
      /\ call[w].key \notin Live \/ faults > 0
  BY <1>2, CallFacts DEF CallFits, OneInv, CallInv
<1>4. /\ MishapsGrow /\ (faults > 0 => faults' > 0)
      /\ ~ok => Mishaps + 1 <= Mishaps'
  BY <1>1, <1>2, AccessMishaps
<1>5. Live' = Live /\ (Full => Full')
  BY <1>2 DEF Live, Full
<1>6. StampInv(w)'
  BY <1>2, <1>5, StampsKept
<1>7. CASE ok /\ Matches(call[w].pair)
  <2>1. pc'[w] = "evict"
    BY <1>1, <1>7, Arrives
  <2>2. Reach(w)' = Reach(w)
    BY <1>2, <2>1 DEF Reach, Hand, InHeap
  <2>3. RowsInv' /\ ReachInv(w)'
    BY <1>2, <1>4, <1>5, <2>2, QuietRows DEF OneInv
  <2>4. CallInv(w)' /\ OrderInv(w)'
    BY <1>2, <1>3, <1>4, <1>5, <1>7, <2>1
       DEF OneInv, CallInv, OrderInv, InHeap, Matches
  <2> QED
    BY <1>6, <2>3, <2>4 DEF OneInv
<1>8. CASE ~(ok /\ Matches(call[w].pair))
  <2>1. pc'[w] = "count"
    BY <1>1, <1>8, Arrives
  <2>2. RowsInv' /\ ReachInv(w)'
    <3>1. CASE ~ok
      BY <1>4, <1>5, <3>1, MishapPays DEF OneInv
    <3>2. CASE ~Matches(call[w].pair)
      <4>1. \A k \in Live : PairOf(k, db[k]) # call[w].pair
        BY <3>2, PairOfNames DEF Matches, Live
      <4>2. Unreached(w)' \subseteq Unreached(w)
        BY <1>2, <1>5, <2>1, <4>1 DEF Unreached, Reach, Hand, InHeap, PairOf
      <4> QED
        BY <1>4, <1>5, <4>2, RowsGo DEF OneInv
    <3> QED
      BY <1>8, <3>1, <3>2
  <2>3. CallInv(w)' /\ OrderInv(w)'
    BY <1>2, <1>3, <1>4, <1>5, <2>1 DEF CallInv, OrderInv
  <2> QED
    BY <1>6, <2>2, <2>3 DEF OneInv
<1> QED
  BY <1>7, <1>8

LEMMA EvictOne ==
    ASSUME TypeInv, NEW w \in Workers, OneInv(w), Evict(w)
    PROVE  OneInv(w)'
<1>1. PICK ok \in BOOLEAN :
         /\ Access(ok)
         /\ db' = IF ok THEN Without(db, {call[w].pair.key}) ELSE db
  BY DEF Evict
<1>2. /\ pc[w] = "evict" /\ heap' = heap /\ call' = call /\ now' = now
      /\ restarts' = restarts /\ pc'[w] = "count"
  BY Arrives DEF Evict
<1>3. /\ call[w].todo = {} /\ call[w].op = "store" /\ call[w].pair \in Pair
      /\ call[w].key \notin Live \/ faults > 0
  BY <1>2, CallFacts DEF CallFits, OneInv, CallInv
<1>4. /\ MishapsGrow /\ (faults > 0 => faults' > 0)
      /\ ~ok => Mishaps + 1 <= Mishaps'
  BY <1>1, <1>2, AccessMishaps
<1>5. Live' \subseteq Live /\ \A k \in Live' : db'[k] = db[k]
  <2>1. CASE ok
    BY <1>1, <2>1, WithoutRows
  <2>2. CASE ~ok
    BY <1>1, <2>2 DEF Live
  <2> QED
    BY <2>1, <2>2
<1>6. RowsInv' /\ ReachInv(w)'
  <2>1. CASE ok
    <3>1. ASSUME NEW k \in Live'
          PROVE  PairOf(k, db[k]) # call[w].pair
      <4>1. k # call[w].pair.key
        BY <1>1, <2>1, WithoutRows
      <4> QED
        BY <4>1, PairOfNames
    <3>2. ASSUME NEW k \in Unreached(w)'
          PROVE  k \in Unreached(w)
      <4>1. k \in Live' /\ PairOf(k, db'[k]) \notin InHeap(w)'
        BY DEF Unreached, Reach, PairOf
      <4>2. PairOf(k, db[k]) \notin Reach(w)
        BY <1>2, <1>5, <3>1, <4>1 DEF Reach, Hand, InHeap
      <4> QED
        BY <1>5, <4>1, <4>2 DEF Unreached
    <3> QED
      BY <1>4, <1>5, <3>2, RowsGo DEF OneInv
  <2>2. CASE ~ok
    BY <1>4, <1>5, <2>2, MishapPays DEF OneInv
  <2> QED
    BY <2>1, <2>2
<1>7. CallInv(w)' /\ OrderInv(w)'
  BY <1>2, <1>3, <1>4, <1>5 DEF CallInv, OrderInv
<1>8. StampInv(w)'
  BY <1>2, <1>5, StampsKept
<1> QED
  BY <1>6, <1>7, <1>8 DEF OneInv

LEMMA SetOne ==
    ASSUME TypeInv, NEW w \in Workers, OneInv(w), Set(w)
    PROVE  OneInv(w)'
<1> DEFINE k == call[w].key
           e == call[w].entry
<1>1. PICK ok \in BOOLEAN :
         /\ Access(ok)
         /\ db' = IF ok THEN [db EXCEPT ![k] = e] ELSE db
         /\ \/ Finish(w)
            \/ ok /\ Goto(w, "purge") /\ UNCHANGED call
  BY DEF Set
<1>2. /\ pc[w] = "set" /\ now' = now /\ restarts' = restarts
      /\ heap' = IF call[w].op = "store"
                 THEN [heap EXCEPT ![w] = heap[w] (+) SetToBag({PairOf(k, e)})]
                 ELSE heap
  BY DEF Set
<1>3. /\ call[w].todo = {} /\ call[w].op \in {"store", "retrieve"}
      /\ k \in Keys /\ e \in Entry /\ e # Absent /\ e.created <= now
      /\ k \in Live \/ Cardinality(Live) < MaxEntries + Mishaps
      /\ call[w].op = "retrieve" => db[k] = e
  BY <1>2, CallFacts, AbsentAssumption DEF CallFits, OneInv, CallInv, StampInv
<1> HIDE DEF k, e
<1>4. MishapsGrow
  BY <1>1, <1>2, AccessMishaps
<1>5. /\ pc'[w] \in {"idle", "purge"}
      /\ \/ pc'[w] = "idle" /\ call'[w] = NoCall
         \/ pc'[w] = "purge" /\ call' = call
  BY <1>1, Departs, Arrives
<1>6. Reach(w) = InHeap(w) /\ Reach(w)' = InHeap(w)'
  BY <1>2, <1>5 DEF Reach, Hand
<1>7. /\ InHeap(w) \subseteq InHeap(w)'
      /\ call[w].op = "store" => PairOf(k, e) \in InHeap(w)'
  <2>1. CASE call[w].op = "store"
    <3>1. BagToSet(heap[w] (+) SetToBag({PairOf(k, e)}))
             = BagToSet(heap[w]) \union {PairOf(k, e)}
      BY PushProperties, CallFacts
    <3>2. heap'[w] = heap[w] (+) SetToBag({PairOf(k, e)})
      BY <1>2, <2>1, CallFacts
    <3> QED
      BY <3>1, <3>2 DEF InHeap
  <2>2. CASE call[w].op # "store"
    BY <1>2, <2>2 DEF InHeap
  <2> QED
    BY <2>1, <2>2
<1>8. CASE ok /\ call[w].op = "store"
  <2>1. /\ Live' = Live \union {k} /\ db'[k] = e
        /\ \A j \in Keys : j # k => db'[j] = db[j]
    BY <1>1, <1>3, <1>8 DEF TypeInv, Live
  <2>2. RowsInv'
    BY <1>3, <1>4, <2>1, RowComes DEF OneInv
  <2>3. ASSUME NEW j \in Unreached(w)'
        PROVE  j \in Unreached(w)
    <3>1. j \in Live' /\ PairOf(j, db'[j]) \notin InHeap(w)'
      BY <1>6 DEF Unreached, PairOf
    <3>2. j # k
      BY <1>7, <1>8, <2>1, <3>1
    <3>3. j \in Live /\ db'[j] = db[j]
      BY <2>1, <3>1, <3>2 DEF Live
    <3> QED
      BY <1>6, <1>7, <3>1, <3>3 DEF Unreached
  <2>4. ReachInv(w)'
    BY <1>4, <2>3, ReachKept DEF OneInv
  <2>5. CallInv(w)' /\ OrderInv(w)'
    BY <1>3, <1>5, EndedCall DEF CallInv, OrderInv
  <2>6. StampInv(w)'
    BY <1>2, <1>3, <1>5, <2>1, NoCallIs DEF OneInv, StampInv, Live, e
  <2> QED
    BY <2>2, <2>4, <2>5, <2>6 DEF OneInv
<1>9. CASE ~(ok /\ call[w].op = "store")
  <2>1. db' = db /\ Live' = Live
    BY <1>1, <1>3, <1>9 DEF TypeInv, Live
  <2>2. RowsInv' /\ ReachInv(w)'
    BY <1>4, <1>6, <1>7, <2>1, QuietRows DEF OneInv
  <2>3. CallInv(w)' /\ OrderInv(w)'
    BY <1>3, <1>5, EndedCall DEF CallInv, OrderInv
  <2>4. StampInv(w)'
    BY <1>2, <1>5, <2>1, NoCallIs DEF OneInv, StampInv
  <2> QED
    BY <2>2, <2>3, <2>4 DEF OneInv
<1> QED
  BY <1>8, <1>9

\* The calls that end with a delete.
LEMMA LastDeleteOne ==
    ASSUME TypeInv, NEW w \in Workers, OneInv(w), Purge(w) \/ ExpireDelete(w)
    PROVE  OneInv(w)'
<1>1. PICK ok \in BOOLEAN, K \in SUBSET Keys :
         Access(ok) /\ db' = IF ok THEN Without(db, K) ELSE db
  <2>1. Dead \in SUBSET Keys /\ {call[w].key} \intersect Keys \in SUBSET Keys
    BY DEF Dead, Live
  <2>2. CASE Purge(w)
    BY <2>1, <2>2 DEF Purge
  <2>3. CASE ExpireDelete(w)
    <3>1. call[w].key \in Keys
      BY <2>3, CallFacts DEF ExpireDelete, CallFits
    <3> QED
      BY <2>3, <3>1 DEF ExpireDelete
  <2> QED
    BY <2>2, <2>3
<1>2. /\ pc[w] \in {"purge", "expire"} /\ heap' = heap /\ now' = now
      /\ restarts' = restarts /\ pc'[w] = "idle" /\ call'[w] = NoCall
  BY Departs DEF Purge, ExpireDelete
<1>3. Live' \subseteq Live /\ \A k \in Live' : db'[k] = db[k]
  <2>1. CASE ok
    BY <1>1, <2>1, WithoutRows
  <2>2. CASE ~ok
    BY <1>1, <2>2 DEF Live
  <2> QED
    BY <2>1, <2>2
<1>4. Reach(w)' = Reach(w)
  BY <1>2 DEF Reach, Hand, InHeap
<1>5. RowsInv' /\ ReachInv(w)'
  BY <1>1, <1>2, <1>3, <1>4, AccessMishaps, QuietRows DEF OneInv
<1>6. StampInv(w)'
  BY <1>2, <1>3, NoCallIs, StampsKept
<1> QED
  BY <1>2, <1>5, <1>6, EndedCall DEF OneInv

LEMMA ClearOne ==
    ASSUME TypeInv, NEW w \in Workers, OneInv(w), Clear(w)
    PROVE  OneInv(w)'
<1>1. PICK ok \in BOOLEAN :
         Access(ok) /\ db' = IF ok THEN [k \in Keys |-> Absent] ELSE db
  BY DEF Clear
<1>2. /\ pc[w] = "idle" /\ pc' = pc /\ call' = call /\ now' = now
      /\ restarts' = restarts
  BY DEF Clear
<1>3. /\ MishapsGrow /\ (faults > 0 => faults' > 0)
      /\ ~ok => Mishaps + 1 <= Mishaps'
  BY <1>1, <1>2, AccessMishaps
<1>4. Live' \subseteq Live /\ \A k \in Live' : db'[k] = db[k]
  BY <1>1 DEF Live
<1>5. RowsInv' /\ ReachInv(w)'
  <2>1. CASE ok
    <3>1. Unreached(w)' = {}
      BY <1>1, <2>1 DEF Unreached, Live
    <3> QED
      BY <1>3, <1>4, <3>1, RowsGo DEF OneInv
  <2>2. CASE ~ok
    BY <1>3, <1>4, <2>2, MishapPays DEF OneInv
  <2> QED
    BY <2>1, <2>2
<1>6. call[w].todo = {}
  BY <1>2, CallFacts DEF CallFits
<1>7. CallInv(w)' /\ OrderInv(w)'
  BY <1>2, <1>3, <1>4, <1>6 DEF OneInv, CallInv, OrderInv
<1>8. StampInv(w)'
  BY <1>2, <1>4, StampsKept
<1> QED
  BY <1>5, <1>7, <1>8 DEF OneInv

LEMMA RestartOne ==
    ASSUME TypeInv, NEW w \in Workers, OneInv(w), Restart(w)
    PROVE  OneInv(w)'
<1>1. /\ db' = Without(db, Dead) /\ now' = now
      /\ pc'[w] = "idle" /\ call'[w] = NoCall
  BY Departs DEF Restart
<1>2. PICK r \in Nat, f \in Nat : r = restarts /\ f = faults
  BY DEF TypeInv
<1>3. restarts' = r + 1 /\ faults' = f
  BY <1>2 DEF Restart
<1>4. r + 1 \in Nat /\ r <= r + 1 /\ r < r + 1 /\ f <= f
  OBVIOUS
<1>5. MishapsGrow /\ restarts < restarts'
  BY <1>2, <1>3, <1>4 DEF MishapsGrow
<1>6. Mishaps + 1 <= Mishaps'
  BY <1>5, MishapsCount
<1>7. Live' \subseteq Live /\ \A k \in Live' : db'[k] = db[k]
  BY <1>1, WithoutRows
<1>8. RowsInv' /\ ReachInv(w)'
  BY <1>5, <1>6, <1>7, MishapPays DEF OneInv
<1>9. StampInv(w)'
  BY <1>1, <1>7, NoCallIs, StampsKept
<1> QED
  BY <1>1, <1>8, <1>9, EndedCall DEF OneInv

LEMMA OneStep ==
    ASSUME TypeInv, NEW w, Workers = {w}, OneInv(w), [Next]_vars
    PROVE  OneInv(w)'
<1>1. w \in Workers /\ \A v \in Workers : v = w
  OBVIOUS
<1>2. CASE UNCHANGED vars
  BY <1>2 DEF OneInv, RowsInv, ReachInv, CallInv, OrderInv, StampInv, Unreached, Reach,
              Hand, InHeap, Live, Full, Gone, HasExpired, Mishaps, Matches
<1>3. CASE Tick
  BY <1>1, <1>3, TickOne
<1>4. CASE Step(w)
  BY <1>1, <1>4, SweepReadOne, SweepDeleteOne, RebuildOne, CheckRoomOne, VictimOne,
     EvictOne, SetOne, LastDeleteOne DEF Step
<1>5. CASE GetStats(w) \/ Clear(w) \/ Restart(w)
  BY <1>1, <1>5, GetStatsOne, ClearOne, RestartOne
<1>6. CASE \E k \in Keys : StoreLookup(w, k) \/ RetrieveRead(w, k)
  BY <1>1, <1>6, StoreLookupOne, RetrieveReadOne
<1> QED
  BY <1>1, <1>2, <1>3, <1>4, <1>5, <1>6 DEF Next

LEMMA OneInit ==
    ASSUME NEW w, Workers = {w}, Init
    PROVE  OneInv(w)
<1>1. /\ Live = {} /\ pc[w] = "idle" /\ call[w] = NoCall /\ Mishaps = 0
  BY DEF Init, Live, Mishaps
<1>2. IsFiniteSet(Live) /\ Cardinality(Live) = 0 /\ Unreached(w) = {}
  BY <1>1, FS_EmptySet DEF Unreached
<1>3. RowsInv /\ ReachInv(w)
  BY <1>1, <1>2, FS_EmptySet, SharedAssumption DEF RowsInv, ReachInv
<1>4. CallInv(w) /\ OrderInv(w) /\ StampInv(w)
  BY <1>1, NoCallIs DEF CallInv, OrderInv, StampInv
<1> QED
  BY <1>3, <1>4 DEF OneInv

OneWorker == \E w : Workers = {w}

IInv == TypeInv /\ \A w \in Workers : OneInv(w)

LEMMA OneInvariant ==
    ASSUME OneWorker
    PROVE  Spec => []IInv
<1>1. PICK w : Workers = {w}
  BY DEF OneWorker
<1>2. Init => IInv
  BY <1>1, InitTypes, OneInit DEF IInv
<1>3. IInv /\ [Next]_vars => TypeInv' /\ OneInv(w)'
  BY <1>1, TypesStep, OneStep DEF IInv
<1>4. IInv /\ [Next]_vars => IInv'
  BY <1>1, <1>3 DEF IInv
<1> QED
  BY <1>2, <1>4, PTL DEF Spec

-----------------------------------------------------------------------------
(* One worker: what it may do to the table *)

\* Every access of the worker but these leaves the table alone, and so does an
\* access that fails.
TableSteps(w) ==
    \/ \E k \in call[w].todo : pc[w] = "delete" /\ db' = Without(db, {k})
    \/ pc[w] = "expire" /\ db' = Without(db, {call[w].key})
    \/ db' = Without(db, Dead)
    \/ pc[w] = "evict" /\ db' = Without(db, {call[w].pair.key})
    \/ pc[w] = "set" /\ db' = [db EXCEPT ![call[w].key] = call[w].entry]
    \/ pc' = pc /\ db' = [k \in Keys |-> Absent]

LEMMA TableChanges ==
    ASSUME TypeInv, NEW w, Workers = {w}, [Next]_vars, db' # db
    PROVE  now' = now /\ TableSteps(w)
<1>1. \A v \in Workers : v = w
  OBVIOUS
<1>2. CASE Step(w)
  BY <1>2 DEF Step, SweepRead, SweepDelete, Rebuild, CheckRoom, Victim, Evict, Set, Purge,
              ExpireDelete, TableSteps
<1>3. CASE GetStats(w) \/ Clear(w) \/ Restart(w)
  BY <1>3 DEF GetStats, Clear, Restart, TableSteps
<1>4. CASE \E k \in Keys : StoreLookup(w, k) \/ RetrieveRead(w, k)
  BY <1>4 DEF StoreLookup, RetrieveRead
<1> QED
  BY <1>1, <1>2, <1>3, <1>4 DEF Next, Tick

\* What a step may do to a row that has not expired.
LEMMA FreshLossStep ==
    ASSUME TypeInv, NEW w, Workers = {w}, OneInv(w), [Next]_vars, FreshLosses # {}
    PROVE  \/ ClearedAll /\ pc' = pc
           \/ /\ Full
              /\ \E v \in Workers :
                    call[v].op = "store" /\ (call[v].key \notin Live \/ faults > 0)
<1>1. PICK j \in Live : db'[j] = Absent /\ ~HasExpired(db[j])
  BY DEF FreshLosses
<1>2. j \in Keys /\ db[j] # Absent /\ ~Gone(j)
  BY <1>1 DEF Live, Gone
<1>3. TableSteps(w)
  BY <1>1, <1>2, TableChanges
<1>4. \A K : db' = Without(db, K) => j \in K
  BY <1>1, <1>2 DEF Without
<1>5. CASE pc[w] = "evict"
  <2>1. call[w].op = "store"
    BY <1>5, CallFacts DEF CallFits
  <2> QED
    BY <1>5, <2>1 DEF OneInv, CallInv
<1>6. CASE pc[w] = "set" /\ db' = [db EXCEPT ![call[w].key] = call[w].entry]
  <2>1. call[w].entry \in Entry
    BY <1>6, CallFacts DEF CallFits
  <2> QED
    BY <1>1, <1>2, <1>6, <2>1, AbsentAssumption DEF TypeInv
<1>7. CASE pc' = pc /\ db' = [k \in Keys |-> Absent]
  BY <1>7 DEF ClearedAll
<1>8. CASE \E k \in call[w].todo : db' = Without(db, {k})
  BY <1>2, <1>4, <1>8 DEF OneInv, CallInv
<1>9. CASE pc[w] = "expire" /\ db' = Without(db, {call[w].key})
  BY <1>2, <1>4, <1>9 DEF OneInv, CallInv
<1>10. CASE db' = Without(db, Dead)
  BY <1>1, <1>4, <1>10 DEF Dead
<1> QED
  BY <1>3, <1>5, <1>6, <1>7, <1>8, <1>9, <1>10 DEF TableSteps

\* Before the first mishap no access has failed.
LEMMA NoMishapYet ==
    ASSUME TypeInv, [Next]_vars, restarts' = 0, faults' = 0
    PROVE  restarts = 0 /\ faults = 0
<1>1. PICK r \in Nat, f \in Nat : r = restarts /\ f = faults
  BY DEF TypeInv
<1>2. ASSUME NEW ok \in BOOLEAN, Access(ok)
      PROVE  faults' = f \/ faults' = f + 1
  BY <1>1, <1>2 DEF Access
<1>3. restarts' = r \/ restarts' = r + 1
  BY <1>1 DEF Next, Tick, Step, SweepRead, SweepDelete, Rebuild, CheckRoom, Victim, Evict,
       Set, Purge, ExpireDelete, GetStats, Clear, Restart, StoreLookup, RetrieveRead
<1>4. ASSUME NEW w \in Workers, Step(w)
      PROVE  faults' = f \/ faults' = f + 1
  BY <1>2, <1>4
     DEF Step, SweepRead, SweepDelete, Rebuild, CheckRoom, Victim, Evict, Set, Purge,
         ExpireDelete
<1>5. ASSUME NEW w \in Workers, NEW k \in Keys, StoreLookup(w, k) \/ RetrieveRead(w, k)
      PROVE  faults' = f \/ faults' = f + 1
  BY <1>1, <1>2, <1>5 DEF StoreLookup, RetrieveRead
<1>6. Tick \/ UNCHANGED vars => faults' = f
  BY <1>1 DEF Tick
<1>7. faults' = f \/ faults' = f + 1
  <2>1. ASSUME NEW w \in Workers, GetStats(w) \/ Clear(w) \/ Restart(w)
        PROVE  faults' = f \/ faults' = f + 1
    BY <1>1, <1>2, <2>1 DEF GetStats, Clear, Restart
  <2> QED
    BY <1>4, <1>5, <1>6, <2>1 DEF Next
<1> QED
  BY <1>1, <1>3, <1>7

\* The abstract module counts with its own copy of FiniteSets.
LEMMA SameCardinality == \A S : Promise!Cardinality(S) = Cardinality(S)
BY DEF Promise!Cardinality, Cardinality

LEMMA PromiseView ==
    /\ Promise!Stored = Live
    /\ \A k \in Keys : Promise!Lapsed(k) <=> HasExpired(db[k])
BY DEF Promise!Stored, Promise!Lapsed, Live, HasExpired

\* Rows that have expired, or were gone already, are given up.
LEMMA PromiseExpire ==
    ASSUME TypeInv, NEW K, \A k \in K : k \in Keys /\ Gone(k), now' = now,
           db' = Without(db, K)
    PROVE  Promise!PromiseNext
<1> DEFINE S == {k \in K : db[k] # Absent}
<1>1. S \in SUBSET Keys
  OBVIOUS
<1>2. \A k \in S : db[k] # Absent /\ Promise!Lapsed(k)
  BY PromiseView DEF Gone
<1>3. db' = [k \in Keys |-> IF k \in S THEN Absent ELSE db[k]]
  BY DEF Without
<1>4. Promise!Expire(S)
  BY <1>2, <1>3 DEF Promise!Expire
<1> QED
  BY <1>1, <1>4 DEF Promise!PromiseNext

\* Without a mishap the victim is the oldest row of a table that is just full.
LEMMA PromiseEvict ==
    ASSUME TypeInv, NEW w \in Workers, OneInv(w), pc[w] = "evict", Mishaps = 0,
           now' = now, db' = Without(db, {call[w].pair.key})
    PROVE  Promise!PromiseNext
<1> DEFINE k == call[w].pair.key
<1>1. call[w].pair \in Pair /\ Matches(call[w].pair)
  BY CallFacts DEF CallFits, OneInv, OrderInv
<1>2. k \in Live /\ k \in Keys /\ PairOf(k, db[k]) = call[w].pair
  BY <1>1, PairOfMatch DEF Live
<1>3. Cardinality(Live) = MaxEntries
  <2>1. Cardinality(Live) >= MaxEntries
    BY DEF OneInv, CallInv, Full
  <2>2. Cardinality(Live) <= MaxEntries + 0
    BY DEF OneInv, RowsInv
  <2>3. Cardinality(Live) \in Nat /\ MaxEntries \in Nat
    BY FS_CardinalityType, SharedAssumption DEF OneInv, RowsInv
  <2> QED
    BY <2>1, <2>2, <2>3
<1>4. ASSUME NEW j \in Live
      PROVE  db[k].created <= db[j].created
  <2>1. PairOf(j, db[j]) \in InHeap(w) \union {call[w].pair}
    BY DEF OneInv, ReachInv, Unreached, Reach, Hand
  <2>2. call[w].pair.created <= PairOf(j, db[j]).created
    <3>1. CASE PairOf(j, db[j]) \in InHeap(w)
      BY <3>1 DEF OneInv, OrderInv
    <3>2. CASE PairOf(j, db[j]) = call[w].pair
      <4>1. call[w].pair.created \in Nat
        BY <1>1 DEF Pair
      <4> QED
        BY <3>2, <4>1
    <3> QED
      BY <2>1, <3>1, <3>2
  <2> QED
    BY <1>2, <2>2, PairOfNames
<1>5. db' = [db EXCEPT ![k] = Absent]
  BY DEF Without, TypeInv
<1>6. Promise!EvictOldest(k)
  <2>1. db[k] # Absent
    BY <1>2 DEF Live
  <2>2. Promise!Cardinality(Promise!Stored) = MaxEntries
    BY <1>3, PromiseView, SameCardinality
  <2>3. \A j \in Promise!Stored : db[k].created <= db[j].created
    BY <1>4, PromiseView
  <2> QED
    BY <1>5, <2>1, <2>2, <2>3 DEF Promise!EvictOldest
<1> QED
  BY <1>2, <1>6 DEF Promise!PromiseNext

\* A row enters where there is room, or overwrites the row of its hash.
LEMMA PromiseSet ==
    ASSUME TypeInv, NEW w \in Workers, OneInv(w), pc[w] = "set", Mishaps = 0,
           now' = now, db' = [db EXCEPT ![call[w].key] = call[w].entry]
    PROVE  Promise!PromiseNext
<1> DEFINE k == call[w].key
           e == call[w].entry
<1>1. k \in Keys /\ e \in Entry /\ e.created <= now
  BY CallFacts DEF CallFits, OneInv, StampInv
<1>2. k \in Live \/ Cardinality(Live) < MaxEntries
  <2>1. k \in Live \/ Cardinality(Live) < MaxEntries + 0
    BY DEF OneInv, CallInv
  <2> QED
    BY <2>1, SharedAssumption
<1> HIDE DEF k, e
<1>3. PICK t \in 0..now, ttl \in TTLs : e = [created |-> t, ttl |-> ttl]
  <2>1. e = [created |-> e.created, ttl |-> e.ttl] /\ e.created \in Nat /\ e.ttl \in TTLs
    BY <1>1 DEF Entry
  <2>2. e.created \in 0..now
    BY <1>1, <2>1 DEF TypeInv
  <2> QED
    BY <2>1, <2>2
<1>4. db' = [db EXCEPT ![k] = [created |-> t, ttl |-> ttl]]
  BY <1>3 DEF k, e
<1>5. CASE k \in Live
  <2>1. Promise!Overwrite(k)
    BY <1>4, <1>5 DEF Promise!Overwrite, Live
  <2> QED
    BY <1>1, <2>1 DEF Promise!PromiseNext
<1>6. CASE k \notin Live
  <2>1. Promise!Cardinality(Promise!Stored) < MaxEntries
    BY <1>2, <1>6, PromiseView, SameCardinality
  <2>2. db[k] = Absent
    BY <1>1, <1>6 DEF Live
  <2>3. Promise!Insert(k)
    BY <1>4, <2>1, <2>2 DEF Promise!Insert
  <2> QED
    BY <1>1, <2>3 DEF Promise!PromiseNext
<1> QED
  BY <1>5, <1>6

LEMMA PromiseStep ==
    ASSUME TypeInv, NEW w, Workers = {w}, OneInv(w), [Next]_vars,
           restarts' = 0, faults' = 0
    PROVE  Promise!PromiseNext \/ UNCHANGED <<now, db>>
<1>1. w \in Workers
  OBVIOUS
<1>2. Mishaps = 0
  BY NoMishapYet DEF Mishaps
<1>3. CASE db' = db
  <2>1. UNCHANGED <<now, db>> \/ Tick
    BY <1>3 DEF Next, Step, SweepRead, SweepDelete, Rebuild, CheckRoom, Victim, Evict,
         Set, Purge, ExpireDelete, GetStats, Clear, Restart, StoreLookup, RetrieveRead
  <2>2. Tick => Promise!PromiseNext
    BY DEF Tick, Promise!PromiseNext, Promise!Advance
  <2> QED
    BY <2>1, <2>2
<1>4. CASE db' # db
  <2>1. now' = now /\ TableSteps(w)
    BY <1>4, TableChanges
  <2>2. CASE \E k \in call[w].todo : db' = Without(db, {k})
    BY <1>1, <2>1, <2>2, CallFacts, PromiseExpire DEF OneInv, CallInv
  <2>3. CASE pc[w] = "expire" /\ db' = Without(db, {call[w].key})
    <3>1. call[w].key \in Keys /\ Gone(call[w].key)
      BY <1>1, <2>3, CallFacts DEF CallFits, OneInv, CallInv
    <3> QED
      BY <2>1, <2>3, <3>1, PromiseExpire
  <2>4. CASE db' = Without(db, Dead)
    <3>1. \A k \in Dead : k \in Keys /\ Gone(k)
      BY DEF Dead, Live, Gone
    <3> QED
      BY <2>1, <2>4, <3>1, PromiseExpire
  <2>5. CASE pc[w] = "evict" /\ db' = Without(db, {call[w].pair.key})
    BY <1>1, <1>2, <2>1, <2>5, PromiseEvict
  <2>6. CASE pc[w] = "set" /\ db' = [db EXCEPT ![call[w].key] = call[w].entry]
    BY <1>1, <1>2, <2>1, <2>6, PromiseSet
  <2>7. CASE db' = [k \in Keys |-> Absent]
    BY <2>1, <2>7 DEF Promise!PromiseNext, Promise!ForgetAll
  <2> QED
    BY <2>1, <2>2, <2>3, <2>4, <2>5, <2>6, <2>7 DEF TableSteps
<1> QED
  BY <1>3, <1>4

-----------------------------------------------------------------------------
(* Theorems about one worker *)

\* A worker alone with its table overshoots max_entries by at most one row for
\* each time it was restarted or an access of its failed.
THEOREM OneWorkerCapacity ==
    ASSUME OneWorker
    PROVE  Spec => []OvershootPerMishap
<1>1. IInv => OvershootPerMishap
  <2>1. ASSUME IInv
        PROVE  OvershootPerMishap
    <3>1. Mishaps = restarts + faults /\ restarts \in Nat /\ faults \in Nat
      BY <2>1 DEF Mishaps, IInv, TypeInv
    <3>2. Cardinality(Live) <= MaxEntries + Mishaps /\ Cardinality(Live) \in Nat
      BY <2>1, FS_CardinalityType DEF OneWorker, IInv, OneInv, RowsInv
    <3> QED
      BY <3>1, <3>2, SharedAssumption DEF OvershootPerMishap
  <2> QED
    BY <2>1
<1> QED
  BY <1>1, OneInvariant, PTL

\* Whatever restarts and failures it goes through, it gives up an original that
\* has not expired only with the table full, for a hash that is not stored
\* unless an access has failed: never at a restart, never for a re-store.
THEOREM OneWorkerLoss ==
    ASSUME OneWorker
    PROVE  Spec => RoomForNewHashOnly
<1>1. IInv /\ [Next]_vars =>
        [FreshLosses # {} =>
           \/ ClearedAll /\ pc' = pc
           \/ /\ Full
              /\ \E w \in Workers :
                    call[w].op = "store" /\ (call[w].key \notin Live \/ faults > 0)]_vars
  BY FreshLossStep DEF OneWorker, IInv
<1> QED
  BY <1>1, OneInvariant, PTL DEF Spec, RoomForNewHashOnly

\* Until the first restart or failed access, the row by row work of its calls
\* keeps the promise of RedeemableStore.
THEOREM OneWorkerPromise ==
    ASSUME OneWorker
    PROVE  Spec => PromiseUntilMishap
<1>1. IInv /\ [Next]_vars =>
        [restarts' = 0 /\ faults' = 0 =>
           Promise!PromiseNext \/ UNCHANGED <<now, db>>]_vars
  BY PromiseStep DEF OneWorker, IInv
<1> QED
  BY <1>1, OneInvariant, PTL DEF Spec, PromiseUntilMishap

\* A worker that never restarts over a database that never fails implements the
\* same promise as the store over the in-memory backend.
THEOREM OneWorkerRefinement ==
    ASSUME OneWorker, MaxRestarts = 0, MaxFaults = 0
    PROVE  Spec => Promise!PromiseSpec
<1> DEFINE NoMishap == restarts = 0 /\ faults = 0
<1>1. Init => NoMishap /\ Promise!PromiseInit
  BY DEF Init, Promise!PromiseInit
<1>2. NoMishap /\ [Next]_vars => NoMishap'
  <2>1. ASSUME NEW ok \in BOOLEAN, Access(ok), faults = 0
        PROVE  faults' = 0
    BY <2>1 DEF Access
  <2>2. ASSUME NEW v \in Workers, Restart(v), restarts = 0
        PROVE  FALSE
    BY <2>2 DEF Restart
  <2>3. ASSUME NEW v \in Workers, Step(v), NoMishap
        PROVE  NoMishap'
    BY <2>1, <2>3
       DEF Step, SweepRead, SweepDelete, Rebuild, CheckRoom, Victim, Evict, Set, Purge,
           ExpireDelete
  <2>4. ASSUME NEW v \in Workers, NoMishap, GetStats(v) \/ Clear(v)
        PROVE  NoMishap'
    BY <2>1, <2>4 DEF GetStats, Clear
  <2>5. ASSUME NEW v \in Workers, NEW k \in Keys, NoMishap,
               StoreLookup(v, k) \/ RetrieveRead(v, k)
        PROVE  NoMishap'
    BY <2>1, <2>5 DEF StoreLookup, RetrieveRead
  <2>6. NoMishap /\ (Tick \/ UNCHANGED vars) => NoMishap'
    BY DEF Tick, vars
  <2> QED
    BY <2>2, <2>3, <2>4, <2>5, <2>6 DEF Next
<1>3. IInv /\ NoMishap /\ NoMishap' /\ [Next]_vars =>
        [Promise!PromiseNext]_(Promise!promiseVars)
  BY PromiseStep DEF OneWorker, IInv, Promise!promiseVars
<1> QED
  BY <1>1, <1>2, <1>3, OneInvariant, PTL DEF Spec, Promise!PromiseSpec
=============================================================================
