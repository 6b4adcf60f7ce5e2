---------------------- MODULE BackgroundCompressorProofs ----------------------
(***************************************************************************)
(* Proofs about BackgroundCompressor, for any set of sessions, any queue   *)
(* and any table of caches.  The queue facts need each other: a claim is   *)
(* given back by the drain alone, so that a claim is a job needs the job   *)
(* to be the only one of its session.                                      *)
(***************************************************************************)
EXTENDS BackgroundCompressor, SequenceTheorems, TLAPS

USE DEF vars, drainVars, cacheVars

-----------------------------------------------------------------------------
(* Sequences *)

\* What Append and Tail do to the positions of a sequence.
LEMMA Appended ==
    ASSUME NEW S, NEW q \in Seq(S), NEW x \in S
    PROVE  /\ Append(q, x) \in Seq(S) /\ Len(Append(q, x)) = Len(q) + 1
           /\ \A i \in 1..Len(q) : Append(q, x)[i] = q[i]
           /\ Append(q, x)[Len(q) + 1] = x
OBVIOUS

\* What taking the head of a job queue leaves of it.
LEMMA Tailed ==
    ASSUME NEW S, NEW q \in Seq(S), q # <<>>
    PROVE  /\ Tail(q) \in Seq(S) /\ Len(Tail(q)) = Len(q) - 1
           /\ Head(q) = q[1] /\ Head(q) \in S /\ Len(q) \in Nat /\ Len(q) >= 1
           /\ \A i \in 1..Len(q) - 1 : Tail(q)[i] = q[i + 1]
OBVIOUS

-----------------------------------------------------------------------------
(* The table of caches *)

\* What remains of the table has room, no cache twice, and all it has not dropped.
LEMMA KeptCaches ==
    ASSUME TypeOK, CachesOK
    PROVE  /\ Kept \in Seq(Sessions) /\ Len(Kept) < MaxCaches
           /\ \A i, j \in 1..Len(Kept) : Kept[i] = Kept[j] => i = j
           /\ \A i \in 1..Len(Kept) : Cached(Kept[i])
           /\ \A s \in Sessions : Cached(s) /\ s \notin Dropped =>
                 \E i \in 1..Len(Kept) : Kept[i] = s
<1> USE BackgroundCachesAssumption
<1>1. caches \in Seq(Sessions) /\ Len(caches) \in Nat /\ Len(caches) <= MaxCaches
  BY DEF TypeOK, CachesOK
<1>2. CASE Len(caches) < MaxCaches
  <2>1. Kept = caches /\ Dropped = {}
    BY <1>1, <1>2 DEF Kept, Dropped
  <2> QED
    BY <1>1, <1>2, <2>1 DEF Cached, CachesOK
<1>3. CASE Len(caches) = MaxCaches
  <2>1. Kept = SubSeq(caches, Evicted + 1, Len(caches))
    BY <1>1, <1>3 DEF Kept
  <2>2. Kept \in Seq(Sessions) /\ Len(Kept) = MaxCaches - Evicted
    BY <1>1, <1>3, <2>1
  <2>3. \A i \in 1..Len(Kept) : Kept[i] = caches[i + Evicted]
    BY <1>1, <1>3, <2>1, <2>2
  <2>4. \A i \in 1..Len(Kept) : i + Evicted \in 1..Len(caches)
    BY <1>1, <1>3, <2>2
  <2>5. \A i, j \in 1..Len(Kept) : Kept[i] = Kept[j] => i = j
    BY <2>2, <2>3, <2>4 DEF CachesOK
  <2>6. \A i \in 1..Len(Kept) : Cached(Kept[i])
    BY <2>3, <2>4 DEF Cached
  <2>7. ASSUME NEW s \in Sessions, Cached(s), s \notin Dropped
        PROVE  \E i \in 1..Len(Kept) : Kept[i] = s
    <3>1. PICK n \in 1..Len(caches) : caches[n] = s
      BY <2>7 DEF Cached
    <3>2. n > Evicted
      BY <1>1, <1>3, <2>7, <3>1 DEF Dropped
    <3>3. n - Evicted \in 1..Len(Kept) /\ Kept[n - Evicted] = s
      BY <1>1, <1>3, <2>2, <2>3, <3>1, <3>2
    <3> QED
      BY <3>3
  <2> QED
    BY <2>2, <2>5, <2>6, <2>7
<1> QED
  BY <1>1, <1>2, <1>3

-----------------------------------------------------------------------------
(* The inductive invariant *)

\* The compressor starts with no job, no claim and no drain.
LEMMA InitInv == Init => IndInv
<1> SUFFICES ASSUME Init PROVE IndInv
  OBVIOUS
<1> USE BackgroundSessionsAssumption, BackgroundQueueAssumption, BackgroundCachesAssumption
        DEF Init
<1>1. Len(<<>>) = 0 /\ <<>> \in Seq(Sessions)
  OBVIOUS
<1>2. TypeOK
  BY <1>1 DEF TypeOK
<1>3. ClaimsAreJobs /\ OneJobPerSession /\ JoinCountsJobs /\ DrainOK
  BY <1>1 DEF ClaimsAreJobs, OneJobPerSession, JoinCountsJobs, DrainOK, Queued
<1>4. CachesOK
  BY <1>1 DEF CachesOK, Cached
<1> QED
  BY <1>2, <1>3, <1>4 DEF IndInv

\* What a cold request does to the queue.
QueueInv == ClaimsAreJobs /\ OneJobPerSession /\ JoinCountsJobs /\ DrainOK

\* A job offered by a request is refused or appended under its own new claim.
LEMMA RequestQueue ==
    ASSUME TypeOK, QueueInv, NEW s \in Sessions, Enqueue(s), UNCHANGED <<task, current, stage>>
    PROVE  /\ queue' \in Seq(Sessions) /\ claimed' \subseteq Sessions /\ unfinished' \in Nat
           /\ claimed \subseteq claimed'
           /\ QueueInv'
<1> USE BackgroundSessionsAssumption, BackgroundQueueAssumption
        DEF QueueInv, TypeOK, ClaimsAreJobs, OneJobPerSession, JoinCountsJobs, DrainOK, Queued
<1>1. CASE s \in claimed \/ Len(queue) >= MaxQueue
  BY <1>1 DEF Enqueue
<1>2. CASE ~(s \in claimed \/ Len(queue) >= MaxQueue)
  <2>1. /\ claimed' = claimed \union {s} /\ unfinished' = unfinished + 1
        /\ queue' = Append(queue, s) /\ Len(queue) < MaxQueue
        /\ s \notin claimed /\ Len(queue) \in Nat
    BY <1>2 DEF Enqueue
  <2>2. /\ queue' \in Seq(Sessions) /\ Len(queue') = Len(queue) + 1
        /\ \A i \in 1..Len(queue) : queue'[i] = queue[i]
        /\ queue'[Len(queue) + 1] = s
    BY <2>1, Appended
  <2>3. s # current /\ \A i \in 1..Len(queue) : queue[i] # s
    BY <2>1
  <2>4. ClaimsAreJobs'
    <3>1. ASSUME NEW x \in Sessions
          PROVE  (\E i \in 1..Len(queue') : queue'[i] = x)
                    <=> x = s \/ \E i \in 1..Len(queue) : queue[i] = x
      BY <2>1, <2>2
    <3> QED
      BY <2>1, <3>1
  <2>5. OneJobPerSession'
    BY <2>1, <2>2, <2>3
  <2>6. JoinCountsJobs' /\ DrainOK'
    BY <2>1, <2>2
  <2> QED
    BY <2>1, <2>2, <2>4, <2>5, <2>6
<1> QED
  BY <1>1, <1>2

\* What it does to the table of caches.
LEMMA RequestCaches ==
    ASSUME TypeOK, CachesOK, NEW s \in Sessions, Request(s),
           claimed \subseteq claimed', claimed' \subseteq Sessions
    PROVE  /\ caches' \in Seq(Sessions) /\ compressed' \subseteq Sessions
           /\ attached' \subseteq Sessions
           /\ CachesOK'
<1> USE DEF TypeOK
<1>1. CASE Cached(s)
  <2>1. /\ caches' = caches /\ compressed' = compressed
        /\ attached' \subseteq attached \union {s} /\ attached' \subseteq claimed'
    BY <1>1 DEF Request, CachesOK
  <2> QED
    BY <1>1, <2>1 DEF CachesOK, Cached
<1>2. CASE ~Cached(s)
  <2>1. /\ caches' = Append(Kept, s) /\ compressed' = compressed \ Dropped
        /\ attached' \subseteq (attached \ Dropped) \union {s} /\ attached' \subseteq claimed'
    BY <1>2 DEF Request, CachesOK
  <2>2. /\ Kept \in Seq(Sessions) /\ Len(Kept) < MaxCaches /\ Len(Kept) \in Nat
        /\ \A i, j \in 1..Len(Kept) : Kept[i] = Kept[j] => i = j
        /\ \A i \in 1..Len(Kept) : Cached(Kept[i])
        /\ \A x \in Sessions : Cached(x) /\ x \notin Dropped =>
              \E i \in 1..Len(Kept) : Kept[i] = x
    BY KeptCaches
  <2>3. /\ caches' \in Seq(Sessions) /\ Len(caches') = Len(Kept) + 1
        /\ \A i \in 1..Len(Kept) : caches'[i] = Kept[i]
        /\ caches'[Len(Kept) + 1] = s
    BY <2>1, <2>2, Appended
  <2>4. \A i, j \in 1..Len(caches') : caches'[i] = caches'[j] => i = j
    BY <1>2, <2>2, <2>3
  <2>5. \A x \in compressed' \union attached' : Cached(x)'
    <3>1. SUFFICES ASSUME NEW x \in compressed' \union attached'
                   PROVE  \E i \in 1..Len(caches') : caches'[i] = x
      BY DEF Cached
    <3>2. CASE x = s
      BY <2>2, <2>3, <3>2
    <3>3. CASE x # s
      <4>1. Cached(x) /\ x \notin Dropped /\ x \in Sessions
        BY <2>1, <3>3 DEF CachesOK
      <4>2. PICK i \in 1..Len(Kept) : Kept[i] = x
        BY <2>2, <4>1
      <4> QED
        BY <2>2, <2>3, <4>2
    <3> QED
      BY <3>2, <3>3
  <2>6. Len(caches') <= MaxCaches
    BY <2>2, <2>3, BackgroundCachesAssumption
  <2> QED
    BY <2>1, <2>3, <2>4, <2>5, <2>6 DEF CachesOK
<1> QED
  BY <1>1, <1>2

\* The drain takes the oldest job: it stays its session's only one.
LEMMA TakeInv ==
    ASSUME IndInv, Take
    PROVE  IndInv'
<1> USE DEF IndInv, TypeOK, ClaimsAreJobs, OneJobPerSession, JoinCountsJobs, DrainOK, Queued
<1>1. /\ queue' \in Seq(Sessions) /\ Len(queue') = Len(queue) - 1
      /\ current' = queue[1] /\ current' \in Sessions /\ Len(queue) \in Nat /\ Len(queue) >= 1
      /\ \A i \in 1..Len(queue) - 1 : queue'[i] = queue[i + 1]
  BY Tailed DEF Take
<1>2. TypeOK'
  BY <1>1 DEF Take
<1>3. ClaimsAreJobs'
  <2>1. ASSUME NEW x \in Sessions, x # current', NEW i \in 1..Len(queue), queue[i] = x
        PROVE  \E j \in 1..Len(queue') : queue'[j] = x
    <3>1. i - 1 \in 1..Len(queue') /\ queue'[i - 1] = x
      BY <1>1, <2>1
    <3> QED
      BY <3>1
  <2>2. ASSUME NEW x \in Sessions, NEW j \in 1..Len(queue'), queue'[j] = x
        PROVE  \E i \in 1..Len(queue) : queue[i] = x
    <3>1. j + 1 \in 1..Len(queue) /\ queue[j + 1] = x
      BY <1>1, <2>2
    <3> QED
      BY <3>1
  <2>3. current = None /\ \A x \in Sessions : x # None
    BY BackgroundSessionsAssumption DEF Take
  <2>4. 1 \in 1..Len(queue) /\ queue[1] = current' /\ claimed' = claimed
    BY <1>1 DEF Take
  <2> QED
    BY <1>1, <2>1, <2>2, <2>3, <2>4
<1>4. OneJobPerSession'
  <2>1. \A i \in 1..Len(queue') :
           i \in Int /\ i + 1 \in 1..Len(queue) /\ i + 1 # 1 /\ queue'[i] = queue[i + 1]
    BY <1>1
  <2>2. 1 \in 1..Len(queue)
    BY <1>1
  <2>3. ASSUME NEW i \in 1..Len(queue'), NEW j \in 1..Len(queue'), queue'[i] = queue'[j]
        PROVE  i = j
    BY <2>1, <2>3
  <2>4. ASSUME NEW i \in 1..Len(queue'), queue'[i] = current'
        PROVE  FALSE
    BY <1>1, <2>1, <2>2, <2>4
  <2> QED
    BY <2>3, <2>4
<1>5. JoinCountsJobs' /\ DrainOK'
  BY <1>1, BackgroundSessionsAssumption, BackgroundQueueAssumption DEF Take
<1>6. CachesOK'
  BY DEF Take, CachesOK, Cached
<1> QED
  BY <1>2, <1>3, <1>4, <1>5, <1>6

\* Giving the taken job up, done or not, gives its claim up with it.
LEMMA JobGone ==
    ASSUME IndInv, current' = None, stage' = "none", task' \in {"none", "running", "joining"},
           orphan' \in BOOLEAN, claimed' = claimed \ {current}, attached' = attached \ {current},
           unfinished' = (IF current = None THEN unfinished ELSE unfinished - 1),
           compressed' \subseteq compressed \union (attached \intersect {current}),
           UNCHANGED <<queue, caches, starts>>
    PROVE  IndInv'
<1> USE BackgroundSessionsAssumption DEF IndInv, TypeOK
<1>1. TypeOK'
  BY DEF JoinCountsJobs
<1>2. ClaimsAreJobs'
  <2>1. \A x \in Sessions : (\E i \in 1..Len(queue) : queue[i] = x) => x # current
    BY DEF OneJobPerSession
  <2>2. \A x \in Sessions : x # None
    OBVIOUS
  <2> QED
    BY <2>1, <2>2 DEF ClaimsAreJobs, Queued
<1>3. OneJobPerSession'
  <2>1. \A i \in 1..Len(queue) : queue[i] \in Sessions /\ queue[i] # None
    OBVIOUS
  <2> QED
    BY <2>1 DEF OneJobPerSession
<1>4. JoinCountsJobs' /\ DrainOK'
  BY DEF JoinCountsJobs, DrainOK
<1>5. CachesOK'
  BY DEF CachesOK, Cached
<1> QED
  BY <1>1, <1>2, <1>3, <1>4, <1>5

\* Every step of a request, of the drain task or of stop() keeps the invariant.
LEMMA NextInv == IndInv /\ [Next]_vars => IndInv'
<1> SUFFICES ASSUME IndInv, [Next]_vars PROVE IndInv'
  OBVIOUS
<1>1. ASSUME NEW s \in Sessions, Request(s)
      PROVE  IndInv'
  <2>1. /\ queue' \in Seq(Sessions) /\ claimed' \subseteq Sessions /\ unfinished' \in Nat
        /\ claimed \subseteq claimed' /\ QueueInv'
    BY <1>1, RequestQueue DEF Request, IndInv, QueueInv
  <2>2. /\ caches' \in Seq(Sessions) /\ compressed' \subseteq Sessions
        /\ attached' \subseteq Sessions /\ CachesOK'
    BY <1>1, <2>1, RequestCaches DEF IndInv
  <2> QED
    BY <1>1, <2>1, <2>2 DEF IndInv, TypeOK, Request, QueueInv
<1>2. CASE Take
  BY <1>2, TakeInv
<1>3. CASE Settle
  <2>1. current # None
    BY <1>3 DEF Settle, IndInv, DrainOK
  <2> QED
    BY <1>3, <2>1, JobGone DEF Settle, Release, IndInv, TypeOK
<1>4. CASE JoinDone \/ JoinTimeout
  <2>1. CancelTask
    BY <1>4 DEF JoinDone, JoinTimeout
  <2> QED
    BY <2>1, JobGone DEF CancelTask, IndInv, TypeOK
<1>5. CASE Start \/ StopBegin \/ ThreadStart \/ ThreadEnd \/ OrphanEnds
  <2>1. UNCHANGED <<queue, claimed, current, unfinished, caches, compressed, attached>>
    BY <1>5 DEF Start, StopBegin, ThreadStart, ThreadEnd, OrphanEnds
  <2>2. /\ task' \in {"none", "running", "joining"} /\ orphan' \in BOOLEAN
        /\ stage' \in {"none", "submitted", "running", "returned", "raised"}
        /\ starts' \in Nat
    <3> USE DEF IndInv, TypeOK
    <3>1. CASE Start
      BY <3>1 DEF Start
    <3>2. CASE ThreadEnd
      BY <3>2 DEF ThreadEnd
    <3>3. CASE StopBegin \/ ThreadStart \/ OrphanEnds
      BY <3>3 DEF StopBegin, ThreadStart, OrphanEnds
    <3> QED
      BY <1>5, <3>1, <3>2, <3>3
  <2>3. DrainOK'
    BY <1>5, <2>1 DEF Start, StopBegin, ThreadStart, ThreadEnd, OrphanEnds, IndInv, DrainOK
  <2> QED
    BY <2>1, <2>2, <2>3 DEF IndInv, TypeOK, ClaimsAreJobs, OneJobPerSession, JoinCountsJobs,
       CachesOK, Queued, Cached
<1>6. CASE UNCHANGED vars
  BY <1>6 DEF IndInv, TypeOK, ClaimsAreJobs, OneJobPerSession, JoinCountsJobs, DrainOK,
              CachesOK, Queued, Cached
<1> QED
  BY <1>1, <1>2, <1>3, <1>4, <1>5, <1>6 DEF Next

-----------------------------------------------------------------------------
(* Theorems *)

\* The inductive invariant of the queue, its claims and the table of caches.
THEOREM BackgroundInvariance == Spec => []IndInv
<1>1. Init => IndInv
  BY InitInv
<1>2. IndInv /\ [Next]_vars => IndInv'
  BY NextInv
<1> QED
  BY <1>1, <1>2, PTL DEF Spec

\* enqueue() and _process_one() keep _pending and the jobs in step through every
\* stop and restart of the drain: no session is shut out by a claim without a job.
THEOREM ClaimsHold == Spec => []ClaimsAreJobs
<1>1. IndInv => ClaimsAreJobs
  BY DEF IndInv
<1> QED
  BY <1>1, BackgroundInvariance, PTL

\* The drain never has a session's job twice, nor queued behind itself.
THEOREM OneJob == Spec => []OneJobPerSession
<1>1. IndInv => OneJobPerSession
  BY DEF IndInv
<1> QED
  BY <1>1, BackgroundInvariance, PTL

\* stop()'s join() waits for exactly the jobs there are.
THEOREM JoinCounts == Spec => []JoinCountsJobs
<1>1. IndInv => JoinCountsJobs
  BY DEF IndInv
<1> QED
  BY <1>1, BackgroundInvariance, PTL
=============================================================================
