------------------------ MODULE BackgroundCompressor ------------------------
(***************************************************************************)
(* proxy/background_compression.py: compression off the request path.  A   *)
(* cold request enqueues a job for its session; one drain task runs the    *)
(* jobs on a thread of its own and stores each result in the session's     *)
(* compression cache (proxy/server.py, _get_compression_cache()), which    *)
(* the proxy may have evicted meanwhile.                                   *)
(*                                                                         *)
(* All but the thread's two steps run on the event loop; a step here is    *)
(* what the loop runs between two awaits.  A claimed session has at most   *)
(* one job, so a job is named by its session.                              *)
(***************************************************************************)
EXTENDS Integers, FiniteSets, SequencesExt

CONSTANTS
    Sessions,   \* the keys of the jobs
    None,       \* no job
    MaxQueue,   \* max_queue
    MaxCaches,  \* MAX_COMPRESSION_CACHE_SESSIONS
    Evicted,    \* how many caches a full table drops: a quarter
    MaxStarts   \* bound: how often the drain is started

ASSUME BackgroundSessionsAssumption == IsFiniteSet(Sessions) /\ None \notin Sessions
ASSUME BackgroundQueueAssumption    == MaxQueue \in Nat \ {0}
ASSUME BackgroundCachesAssumption   ==
    MaxCaches \in Nat \ {0} /\ Evicted \in Nat \ {0} /\ Evicted <= MaxCaches
ASSUME BackgroundBoundsAssumption   == MaxStarts \in Nat

VARIABLES
    task,      \* the drain task: none, running, or stop() waits in join()
    queue,     \* _queue
    claimed,   \* _pending
    current,   \* the job the drain has taken
    stage,     \* how far that job is
    orphan,    \* the thread still runs a job whose drain was cancelled
    unfinished,\* the queue's count of unfinished jobs, which join() waits for
    caches,    \* _compression_caches, oldest first
    compressed,\* sessions whose cache holds a background result
    attached,  \* sessions whose job will store into the cache in the table
    starts     \* bound: starts so far

drainVars == <<task, queue, claimed, current, stage, orphan, unfinished>>
cacheVars == <<caches, compressed, attached>>
vars == <<task, queue, claimed, current, stage, orphan, unfinished,
          caches, compressed, attached, starts>>

Queued(s) == \E i \in 1..Len(queue) : queue[i] = s
Cached(s) == \E i \in 1..Len(caches) : caches[i] = s

Init ==
    /\ task = "none"
    /\ queue = <<>>
    /\ claimed = {}
    /\ current = None
    /\ stage = "none"
    /\ orphan = FALSE
    /\ unfinished = 0
    /\ caches = <<>>
    /\ compressed = {}
    /\ attached = {}
    /\ starts = 0

-----------------------------------------------------------------------------
(* A cold request *)

\* The caches a new session's cache displaces.
Dropped == IF Len(caches) >= MaxCaches
           THEN {caches[i] : i \in 1..Evicted} ELSE {}
Kept    == IF Len(caches) >= MaxCaches
           THEN SubSeq(caches, Evicted + 1, Len(caches)) ELSE caches

\* mutant: a full queue keeps the claim
EnqueueKeepsClaim(s) ==
    IF s \in claimed THEN UNCHANGED <<queue, claimed, unfinished>>
    ELSE /\ claimed' = claimed \union {s}
         /\ IF Len(queue) < MaxQueue
            THEN queue' = Append(queue, s) /\ unfinished' = unfinished + 1
            ELSE UNCHANGED <<queue, unfinished>>

\* mutant: a claimed session is queued again
EnqueueAgain(s) ==
    IF Len(queue) >= MaxQueue THEN UNCHANGED <<queue, claimed, unfinished>>
    ELSE /\ claimed' = claimed \union {s}
         /\ queue' = Append(queue, s)
         /\ unfinished' = unfinished + 1

\* enqueue(): refused if the session is claimed or the queue is full.
Enqueue(s) ==
    IF s \in claimed \/ Len(queue) >= MaxQueue
    THEN UNCHANGED <<queue, claimed, unfinished>>
    ELSE /\ claimed' = claimed \union {s}
         /\ queue' = Append(queue, s)
         /\ unfinished' = unfinished + 1

\* The job is bound to the cache object the table holds now.
Request(s) ==
    /\ Enqueue(s)
    /\ IF Cached(s)
       THEN /\ attached' = IF s \in claimed THEN attached
                           ELSE IF s \in claimed' THEN attached \union {s} ELSE attached
            /\ UNCHANGED <<caches, compressed>>
       ELSE /\ caches' = Append(Kept, s)
            /\ compressed' = compressed \ Dropped
            /\ attached' = (attached \ Dropped)
                              \union (IF s \in claimed' \ claimed THEN {s} ELSE {})
    /\ UNCHANGED <<task, current, stage, orphan, starts>>

-----------------------------------------------------------------------------
(* The drain *)

Start ==
    /\ task = "none" /\ starts < MaxStarts
    /\ task' = "running"
    /\ starts' = starts + 1
    /\ UNCHANGED <<queue, claimed, current, stage, orphan, unfinished, cacheVars>>

Take ==
    /\ task # "none" /\ current = None /\ queue # <<>>
    /\ current' = Head(queue)
    /\ queue' = Tail(queue)
    /\ stage' = "submitted"
    /\ UNCHANGED <<task, claimed, orphan, unfinished, cacheVars, starts>>

\* The one thread of the background executor.
ThreadStart ==
    /\ stage = "submitted" /\ ~orphan
    /\ stage' = "running"
    /\ UNCHANGED <<task, queue, claimed, current, orphan, unfinished, cacheVars, starts>>

ThreadEnd ==
    /\ stage = "running"
    /\ stage' \in {"returned", "raised"}
    /\ UNCHANGED <<task, queue, claimed, current, orphan, unfinished, cacheVars, starts>>

OrphanEnds ==
    /\ orphan
    /\ orphan' = FALSE
    /\ UNCHANGED <<task, queue, claimed, current, stage, unfinished, cacheVars, starts>>

\* mutant: a job that raised keeps its session claimed
ReleaseIfReturned == IF stage = "returned" THEN {current} ELSE {}
\* The finally clause of _process_one().
Release == {current}

\* The result is stored, or the failure swallowed, and the job is done.
Settle ==
    /\ stage \in {"returned", "raised"}
    /\ compressed' = IF stage = "returned" /\ current \in attached
                     THEN compressed \union {current} ELSE compressed
    /\ claimed' = claimed \ Release
    /\ attached' = attached \ {current}
    /\ unfinished' = unfinished - 1
    /\ current' = None
    /\ stage' = "none"
    /\ UNCHANGED <<task, queue, orphan, caches, starts>>

-----------------------------------------------------------------------------
(* stop() *)

StopBegin ==
    /\ task = "running"
    /\ task' = "joining"
    /\ UNCHANGED <<queue, claimed, current, stage, orphan, unfinished, cacheVars, starts>>

\* The task is cancelled: the job it holds is given up and its session freed,
\* but a thread that runs it runs on, for nobody.
CancelTask ==
    /\ task' = "none"
    /\ current' = None
    /\ stage' = "none"
    /\ orphan' = (orphan \/ stage = "running")
    /\ claimed' = claimed \ {current}
    /\ attached' = attached \ {current}
    /\ unfinished' = IF current = None THEN unfinished ELSE unfinished - 1
    /\ UNCHANGED <<queue, caches, compressed, starts>>

JoinDone == task = "joining" /\ unfinished = 0 /\ CancelTask

JoinForever == FALSE  \* mutant: no timeout
JoinTimeout == task = "joining" /\ unfinished > 0 /\ CancelTask

Next ==
    \/ Start \/ Take \/ ThreadStart \/ ThreadEnd \/ OrphanEnds \/ Settle
    \/ StopBegin \/ JoinDone \/ JoinTimeout
    \/ \E s \in Sessions : Request(s)

Spec == Init /\ [][Next]_vars

\* The loop and the thread run on, join() has its timeout, and the compressors
\* terminate.  Nobody has to start or to stop the drain.
FairSpec ==
    /\ Spec
    /\ WF_vars(Take) /\ WF_vars(ThreadStart) /\ WF_vars(ThreadEnd)
    /\ WF_vars(OrphanEnds) /\ WF_vars(Settle)
    /\ WF_vars(JoinDone \/ JoinTimeout)

-----------------------------------------------------------------------------
(* Properties *)

\* Every variable stays in its type.
TypeOK ==
    /\ task \in {"none", "running", "joining"}
    /\ queue \in Seq(Sessions)
    /\ claimed \subseteq Sessions
    /\ current \in Sessions \union {None}
    /\ stage \in {"none", "submitted", "running", "returned", "raised"}
    /\ orphan \in BOOLEAN
    /\ unfinished \in Nat
    /\ caches \in Seq(Sessions)
    /\ compressed \subseteq Sessions
    /\ attached \subseteq Sessions
    /\ starts \in Nat

\* A session is claimed exactly as long as it has a job: a claim without a job
\* would shut it out of background compression for good.
ClaimsAreJobs == \A s \in Sessions : s \in claimed <=> Queued(s) \/ current = s

\* No session is queued twice, nor queued while its job runs.
OneJobPerSession ==
    /\ \A i, j \in 1..Len(queue) : queue[i] = queue[j] => i = j
    /\ \A i \in 1..Len(queue) : queue[i] # current

\* join() waits for exactly the jobs that are queued or taken.
JoinCountsJobs == unfinished = Len(queue) + (IF current = None THEN 0 ELSE 1)

\* The drain's place and its job agree.
DrainOK ==
    /\ stage = "none" <=> current = None
    /\ current # None => task # "none"
    /\ Len(queue) <= MaxQueue

\* A job stores into the table's cache only if that is there, and once only.
CachesOK ==
    /\ \A i, j \in 1..Len(caches) : caches[i] = caches[j] => i = j
    /\ \A s \in compressed \union attached : Cached(s)
    /\ attached \subseteq claimed
    /\ Len(caches) <= MaxCaches

IndInv ==
    /\ TypeOK /\ ClaimsAreJobs /\ OneJobPerSession /\ JoinCountsJobs
    /\ DrainOK /\ CachesOK

-----------------------------------------------------------------------------
(* Liveness *)

\* A session that is claimed becomes free again, or the drain is stopped.
ClaimsEnd == \A s \in Sessions : s \in claimed /\ task # "none" ~> s \notin claimed \/ task = "none"

\* stop() returns, whatever the queue holds.
StopEnds == task = "joining" ~> task = "none"
=============================================================================
