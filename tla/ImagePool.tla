------------------------------ MODULE ImagePool ------------------------------
(***************************************************************************)
(* proxy/image_isolation.py: image requests compress in a process pool of  *)
(* one worker, shared by all requests and replaced whenever one of them    *)
(* runs out of time, fails or crashes the worker.                          *)
(*                                                                         *)
(* The requests are tasks of the proxy's event loop.  Each pool has a      *)
(* manager thread of its own (concurrent.futures), which feeds the worker  *)
(* and completes the futures; a request notices its future later, when the *)
(* loop resumes it.                                                        *)
(***************************************************************************)
EXTENDS Naturals, Sequences, SequencesExt

CONSTANTS
    Requests,  \* image requests
    MaxPools,  \* bound: pools created
    Prefetch   \* call items a pool hands out ahead: its worker's and its call queue

Pools == 1..MaxPools
None  == 0

VARIABLES
    current,  \* _IMAGE_POOL, or None
    created,  \* pools created so far
    pending,  \* each pool: futures its manager can still cancel
    taken,    \* each pool: futures handed to the worker
    condition, \* each pool: "up", "shut" (shutdown() was called) or "broken"
    future,   \* each request's future
    answer    \* how each request went on: it has none yet, or with which messages

vars == <<current, created, pending, taken, condition, future, answer>>

NoFuture == [state |-> "none", pool |-> None]

Init ==
    /\ current = None /\ created = 0
    /\ pending = [p \in Pools |-> <<>>]
    /\ taken = [p \in Pools |-> <<>>]
    /\ condition = [p \in Pools |-> "up"]
    /\ future = [r \in Requests |-> NoFuture]
    /\ answer = [r \in Requests |-> "none"]

\* _reset_image_pool(): whichever pool is the current one now.
Reset(p) ==
    /\ current' = None
    /\ condition' = IF p = None \/ condition[p] = "broken" THEN condition
                    ELSE [condition EXCEPT ![p] = "shut"]

Answer(r, a) == answer' = [answer EXCEPT ![r] = a]

-----------------------------------------------------------------------------
(* run_image_compression_isolated() *)

\* _image_pool() and run_in_executor(); a broken pool refuses the job.
Submit(r) ==
    /\ answer[r] = "none" /\ future[r] = NoFuture
    /\ IF current # None /\ condition[current] = "broken"
       THEN /\ Answer(r, "original") /\ Reset(current)
            /\ UNCHANGED <<created, pending, future>>
       ELSE LET p == IF current = None THEN created + 1 ELSE current
            IN  /\ p \in Pools
                /\ current' = p
                /\ created' = IF current = None THEN p ELSE created
                /\ pending' = [pending EXCEPT ![p] = Append(@, r)]
                /\ future' = [future EXCEPT ![r] = [state |-> "waiting", pool |-> p]]
                /\ UNCHANGED <<condition, answer>>
    /\ UNCHANGED taken

\* The future is done and the event loop resumes the request.
Resume(r) ==
    /\ answer[r] = "none"
    /\ \/ /\ future[r].state = "result" /\ Answer(r, "compressed")
          /\ UNCHANGED <<current, condition>>
       \/ /\ future[r].state \in {"raised", "brokenPool"} /\ Answer(r, "original")
          /\ Reset(current)
       \/ \* CancelledError is no Exception: no handler here, none in the callers
          /\ future[r].state = "cancelled" /\ Answer(r, "cancelled")
          /\ UNCHANGED <<current, condition>>
    /\ UNCHANGED <<created, pending, taken, future>>

\* wait_for() runs out of time: it cancels the future, if that can be cancelled.
TimesOut(r) ==
    /\ answer[r] = "none" /\ future[r].state = "waiting"
    /\ Answer(r, "original") /\ Reset(current)
    /\ LET p == future[r].pool
       IN  IF r \in ToSet(pending[p])
           THEN \E i \in DOMAIN pending[p] :
                  pending[p][i] = r /\ pending' = [pending EXCEPT ![p] = RemoveAt(@, i)]
           ELSE UNCHANGED pending
    /\ UNCHANGED <<created, taken, future>>

-----------------------------------------------------------------------------
(* A pool's manager thread and its worker *)

Complete(R, state) ==
    future' = [r \in Requests |->
                 IF r \in R THEN [future[r] EXCEPT !.state = state] ELSE future[r]]

HandOut(p) ==
    /\ condition[p] # "broken" /\ pending[p] # <<>> /\ Len(taken[p]) < Prefetch
    /\ taken' = [taken EXCEPT ![p] = Append(@, Head(pending[p]))]
    /\ pending' = [pending EXCEPT ![p] = Tail(@)]
    /\ UNCHANGED <<current, created, condition, future, answer>>

\* The worker returns or raises.
WorkerEnds(p) ==
    /\ condition[p] # "broken" /\ taken[p] # <<>>
    /\ \E state \in {"result", "raised"} : Complete({Head(taken[p])}, state)
    /\ taken' = [taken EXCEPT ![p] = Tail(@)]
    /\ UNCHANGED <<current, created, pending, condition, answer>>

\* The worker process dies: every future of the pool fails.
WorkerDies(p) ==
    /\ condition[p] # "broken" /\ taken[p] # <<>>
    /\ Complete(ToSet(taken[p]) \union ToSet(pending[p]), "brokenPool")
    /\ taken' = [taken EXCEPT ![p] = <<>>] /\ pending' = [pending EXCEPT ![p] = <<>>]
    /\ condition' = [condition EXCEPT ![p] = "broken"]
    /\ UNCHANGED <<current, created, answer>>

\* After shutdown(cancel_futures=True) the manager cancels what is pending.
CancelPending(p) ==
    /\ condition[p] = "shut" /\ pending[p] # <<>>
    /\ Complete(ToSet(pending[p]), "cancelled")
    /\ pending' = [pending EXCEPT ![p] = <<>>]
    /\ UNCHANGED <<current, created, taken, condition, answer>>

Next ==
    \/ \E r \in Requests : Submit(r) \/ Resume(r) \/ TimesOut(r)
    \/ \E p \in Pools : HandOut(p) \/ WorkerEnds(p) \/ WorkerDies(p) \/ CancelPending(p)

Spec == Init /\ [][Next]_vars

-----------------------------------------------------------------------------
(* Properties *)

\* Whichever pools are reset, broken or out of date, a request that waits has
\* its job in one that still serves it: no reset, timeout or crash forgets the
\* job of another request.
JobsAreHeld ==
    \A r \in Requests : answer[r] = "none" /\ future[r].state = "waiting" =>
       LET p == future[r].pool
       IN  /\ condition[p] # "broken"
           /\ r \in ToSet(pending[p]) \union ToSet(taken[p])

\* _reset_image_pool() leaves no pool running that no request would find again.
NoPoolLeaks == \A p \in 1..created : p = current \/ condition[p] # "up"

\* What FailsOpen excludes happens to a request only after another one, of the
\* same pool or an older one, was itself sent on with its original messages.
CancelledByAnother ==
    \A r \in Requests : answer[r] = "cancelled" =>
       \E q \in Requests : answer[q] = "original" /\ future[q].pool \in 1..future[r].pool

-----------------------------------------------------------------------------
(* What a comment claims and the code does not do. *)

\* "Image compression is best-effort - fail open on timeout/error and forward the
\* original messages": no request that nobody cancels ends any other way.
FailsOpen == \A r \in Requests : answer[r] \in {"none", "compressed", "original"}
=============================================================================
