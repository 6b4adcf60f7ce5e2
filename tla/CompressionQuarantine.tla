------------------------ MODULE CompressionQuarantine ------------------------
(***************************************************************************)
(* proxy/server.py, _run_compression_in_executor(): request-path           *)
(* compression on a bounded thread pool, and the quarantine that refuses   *)
(* new work while a worker that outlived its request still runs.           *)
(*                                                                         *)
(* A call belongs to the event loop (its `waiter' side) and to a pool      *)
(* thread (its `worker' side).  Steps of the loop never interleave with    *)
(* one another, those of the threads interleave with everything; each      *)
(* block under _compression_metrics_lock is one step.  The counters that   *)
(* only feed the metrics (maxima, wait and run times) are left out.        *)
(***************************************************************************)
EXTENDS Integers, FiniteSets, SequencesExt

CONSTANTS
    Calls,      \* call slots; a slot is used again when its worker is through
    Workers,    \* compression_max_workers
    MaxCancels  \* bound: requests cancelled while they wait

ASSUME QuarantineCallsAssumption   == IsFiniteSet(Calls)
ASSUME QuarantineWorkersAssumption == Workers \in Nat \ {0}
ASSUME QuarantineBoundsAssumption  == MaxCancels \in Nat

VARIABLES
    waiter,    \* the loop's side of each call
    worker,    \* the thread's side of each call
    pool,      \* the executor's work queue, cancelled items included
    queued,    \* state["queued"] of each call
    timedOut,  \* state["timed_out"]
    debtNoted, \* state["timeout_debt_recorded"]
    gauge,     \* _compression_queued
    inFlight,  \* _compression_in_flight
    debt,      \* _compression_timed_out_in_flight
    leaked,    \* history: calls cancelled while still counted as queued
    cancels,   \* history: calls cancelled
    slipped    \* history: calls submitted since the quarantine was activated

loopVars   == <<waiter, pool>>
flagVars   == <<queued, timedOut, debtNoted>>
gaugeVars  == <<gauge, inFlight, debt>>
ghostVars  == <<leaked, cancels, slipped>>
vars == <<waiter, worker, pool, queued, timedOut, debtNoted, gauge, inFlight, debt,
          leaked, cancels, slipped>>

Init ==
    /\ waiter = [c \in Calls |-> "none"]
    /\ worker = [c \in Calls |-> "none"]
    /\ pool = <<>>
    /\ queued = [c \in Calls |-> FALSE]
    /\ timedOut = [c \in Calls |-> FALSE]
    /\ debtNoted = [c \in Calls |-> FALSE]
    /\ gauge = 0 /\ inFlight = 0 /\ debt = 0
    /\ leaked = 0 /\ cancels = 0 /\ slipped = 0

Waiter(c, label) == waiter' = [waiter EXCEPT ![c] = label]
Worker(c, label) == worker' = [worker EXCEPT ![c] = label]

\* No call is between its look at the debt and its submission: the loop is free.
LoopFree == \A c \in Calls : waiter[c] # "checked"

\* The threads of the pool that hold an item.
Busy == {c \in Calls : worker[c] \in {"picked", "running"}}

InPool(c) == \E i \in 1..Len(pool) : pool[i] = c

-----------------------------------------------------------------------------
(* The event loop's side *)

ClearOfItself(c) == ~timedOut[c]  \* mutant: only the call's own lateness counts
Clear(c) == debt = 0

\* Refused while debt is outstanding ...
Refuse(c) ==
    /\ LoopFree
    /\ waiter[c] = "none"
    /\ ~Clear(c)
    /\ UNCHANGED vars

\* ... else on to the submission.
Check(c) ==
    /\ LoopFree
    /\ waiter[c] = "none" /\ worker[c] = "none" /\ ~InPool(c)
    /\ Clear(c)
    /\ Waiter(c, "checked")
    /\ UNCHANGED <<worker, pool, flagVars, gaugeVars, ghostVars>>

Submit(c) ==
    /\ waiter[c] = "checked"
    /\ gauge' = gauge + 1
    /\ queued' = [queued EXCEPT ![c] = TRUE]
    /\ pool' = Append(pool, c)
    /\ Waiter(c, "waiting")
    /\ Worker(c, "pooled")
    /\ slipped' = IF debt > 0 THEN slipped + 1 ELSE slipped
    /\ UNCHANGED <<timedOut, debtNoted, inFlight, debt, leaked, cancels>>

\* The worker's result arrives in time.
Return(c) ==
    /\ LoopFree
    /\ waiter[c] = "waiting" /\ worker[c] = "finished"
    /\ Waiter(c, "done")
    /\ UNCHANGED <<worker, pool, flagVars, gaugeVars, ghostVars>>

\* An item no thread has picked can be cancelled; a picked one runs on.
CancelItem(c) == worker' = IF worker[c] = "pooled"
                           THEN [worker EXCEPT ![c] = "cancelled"] ELSE worker

\* wait_for() gives up and cancels the future ...
Expire(c) ==
    /\ LoopFree
    /\ waiter[c] = "waiting"
    /\ Waiter(c, "expired")
    /\ CancelItem(c)
    /\ UNCHANGED <<pool, flagVars, gaugeVars, ghostVars>>

UnqueuesTwice(c) == TRUE  \* mutant: both sides take the call off the gauge
Unqueues(c) == queued[c]

\* _record_timeout_debt_locked(), with the flags as the caller sets them
\* mutant: a worker that has finished counts, too
OwesFinished(c, late, started) == late /\ started /\ ~debtNoted[c]
Owes(c, late, started) ==
    late /\ started /\ worker[c] # "finished" /\ ~debtNoted[c]
NoteDebt(c, late, started) ==
    IF Owes(c, late, started)
    THEN /\ debt' = debt + 1
         /\ debtNoted' = [debtNoted EXCEPT ![c] = TRUE]
         /\ slipped' = IF debt = 0 THEN 0 ELSE slipped
    ELSE UNCHANGED <<debt, debtNoted, slipped>>

Started(c) == worker[c] \in {"running", "finished"}

\* ... and the except clause settles the gauges.
RecordTimeout(c) ==
    /\ LoopFree
    /\ waiter[c] = "expired"
    /\ timedOut' = [timedOut EXCEPT ![c] = TRUE]
    /\ queued' = [queued EXCEPT ![c] = FALSE]
    /\ gauge' = IF Unqueues(c) THEN gauge - 1 ELSE gauge
    /\ NoteDebt(c, TRUE, Started(c))
    /\ Waiter(c, "done")
    /\ UNCHANGED <<worker, pool, inFlight, leaked, cancels>>

\* The request's own task is cancelled: CancelledError is no TimeoutError, and
\* nothing is settled.
CancelCall(c) ==
    /\ LoopFree
    /\ cancels < MaxCancels
    /\ waiter[c] \in {"waiting", "expired"}
    /\ Waiter(c, "done")
    /\ CancelItem(c)
    /\ cancels' = cancels + 1
    /\ leaked' = IF worker[c] \in {"pooled", "cancelled"} THEN leaked + 1 ELSE leaked
    /\ UNCHANGED <<pool, flagVars, gaugeVars, slipped>>

-----------------------------------------------------------------------------
(* The pool thread's side *)

\* A thread takes the next item, and drops it if it was cancelled.
Pick ==
    /\ pool # <<>>
    /\ Cardinality(Busy) < Workers
    /\ pool' = Tail(pool)
    /\ worker' = IF worker[Head(pool)] = "cancelled" THEN worker
                 ELSE [worker EXCEPT ![Head(pool)] = "picked"]
    /\ UNCHANGED <<waiter, flagVars, gaugeVars, ghostVars>>

ForgetsLateness(c) == FALSE  \* mutant: a timeout before the start is forgotten
LateAtStart(c) == timedOut[c]

\* The first locked block of _wrapped().
Start(c) ==
    /\ worker[c] = "picked"
    /\ Worker(c, "running")
    /\ queued' = [queued EXCEPT ![c] = FALSE]
    /\ gauge' = IF Unqueues(c) THEN gauge - 1 ELSE gauge
    /\ inFlight' = inFlight + 1
    /\ NoteDebt(c, LateAtStart(c), TRUE)
    /\ UNCHANGED <<waiter, pool, timedOut, leaked, cancels>>

\* The locked block of its finally clause.
Finish(c) ==
    /\ worker[c] = "running"
    /\ Worker(c, "finished")
    /\ inFlight' = inFlight - 1
    /\ debt' = IF debtNoted[c] THEN debt - 1 ELSE debt
    /\ debtNoted' = [debtNoted EXCEPT ![c] = FALSE]
    /\ UNCHANGED <<waiter, pool, queued, timedOut, gauge, ghostVars>>

\* The slot stands for a new call once both sides are through.
Recycle(c) ==
    /\ waiter[c] = "done" /\ worker[c] \in {"finished", "cancelled"} /\ ~InPool(c)
    /\ Waiter(c, "none")
    /\ Worker(c, "none")
    /\ timedOut' = [timedOut EXCEPT ![c] = FALSE]
    /\ queued' = [queued EXCEPT ![c] = FALSE]
    /\ UNCHANGED <<pool, debtNoted, gaugeVars, ghostVars>>

Loop(c) ==
    \/ Refuse(c) \/ Check(c) \/ Submit(c)
    \/ Return(c) \/ Expire(c) \/ RecordTimeout(c) \/ CancelCall(c)
Thread(c) == Start(c) \/ Finish(c)

Next == Pick \/ \E c \in Calls : Loop(c) \/ Thread(c) \/ Recycle(c)

Spec == Init /\ [][Next]_vars

\* The loop settles what it has begun, threads take queued items, and the
\* compressors terminate.  No request has to arrive, and none has to be late.
FairSpec ==
    /\ Spec
    /\ WF_vars(Pick)
    /\ \A c \in Calls : WF_vars(Submit(c)) /\ WF_vars(RecordTimeout(c))
                        /\ WF_vars(Thread(c))

-----------------------------------------------------------------------------
(* Properties *)

\* Every variable stays in its type.
TypeOK ==
    /\ waiter \in [Calls -> {"none", "checked", "waiting", "expired", "done"}]
    /\ worker \in [Calls -> {"none", "pooled", "picked", "running", "finished", "cancelled"}]
    /\ pool \in Seq(Calls)
    /\ queued \in [Calls -> BOOLEAN]
    /\ timedOut \in [Calls -> BOOLEAN]
    /\ debtNoted \in [Calls -> BOOLEAN]
    /\ gauge \in Int /\ inFlight \in Int /\ debt \in Int
    /\ leaked \in Nat /\ cancels \in Nat /\ slipped \in Nat

\* The workers that outlive a call the loop has recorded as timed out.
Outliving == {c \in Calls : worker[c] = "running" /\ timedOut[c]}

\* The debt counts exactly these workers, however the timeout, the start and
\* the end of a run fall: none is missed, so the quarantine holds, and none is
\* counted for ever, so it ends.
DebtIsExact == debt = Cardinality(Outliving)

\* The calls that wait for a thread, and those given up but not yet settled.
Waiting == {c \in Calls :
    \/ worker[c] \in {"pooled", "picked"} /\ ~timedOut[c]
    \/ worker[c] = "cancelled" /\ waiter[c] = "expired"}

\* The queued gauge counts the calls that wait for a thread, plus, for good,
\* one for each request cancelled before a thread took its call.
GaugeIsExact == gauge = leaked + Cardinality(Waiting)

\* At most one call slips past a quarantine: the one that had looked at the
\* debt when a worker that was already late reported its start.
OneSlip == debt > 0 => slipped <= 1

-----------------------------------------------------------------------------
(* The inductive invariant *)

\* How the two sides of a call fit together.
SidesOK ==
    \A c \in Calls :
        /\ waiter[c] \in {"none", "checked"} <=> worker[c] = "none"
        /\ worker[c] = "cancelled" => waiter[c] \in {"expired", "done"}
        /\ waiter[c] = "expired" => worker[c] # "pooled"
        /\ waiter[c] = "done" => worker[c] # "pooled"
        /\ timedOut[c] => waiter[c] = "done"
        /\ InPool(c) => worker[c] \in {"pooled", "cancelled"}
        /\ worker[c] = "pooled" => InPool(c)

\* The pool holds a call once.
PoolDistinct == \A i, j \in 1..Len(pool) : pool[i] = pool[j] => i = j

\* What the flags of a call say.
FlagsOK ==
    \A c \in Calls :
        /\ debtNoted[c] <=> c \in Outliving
        /\ worker[c] # "cancelled" => (queued[c] <=> c \in Waiting)
        /\ worker[c] = "cancelled" /\ waiter[c] = "expired" => queued[c]

\* A call that has looked at the debt is the only one.
OneLooks ==
    /\ \A b, c \in Calls : waiter[b] = "checked" /\ waiter[c] = "checked" => b = c
    /\ debt > 0 => slipped <= 1
    /\ debt > 0 /\ (\E c \in Calls : waiter[c] = "checked") => slipped = 0

IndInv ==
    /\ TypeOK /\ SidesOK /\ PoolDistinct /\ FlagsOK
    /\ DebtIsExact /\ GaugeIsExact /\ OneLooks

-----------------------------------------------------------------------------
(* Liveness *)

\* A quarantine always ends.
QuarantineEnds == debt > 0 ~> debt = 0
=============================================================================
