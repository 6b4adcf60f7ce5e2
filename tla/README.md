# Legroom: a TLA+ model of the compress-cache-retrieve core

Legroom is a proxy that shortens what an LLM application sends to its model.
The step that makes this safe is CCR, compress-cache-retrieve: a tool output is
replaced by a shortened form with a marker `<<ccr:HASH>>`, the original is kept
in a store, and the model may call `legroom_retrieve(HASH)` to get it back. If
the store loses the original, or hands out something else, the compression was
not reversible after all. The models start from that store and work outwards:
to the loop that answers the model's retrievals, to the trackers that keep a
conversation's prompt stable, and to the machinery that compresses on other
threads and in other processes.

## The system and its parts

| Part | State | What is hard about it | Model |
|---|---|---|---|
| Compression store (`legroom/cache/compression_store.py`) | hash -> entry, eviction heap with a stale counter, feedback queue, one lock | threads; a heap that lags behind the map; a queue swapped out by several threads; TTL | `CompressionStore` |
| SQLite backend (`cache/backends/sqlite.py`) | the same map in a file shared by workers and restarts | several processes, each with its own heap and lock; errors that degrade to "missing" | `SharedCcrStore` |
| Retrieval learning (`compression_feedback.py`, `telemetry/toin.py`) | counters per tool and strategy | event kinds that mean opposite things; late events | handed over by `CompressionStore`; not modelled itself |
| Rust CCR stores (`crates/legroom-core/src/ccr/`) | sharded map and an insertion queue; SQLite; Redis | put and get on different shards without a common lock | `RustCcrStore` (in memory) |
| Response handler (`ccr/response_handler.py`) and what `anthropic.py` does around it | the conversation of one request, rounds so far | a loop with the upstream model, mixed and malformed calls, a store read in two steps, failing continuations, responses replaced by hooks and memory tools | `RetrievalTurns` |
| Prefix tracker (`cache/prefix_tracker.py`) | trackers and lineages per session | conversations that share a session id, late responses, a sweep in mid-call | `SessionLineages` |
| The replayed prompt (`proxy/handlers/anthropic.py`) | what the tracker recorded of the last turn | a prompt prefix that must stay as the provider saw it, whatever the compressors do and whatever is appended after them | `PromptReplay` |
| Request-path compression (`proxy/server.py`) | gauges and timeout debt, a bounded thread pool | a timeout racing the start or the end of its worker | `CompressionQuarantine` |
| Background compressor (`proxy/background_compression.py`) | job queue, claimed sessions, a drain task | stop in mid-job, restart, caches evicted under their jobs | `BackgroundCompressor` |
| Image worker pool (`proxy/image_isolation.py`) | one replaceable process pool | a request that times out resets the pool under the others | `ImagePool` |
| RTK poll ownership, sticky tool injection, rate limiter, batch contexts | lock file; bounded LRUs; token buckets; contexts with a TTL | see the hazards | planned |
| Everything else (transforms, handlers, memory, CLI, SDKs, Rust proxy, ...) | mostly none | algorithms over text; I/O | not modelled |

How they interact: the transforms call `store()` when they replace content; the
response handler, the MCP server and the HTTP endpoint call `retrieve()` and the
status calls; `store()` and `retrieve()` push events to the learners. A request
is resolved to a lineage, compressed (in the request-path pool or, for a cold
one, in the background), overlaid with the recorded prefix and sent; the answer
goes through the retrieval loop and into the lineage's tracker.

`PROJECT.json` lists every component, modelled or not, with the reason, and
every hazard at its line.

## Modules

| Module | Models | Kind |
|---|---|---|
| `RedeemableStore` | what a store promises to the holder of a marker | abstract specification |
| `CompressionStore` | `compression_store.py` over the in-memory backend, many threads | component |
| `SharedCcrStore` | the same store over `backends/sqlite.py`, many processes, restarts, failing accesses | component |
| `RustCcrStore` | `ccr/backends/in_memory.rs`, many threads | component |
| `RetrievalTurns` | `handle_response()` and the rest of a response's way, between the provider and `RedeemableStore` | composition |
| `SessionLineages` | `SessionTrackerStore` | component |
| `PromptReplay` | the Anthropic handler's prompt over `SessionLineages` | composition |
| `CompressionQuarantine` | `_run_compression_in_executor()` and its pool | component |
| `BackgroundCompressor` | the background compressor, its thread, the table of caches | component |
| `ImagePool` | the image pool and its manager threads | component |
| `CompressionStoreProofs`, `SharedCcrStoreProofs`, `RustCcrStoreProofs`, `RetrievalTurnsProofs`, `PromptReplayProofs` (with `SessionLineages`), `CompressionQuarantineProofs`, `BackgroundCompressorProofs`, `ImagePoolProofs` | | proofs |
| `MC...` | instances for TLC, with symmetry where nothing orders or names the values | model checking |

Operators marked `mutant` sit next to the definition they corrupt, the way a
plausible bug would; no specification uses them. They show that each property
can fail.

### CompressionStore

The lock makes an operation that holds it from its first access to its last one
action. What is not under the lock throughout is cut where other threads come
in.

| Code | Actions |
|---|---|
| `store()` | `StoreBegin` stamps the entry before any lock; `TakeFeedback`, `Deliver`; then `StoreOverwrite` (known hash), or `StoreLock` (expiry sweep, rebuild), `EvictPop` (one iteration of the loop), `StoreInsert` |
| `retrieve()` | `Retrieve` on a hit, then `TakeFeedback`, `Deliver`; `ExpireOnAccess` on an expired entry; a miss changes nothing |
| `get_metadata()`, `exists()`, `get_entry_status()` | `ExpireOnAccess`; otherwise they change nothing |
| `get_stats()`, `clear()` | `GetStats`, `Clear` |
| `process_pending_feedback()` | `TakeFeedback` swaps the queue out and completes the events under the lock, `Deliver` tells the learners outside it, one event per step |

The lock is a variable because the eviction loop keeps it over several steps.
Content is abstracted to its hash; an entry keeps its stamp, its TTL, whether
it was retrieved and whether it carries a tool signature. The heap is a
sequence of (stamp, hash) pairs of which a pop takes any one with a minimal
stamp: among equal stamps the code compares the text of the hashes, which the
model does not fix. Time is an integer that only grows; entries expire on
strict comparison as in the code. The model ends where an event is handed to
the learners. What they make of it is theirs: `CompressionFeedback` counts
nothing when learning is off or the event has no tool name, TOIN nothing when
it is disabled. That a learner does not raise is assumed of
`feedback.record_retrieval()`, which is called outside any `try`
(`compression_store.py:868`); the two calls after it have one each.

### SharedCcrStore

One `CompressionStore` per worker process over one table. The worker's own lock
lets one call run at a time, so a worker is a sequential process here, but
between two database accesses any other worker may act: every access is an
action. `store()` is `StoreLookup`, `SweepRead`, `SweepDelete` (one row each),
`Rebuild`, `CheckRoom`, `Victim`, `Evict`, `Set`, and possibly `Purge`;
`retrieve()` is `RetrieveRead` and then `Set` or `ExpireDelete`. Heap and stale
counter are per worker and lost in `Restart`, which may come between any two
accesses; the table stays. Each access may fail with a transient error
(`ok = FALSE`), which the backend turns into a miss, an empty list, a zero or a
lost write. A failing read in `retrieve()` is a miss and changes nothing. The
order of equal stamps in a heap does not matter here, so the heap is a bag.
The purge runs at most once a minute in the code and at any `Set` in the model.

### RustCcrStore

There is no lock over the whole of `put()`: a lookup or update of the sharded
map is atomic, an access to the queue is atomic under its mutex, and everything
else interleaves. `put()` is `PutRefresh`, or `PutMiss`, `PutCheck`,
`EvictLock`, `EvictPop`, `EvictRemove`, `EvictDone`, `PutInsert`, `PutAppend`;
`get()` is `GetRead` and, for an entry seen expired, `GetExpire`. `map.len()`,
which visits the shards one after the other, is taken as one read; `ranks` is a
history variable that orders the entries.

### RetrievalTurns

One response of the provider, from `parse_ccr_tool_calls()` to the answer the
client gets. The store is `RedeemableStore`, so the handler is checked and
proved over what the store promises and not over how it keeps it; by
`StoreKeepsPromise` no step of the handler asks for more. Between any two
accesses `World` lets the clock and the other requests act.

| Code | Actions |
|---|---|
| the `while` loop's tests | `BeginRound`, `EndLoop` (guards `Answers`, `Ends`) |
| `_execute_retrieval()` | `AskStatus`, `Fetch`, `ExplainMiss`, one critical section of the store each; `RetrievalRaises` for its `except` |
| the continuation | `Send`, then `Continue` (any response) or `ContinuationFails` |
| turn hooks (`anthropic.py`) | `RunHooks`: the response as it is, or any other |
| the memory tools' continuation | `HandleMemory`: any response and status in the place of those there, if the response has a call of theirs |
| the answer | `Answer`: the provider's status, or 502 for a buffered stream with a lone retrieval left or that cannot be turned into events |
| the outer `except` | `Raise`: 502 |

A response is its sequence of tool calls: a hash, `Malformed` (named
`legroom_retrieve` but without a usable hash, which the code files under the
client's calls), `Memory`, or `Client`. `upstream` is the status that came with
it, where 400 stands for any that is not 200. `lasting` (the hashes that have
been redeemable ever since the round began), `failed` (a continuation raised)
and `redriven` (a hook or the memory tools replaced the response) are history
variables. Hooks, memory and the `except` are the Anthropic handler's. The
content of the answer is not modelled beyond its calls, and a scan that blocks
a response by its text is left out.

### SessionLineages and PromptReplay

`resolve_tracker()` does not await, so two calls never overlap, but it looks at
the clock twice: `ResolveMatch` (first sweep, match, key) and `ResolveStamp`
(`get_or_create()` with the second sweep, then the stamp), with at most one
`Tick` in between. `ResolveBare` is a request without messages, `Respond` is
`update_from_response()` whenever the answer comes, in any order, on the tracker
object the request was given: `SweptSent` turns it into an `Orphan` when the
store drops that tracker. A history is a sequence of messages, compared by
prefix as the code compares canonicalised ones. Ages saturate one above the TTL
and the time since the last sweep at the interval, beyond which the code does
not look.

`PromptReplay` adds to each request what is forwarded and recorded:

| Code (`anthropic.py`) | Operators of `Forward` |
|---|---|
| the compression pipeline | every message in some form, chosen freely: the compressors may come to any result |
| `overlay_cached_prefix()` | `Overlay`: the recorded forms of the common prefix, if the record's two lists are `InStep` |
| the inflation guard | `Guarded`: everything raw, if the overlay changed nothing |
| the proactive expansion, memory context | `WithContext`: a context found for the query, appended to the last message |
| pipeline extensions, read maturation, system instructions, turn hooks | `OptionalStages`: messages in other forms (`Reformed`), perhaps one put before them (`Notice`) |
| `update_from_response()` | `Record`: the client's messages and the prompt, both with the answer |

A part of a prompt carries the content it stands for, its form, and what was
`added` to it, each piece with the history it was found for. Appending is on by
default and not idempotent: the record of the last turn is replayed with its
context, and the message it was added to, sent again, gets the next one on top.
Whether there is anything to append, and whether the message may take it (it has
text, it is the user's, it is not frozen), is left open: any subset of turns may
get it. The stages of the last but one row are off unless configured; a turn
they change is in `touched`, and a message put in front leaves the record's
lists of different lengths, so that the code does not replay it. Extensions and
hooks are external code; those that drop, reorder or merge messages are not
modelled, nor are `cache_control` markers.

### CompressionQuarantine

A call has a side on the event loop (`waiter`) and one on a pool thread
(`worker`). The steps of the loop never interleave with one another (`LoopFree`
keeps `Check` and `Submit` together), those of the threads interleave with
everything. The three blocks under `_compression_metrics_lock` are one action
each: `Start` and `Finish` on the thread, `RecordTimeout` in the `except`
clause; `Expire`, which comes before it, is `wait_for()` cancelling the future,
so a worker may start or finish in between. `CancelCall` is the cancellation of
the request's own task, which no clause settles. The executor is modelled as
`concurrent.futures` has it: a cancelled item stays in its queue and is dropped
by the thread that takes it. `leaked`, `cancels` and `slipped` are history
variables.

### BackgroundCompressor

A step is what the event loop runs between two awaits, or a step of the
background thread. `Request` is a cold request (`enqueue()` and the cache it is
bound to, with the eviction of the oldest quarter of the table), `Take`,
`ThreadStart`, `ThreadEnd`, `Settle` are one job's way through the drain,
`StopBegin`, then `JoinDone` or `JoinTimeout`, are `stop()`. A job cancelled on
the thread leaves an `orphan` run behind. Whether a job's result reaches anybody
is kept as `attached`: the cache object the job was bound to is still the one in
the table. The proxy calls `start()` once; the model lets it be called again
after `stop()`, as the class allows.

### ImagePool

Requests submit to the current pool or create one, and resume when their future
is done; a timeout, a failure or a broken pool makes them `Reset` whichever pool
is current then. Each pool's manager hands call items out (up to `Prefetch`: the worker's, and
those in the executor's call queue ahead of it), completes futures, fails them all when the worker dies, and cancels what is
pending after `shutdown(cancel_futures=True)`.

## Runs

| Run | Question | Bounds, and why they are enough |
|---|---|---|
| `store_capacity` | Does the lagging heap ever break the capacity, lose sight of an entry, miscount, or evict the wrong one? Does the store implement `RedeemableStore`? | 3 hashes for 2 places, so that evictions choose; 2 threads, one in the loop while the other stamps; TTL 0 and 2 over 4 instants, so that entries expire in and out of order; heap up to 5, past the rebuild threshold |
| `store_feedback` | Is each event handed over exactly once, and is the heap bounded when it is scanned? | 2 hashes, 1 place, 2 threads, 3 events and those queued by evictions: both threads in the queue while it is refilled and cleared |
| `store_liveness` | Does the eviction loop end and the event of each retrieval reach the learners? | 3 hashes, 2 places, 2 instants: stale pairs below the rebuild threshold reach the front of the heap; 2 retrievals |
| `shared_restart` | What survives a worker that dies at any access, and an access that fails? Until then, do the single accesses add up to the promise of `RedeemableStore`? | 4 hashes, 2 places, 1 worker, 2 restarts and 1 failing access in any order, 4 instants: the empty heap of a restarted worker, over rows it does not know, is filled again |
| `shared_workers` | Does every call end, whatever the other worker and a failing access do? | 1 hash, 1 place, 2 workers, 1 fault |
| `rust_safety` | Do the map and the queue stay in step, and does the loop end? | 3 hashes, 1 place, 2 threads, 4 insertions; the proofs cover every size |
| `turns` | Is every turn sent back answered in full, is nothing redeemable denied, what may be left unanswered, and does the client get its answer? | 2 hashes in a store of 1, so that they push each other out, and expire (TTL 1 over 3 instants) between the accesses; 2 calls a turn, so that turns mix; 2 rounds, and any response of a hook and of the memory continuation after them |
| `lineages` | Does a late response, a shared session id or a sweep in mid-call ever tie a conversation to another one's record? | 1 session with room for 2 lineages, 2 requests in flight, 2 messages, histories up to 2: branches, identical requests, overflow, expiry at the boundary. Sessions do not interact but through the sweep, which the proofs cover |
| `replay` | Is the forwarded prompt the client's, and does it repeat what the provider has seen? | a lineage and its overflow, 2 requests in flight and 3 in all: a recorded turn, and two that overlap and replay it, contexts included; histories up to 2 and their answers; 1 context, which stacks; the optional stages change what the first one sends and records |
| `quarantine` | Does the debt count exactly the workers that outlive their requests, and does the quarantine end? | 3 calls on 2 threads, so that one waits; 1 cancelled request; slots are used again without bound |
| `background` | Is a claim given back on every path, is a session compressed once at a time, does `stop()` return? | 3 sessions, 2 queue places, 2 caches of which 1 is evicted, 2 starts |
| `image_cancelled` | Does every image request end with its payload? It does not; see below | 4 requests, 4 pools, the worker's item and two in the executor's call queue |

`MaxTime`, `MaxTurns`, `MaxOptional`, `MaxHeap`, `MaxEvents`, `MaxInserts`, `MaxRestarts`, `MaxFaults`,
`MaxCalls`, `MaxLength`, `MaxNumber`, `MaxCancels`, `MaxStarts` and `MaxPools`
bound the clock, the requests, those among the first that the optional stages
may change, the heap, the event numbers, the insertions, the restarts, the
faults, the calls of a response, the histories, the lineage counter, the
cancelled requests, the starts of the drain and the pools. They stand only in
guards of actions that start something, or in the sets inputs come from, so
what has begun is never cut short; `MaxOptional` closes one alternative of
`Forward`, and no proof needs it. Deadlock is checked in every passing run.

What the properties say, beyond the stores:

* `TurnsAnsweredInFull`: providers refuse a conversation in which a tool call
  has no result, so every assistant turn that is sent back, in this round or
  an earlier one, has exactly one result for each of its calls. It is about
  `handle_response()`. The continuation of the memory tools carries their
  results alone, so a turn that mixes them with retrievals or with the client's
  calls is sent back incomplete there.
* `LastingIsDelivered`: reading status and content apart can produce an odd
  answer, but never denies a hash that was redeemable throughout.
* `LeftoversExplained`: the only answers with status 200 that leave a lone
  retrieval to a client that cannot serve it are plain ones after a failed
  continuation, after the last round, or with a response a turn hook or the
  memory continuation brought: the loop does not run again for those. A
  buffered stream never is one.
* `RecordedWithinChain`, `LineagesOnlyGrow`: in whatever order the responses
  come, a lineage's tracker holds a prefix of that conversation, and a lineage
  is only continued by its own extension. `PromptRepeatsSeen` is what this is
  for: the next prompt repeats what the provider has in its cache, in the form
  it saw and with the contexts it saw, unless the inflation guard sends
  everything raw. A context may be added to its last message, which for a turn
  that is sent again is one the provider has seen without it. Turns the optional
  stages change, and records that are out of step, are excepted.
  `FaithfulPrompts` says that even the overflow tracker, which several
  conversations share, never puts one conversation's content into another's
  prompt, nor a context that was found for another: what is replayed with a
  message is what was found for exactly the messages up to it.
* `DebtIsExact`, `QuarantineEnds`: neither a missed nor an everlasting debt.
  `OneSlip`: the look at the debt and the submission are apart, and at most one
  call gets through there. `GaugeIsExact` has the leak described below as a
  term.
* `ClaimsAreJobs`: the claim is taken before the job is queued and released on
  three paths; a claim without a job would shut its session out for good.

## Known disagreements

`image_cancelled` is a run of its own (`FailsOpen`): a request that times out
shuts the shared pool down with `cancel_futures=True`. The job of another
request that is still pending there is cancelled, its `await` raises
`CancelledError`, which is no `Exception`, and so neither
`image_isolation.py:123` nor the handlers (`openai.py:2597`,
`anthropic.py:1236`) forward the original payload, although the comment there
says "fail open on timeout/error and forward the original messages".

The others are stated as properties at the end of their modules and are refuted
by replacing the properties of a configuration by the one named, with
`SPECIFICATION Spec` (`INVARIANT` for the three marked i, `PROPERTY` for the
rest):

| Property | Configuration | Said | Done |
|---|---|---|---|
| `EvictionSuccessIsReported` (i) | `StoreFeedback.cfg` | an eviction success notifies the learners (`compression_store.py:705`, `:750`) | its signature is looked up after the entry was deleted, so it is reported to nobody |
| `OnlyRetrievalsReachToin` (i) | `StoreFeedback.cfg` | TOIN's `record_retrieval` is called when the model retrieves (`toin.py:791`) | an eviction success whose hash was stored again in between is told to TOIN as a retrieval |
| `OldestGoesFirst` | `SharedRestart.cfg` | eviction removes the oldest first (`compression_store.py:203`) | after a restart the heap knows only what this process stored: the newest goes |
| `OtherWorkersFindIt` | `SharedWorkers.cfg` with `MaxEntries = 2` | a retrieve served by another worker still finds the entry (`sqlite.py:10`) | an expired row is deleted by hash after another worker has written a fresh one |
| `TransientErrorsDestroyNothing` | `SharedWorkers.cfg` | data is never destroyed over a transient error (`sqlite.py:126`) | a failed lookup makes a re-store look new, and an unrelated live entry is evicted |
| `OldestIsEvicted` | `RustSafety.cfg` | the oldest entry per insertion order is evicted, stale queue places are no-ops (`in_memory.rs:26`, `:33`) | a hash stored again after a lazy expiry is evicted from its old place |
| `StampIsRecorded` | `Lineages.cfg` | "the family read here stays attached through the stamp at the end" (`prefix_tracker.py`, `resolve_tracker()`) | a first look just before the interval ends sweeps nothing; the second may prune the family, and the stamp goes to a detached dictionary |
| `ErrorsAreRaised` (i) | `Turns.cfg` | "we re-raise on CCR errors instead of swallowing them" (`openai.py:3500`) | `handle_response()` itself swallows a failed continuation (`response_handler.py:512`), so nothing reaches the handler that would re-raise it |

And some comments are weaker in the code than in words, with a property that
states what does hold: the heap is bounded when an eviction scans it, not
between (`HeapBoundedAtEviction`); the capacity of the Rust store is exceeded by
at most one entry per other thread (`OvershootBound`), that of the shared store
by one per restart or failed access of a single worker (`OvershootPerMishap`);
jobs cancelled
before a worker starts leave the queued gauge on a timeout, but not when the
request itself is cancelled (`GaugeIsExact`, `server.py:1265`). A lone
`legroom_retrieve` call whose hash does not parse counts as resolved
(`Residual`) and goes to the client as it is.

## Fairness

The components assume only that what has begun runs on: a thread or worker
inside a call (stores), the response handler, whose continuation ends by its
HTTP timeout at the latest, and the hooks and memory tools after it (`turns`;
that anything raises is not assumed: `Raise` is not fair), the loop's settlement of what it began,
idle threads that take queued items, and compressors that terminate
(`quarantine`, `background`), and the timeout of `join()`. All of it is weak
fairness. Nothing is assumed about who calls what, about the clock, about who
starts or stops the drain, or about who wins a lock: neither Python's `Lock`
nor Rust's `Mutex` promises an order. This is why `RetrievalsAreHandedOver` is
worth stating: a retrieving thread may lose the lock for ever, and then it is
the others who process its event. Nothing of the kind holds for an eviction
success, which waits for the next call, if there is one. That compressors
terminate is an assumption of `QuarantineEnds`: a worker that hangs keeps the
quarantine on, which is what the code intends.

## Proofs

TLAPS checks, for every value of the constants and without the bounds being
small (they are arbitrary naturals):

* `CompressionStoreProofs`: `Invariance` (`IndInv`), and from it
  `TypeCorrectness`, `Capacity`, `Coverage`, `Accounting`, `HeapBound`; and
  `HandOver`, from an invariant of its own (`EventsInv`); then `FreshLoss` and
  `Refinement` (every step is a step of `RedeemableStore` or a stutter).
* `SharedCcrStoreProofs`: for any number of workers `SharedTypes`,
  `EachAccessAdvances` and `WorkStaysFinite`; for one worker (`OneWorker`) and
  any number of restarts and failed accesses `OneWorkerCapacity`, `OneWorkerLoss` and `OneWorkerPromise`; and
  `OneWorkerRefinement`, that without restarts and failures it implements
  `RedeemableStore`.
* `RustCcrStoreProofs`: `RustInvariance`, `Coverage`, `Overshoot`,
  `GetWipesNothingFresh`.
* `RetrievalTurnsProofs`: `TurnsInvariance`, `AnsweredInFull`,
  `LastingDelivered`, `Leftovers`, `StoreKeepsPromise`.
* `PromptReplayProofs`: of `SessionLineages`, `LineageInvariance`,
  `RecordsStayWithin`, and the action property `LineagesContinue`; of
  `PromptReplay`, which extends it, `ReplayDrivesLineages` (every step of the
  handler is a step of `SessionLineages` or a stutter), `ReplayInvariance`,
  `PromptsAreFaithful`, and the action property `PromptsRepeat`.
* `CompressionQuarantineProofs`: `QuarantineInvariance`, `ExactDebt`,
  `ExactGauge`, `AtMostOneSlip`.
* `BackgroundCompressorProofs`: `BackgroundInvariance`, `ClaimsHold`, `OneJob`,
  `JoinCounts`.
* `ImagePoolProofs`: `PoolInvariance`, and from it `NoJobForgotten`,
  `PoolsAreReplaced` and `CancellationIsForeign`.

The assumptions are the named `ASSUME`s of the components: finite sets where
something is counted, natural bounds, model values that are not values of the
other kind. The Rust overshoot also needs finitely many threads.

Why the invariants look as they do.

*CompressionStore.* `CapacityBound` alone is not inductive: the insert is safe
only if the loop ended with room, not with an empty heap. The heap cannot be
empty at capacity because every entry has a pair (`HeapCoversLive`). Popping a
pair keeps that only if the popped pair is not the last one of an entry that
stays, and keeps the counter exact only if a pair that speaks for no entry was
counted as stale (`StaleAccounting`). That last step is a pigeonhole argument
(`StalePairIsSurplus`): if every entry has a pair and one more pair speaks for
none, there are more pairs than entries, so the counter is positive and the
code's guard against going below zero never hides anything.
`EvictorAddsNewHash` is the fact the lock protects: nobody stores the hash while
the loop makes room for it. `EventsHandedOverOnce` is not inductive either: an
event that is delivered leaves the batch only if the batch holds it once, and
the queue a thread takes is all of its batch only if it had none (`EventsInv`).

*SharedCcrStore.* The types need to know at which access a call has which
locals (`CallFits`), and hold whatever the workers do to each other. The rest is
about one worker (`OneInv`), whose calls are a sequence of accesses between
which it may die. `CapacityBound` is replaced by counting mishaps, restarts and
failed accesses together. The bound on the rows (`RowsInv`) is carried by the
bound on those the worker cannot reach, because neither its heap nor the pair in
its hand names them: there is always one place fewer for these (`ReachInv`). So
an eviction loop that ends because its heap is empty, not because there is room,
leaves room for one more row; and any mishap, which may put every row out of
reach, raises the bound by the one place that pays for it (`MishapPays`). Before
the first mishap no row is out of reach, so the loop ends with room. `CallInv`
says that what a call has read is still so when it acts on it, `OrderInv` that
the pair in hand is an oldest one and, once compared, that of the row to be
deleted; with them each access is a step of the promise.

With two workers all of this is false, and no bound takes its place. Another
worker's rows are in nobody's reach but its own, a row is deleted by hash after
another worker has written a fresh one (`OtherWorkersFindIt`), and `retrieve()`
writes back a row that another worker has evicted in between, as often as one
likes. What holds for any number is `SharedTypes`, and that calls end. For the
latter TLC checks `CallsEnd`, and its variant is proved: each access of a call
leads to a later stage, or leaves a sweep less to delete, or is one of the
eviction loop, which another worker can keep from ever finding room but which
takes a pair off the heap each time round (`Advances`); other workers leave the
call where it is and its heap as it is (`EachAccessAdvances`); and what there is
to delete or to pop is finite (`WorkStaysFinite`, which needs that the table is:
`FinitesInv`).

*RustCcrStore.* `RoomForInserters` counts the entries and the threads that were
let through the check together. A thread is also let through by an empty queue
although the map is full; then, by `OrderCoversMap`, everything in the map is
yet to be queued by some other thread, so there are at most as many entries as
other threads. Each of the two conjuncts is needed to carry the other's
consequence.

*RetrievalTurns.* `RoundOK` says that the results so far are those of the first
calls, in order, of a response without other calls; at `Send` they are all.
`LastingOK` carries the store's side: what has lasted is redeemable now, so a
hash that `Fetch` missed has not lasted, and `ExplainMiss` may deny it. `EndOK`
says how the loop was left: a continuation failed, or the response is not the
loop's any more, or it is one the loop does not answer, and then a lone
retrieval is left only by the last round.

*SessionLineages.* `RecordedWithinChain` needs three more facts: numbered keys
are never used twice (`NumbersUsed`), the bare tracker a new lineage adopts has
no record (`BareIsEmpty`), and what the match settled still holds at the stamp
(`CallOK`), although a sweep may come in between. The proofs first treat the
index as a value (`Lineages`) and show what dropping keys, ageing, recording and
giving out a tracker do to it, since one action does several of these.

*PromptReplay.* All that is proved of `SessionLineages` carries over through
`ReplayDrivesLineages`. `RecordOK` adds that a tracker's two lists, while they are in step, say the same
and begin with the last turn it recorded and the prompt the provider saw, and
`PromptsOK` that every prompt says what its request says; of a record out of
step nothing is known, and nothing of it is replayed. Saying the same includes
what was added: a replayed part was recorded at the same place of a history with
the same beginning (`CommonIs`), so its contexts were found for the new request's
messages just as well (`OverlayIs`), and a context added now changes the last
message only (`WithContextIs`). A conversation's turn
and what its tracker recorded are prefixes of one history
(`RecordedWithinChain`), so they agree as far as both go, and the common length
covers all of that (`OverlayRepeats`, `StillRepeats`).

*CompressionQuarantine.* `DebtIsExact` is a cardinality; `FlagsOK` says of each
call that its debt is noted exactly while its worker runs and its timeout is
recorded, so a step of one call moves the count by the same amount as the
counter (`CountsOfStep`). `OneLooks` counts the call between its look and its
submission together with those that slipped.

*BackgroundCompressor.* `ClaimsAreJobs` is kept by `Take` and `Settle` only
because no session is queued twice (`OneJobPerSession`): otherwise releasing the
claim of the finished job would leave the other one unclaimed.

*ImagePool.* `FailsOpen` is false; what remains true is proved instead. A request
that waits has its job in a pool that serves it (`JobsAreHeld`): what can end it
is the worker, its own timeout or a cancellation; only another request that
was itself sent on with its original messages can have caused the cancellation
(`CancelledByAnother`); and no pool is left behind running (`NoPoolLeaks`).
`QueueOK` carries them: a job is held once, waits, and is held by the pool of its
future, and only what the worker has got may have been given up by its request.
TLC checks `IndInv` and the three properties with the constants of
`ImageCancelled.cfg`; no run of its own repeats it.

Only model-checked: all liveness (`LockIsReleased`, `RetrievalsAreHandedOver`,
`MutexIsReleased`, `CallsEnd`, `Answered`, `QuarantineEnds`, `ClaimsEnd`,
`StopEnds`), since temporal reasoning with fairness and ENABLED is out of the
prover's reach; of `CallsEnd` the variant is proved, as above. Every other
property of a passing run is proved.

## Not modelled

Payload text, JSON filtering of rows, file permissions, log lines, memory
statistics and the reporting list of recent retrievals: nothing a modelled
operation decides on. File corruption and re-creation of the database. Threads
inside one worker of `SharedCcrStore` (they are in `CompressionStore`). What
the learners make of the events they are handed. The token counts that set the frozen
prefix and the growth statistics of a tracker. The provider formats of tool
calls and the streaming variant of the response handler, and what else the
handlers of the other providers do around it. The scan of responses by an
enterprise extension, and extensions that drop or reorder messages. What is inside a
`CompressionCache`. The metrics-only counters of the request-path pool. The
components listed as `not_modelled` in `PROJECT.json`, for the reasons given
there: most of the repository is text algorithms, adapters, command lines and
I/O, whose state does not outlive a call.

## Plan

1. `PollOwner` and `DatabaseFile`: lock file and database file that are
   unlinked while others hold them open. At most one owner; no split of the
   table.
2. `StickyTools`: golden bytes pinned per session under a bounded LRU, read and
   recorded in separate lock acquisitions.
3. The rate limiter as a pure algorithm against a reference definition, then
   the batch contexts over `RetrievalTurns`.
4. What holds of several workers over one table, once `DatabaseFile` is there.
