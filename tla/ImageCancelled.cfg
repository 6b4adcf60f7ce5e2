\* Four image requests, as many pools; the worker's call item and a call queue of two.
\* The requests come to an end, so the system may stop.
CONSTANTS
    Requests = {r1, r2, r3, r4}
    MaxPools = 4
    Prefetch = 3
SPECIFICATION Spec
INVARIANTS FailsOpen
CHECK_DEADLOCK FALSE
