\* Eviction heap, expiry and capacity: feedback switched off, two threads.
CONSTANTS
    Keys = {k1, k2, k3}
    Threads = {t1, t2}
    MaxEntries = 2
    TTLs = {0, 2}
    EnableFeedback = FALSE
    Signed = {FALSE}
    Absent = Absent
    NoThread = NoThread
    MaxTime = 3
    MaxHeap = 5
    MaxEvents = 1
SPECIFICATION Spec
SYMMETRY Symmetry
INVARIANTS CapacityBound HeapCoversLive StaleAccounting
PROPERTIES FreshLossOnlyForRoom ImplementsPromise
