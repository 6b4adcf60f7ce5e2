\* One worker that restarts, over a table an access of which fails: what the
\* table keeps, how far it overshoots, and the promise until then.
CONSTANTS
    Keys = {k1, k2, k3, k4}
    Workers = {w1}
    MaxEntries = 2
    TTLs = {1}
    Absent = Absent
    MaxTime = 3
    MaxHeap = 4
    MaxRestarts = 2
    MaxFaults = 1
SPECIFICATION Spec
SYMMETRY Symmetry
INVARIANTS TypeOK OvershootPerMishap
PROPERTIES RoomForNewHashOnly PromiseUntilMishap
