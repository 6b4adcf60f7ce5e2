\* The hand-over of feedback events between two threads.
CONSTANTS
    Keys = {k1, k2}
    Threads = {t1, t2}
    MaxEntries = 1
    TTLs = {1}
    EnableFeedback = TRUE
    Signed = {TRUE}
    Absent = Absent
    NoThread = NoThread
    MaxTime = 0
    MaxHeap = 4
    MaxEvents = 3
SPECIFICATION Spec
SYMMETRY Symmetry
INVARIANTS IndInv HeapBoundedAtEviction EventsHandedOverOnce
