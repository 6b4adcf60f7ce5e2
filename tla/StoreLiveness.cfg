\* The event of a retrieval reaches the learners and the lock is given back,
\* whoever wins it next.
CONSTANTS
    Keys = {k1, k2, k3}
    Threads = {t1, t2}
    MaxEntries = 2
    TTLs = {1}
    EnableFeedback = TRUE
    Signed = {FALSE}
    Absent = Absent
    NoThread = NoThread
    MaxTime = 1
    MaxHeap = 4
    MaxEvents = 2
SPECIFICATION FairSpec
PROPERTIES RetrievalsAreHandedOver LockIsReleased
