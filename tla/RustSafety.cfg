\* One place, room for two threads to insert at once.
CONSTANTS
    Keys = {k1, k2, k3}
    Threads = {t1, t2}
    Capacity = 1
    TTL = 0
    Absent = Absent
    NoThread = NoThread
    MaxTime = 1
    MaxInserts = 4
SPECIFICATION FairSpec
INVARIANTS IndInv OrderCoversMap OvershootBound
PROPERTIES FreshLossOnlyByEviction MutexIsReleased
