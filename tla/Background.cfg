\* Three sessions, two places in the queue, two caches.
CONSTANTS
    Sessions = {s1, s2, s3}
    None = None
    MaxQueue = 2
    MaxCaches = 2
    Evicted = 1
    MaxStarts = 2
SPECIFICATION FairSpec
INVARIANTS IndInv ClaimsAreJobs OneJobPerSession
PROPERTIES ClaimsEnd StopEnds
