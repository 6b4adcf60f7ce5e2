\* Three calls on two threads, one request cancelled.
CONSTANTS
    Calls = {c1, c2, c3}
    Workers = 2
    MaxCancels = 1
SPECIFICATION FairSpec
INVARIANTS IndInv DebtIsExact GaugeIsExact OneSlip
PROPERTIES QuarantineEnds
