\* Two hashes in a store of one, up to two calls a turn, two rounds.
CONSTANTS
    Keys = {k1, k2}
    MaxEntries = 1
    TTLs = {1}
    MaxTime = 2
    Absent = Absent
    Malformed = Malformed
    Client = Client
    Memory = Memory
    MaxRounds = 2
    MaxCalls = 2
SPECIFICATION FairSpec
INVARIANTS IndInv TurnsAnsweredInFull LastingIsDelivered LeftoversExplained
PROPERTIES Answered
