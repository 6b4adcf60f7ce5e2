\* One session, room for two lineages, two requests in flight.
CONSTANTS
    Sessions = {s1}
    Requests = {r1, r2}
    Messages = {m1, m2}
    Cap = 2
    TTL = 0
    Interval = 2
    MaxLength = 2
    MaxNumber = 3
SPECIFICATION Spec
SYMMETRY Symmetry
INVARIANTS IndInv RecordedWithinChain
PROPERTIES LineagesOnlyGrow
