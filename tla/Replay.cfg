\* One session, one lineage and its overflow, three requests, two in flight; the
\* optional stages may change what the first one sends.
CONSTANTS
    Sessions = {s1}
    Requests = {r1, r2}
    Messages = {m1, m2}
    Cap = 1
    TTL = 0
    Interval = 2
    MaxLength = 2
    MaxNumber = 2
    Contexts = {c1}
    MaxTurns = 3
    MaxOptional = 1
SPECIFICATION ReplaySpec
SYMMETRY Symmetry
 
PROPERTIES PromptRepeatsSeen
