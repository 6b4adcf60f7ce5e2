\* Two workers and a failing access over one hash: every call still ends.
CONSTANTS
    Keys = {k1}
    Workers = {w1, w2}
    MaxEntries = 1
    TTLs = {0}
    Absent = Absent
    MaxTime = 1
    MaxHeap = 2
    MaxRestarts = 0
    MaxFaults = 1
SPECIFICATION FairSpec
PROPERTIES CallsEnd
