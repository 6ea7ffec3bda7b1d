\* The store is opened twice.  One donut in the room and a hatchling of the
\* same size: either may be what the second start finds last.
CONSTANTS
    h1 = h1
    h2 = h2
    Hashes <- OneHash
    NoHash = none
    DonutCapacity = 2
    Fanout = 1
    MaxBatch = 2
    MaxItems = 3
    MaxStarts = 2
SPECIFICATION Spec
INVARIANTS
    StartedStoreTakesItems
CHECK_DEADLOCK FALSE
